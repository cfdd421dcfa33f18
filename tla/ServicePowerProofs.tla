------------------------- MODULE ServicePowerProofs -------------------------
(***************************************************************************)
(* Proofs, for any number of controllers, any deadlines and any buses,     *)
(* that the host acquires and releases its controllers all together, that  *)
(* a service that sleeps holds no power, that amplifiers run and are       *)
(* probed on a live bus only, that what pends is polled and answered, and  *)
(* that nothing is bound before the board is identified.                   *)
(*                                                                         *)
(* The invariants rest on each other: IInv is their conjunction with what  *)
(* a controller (Sound) and the host (HostSound) are between two handlers  *)
(* and what the flags of the service exclude.                              *)
(***************************************************************************)
EXTENDS ServicePower, TLAPS

\* A controller of a host of this kind, between two calls of the host.
Sound(kind, c) ==
    /\ c \in Controller
    /\ c.phase = "None" => /\ c.client = "None" /\ ~c.vote /\ ~c.pending
                           /\ ~c.online /\ ~c.acpi
    /\ c.online => c.phase = "Mapped"
    /\ c.memChanged => c.phase = "Mapped"
    /\ kind = "AMD" => /\ c.client = "None" /\ ~c.vote /\ ~c.pending
                       /\ ~c.acpi /\ ~c.memChanged /\ c.phase # "Open"

AllOrNone(h) ==
    \A s, t \in Slots : h.slot[s].phase = "None" => h.slot[t].phase = "None"

\* The slots before the one where a resume goes on are awake.
HostSound(h) ==
    /\ h \in Host
    /\ \A s \in Slots : Sound(h.kind, h.slot[s])
    /\ AllOrNone(h)
    /\ \A s \in Slots : s < h.resumeSlot => h.slot[s].online

\* Whatever is mapped can transfer.
MappedOnline(h) == \A s \in Slots : h.slot[s].phase = "Mapped" => h.slot[s].online

OnItsBus(h) ==
    /\ h.kind = "AMD" <=> bus = "AMD"
    /\ bus = "I2C" => ~Bound(h) /\ h.resetLine = "None"

RunningManagers == {"Ready", "Playing", "Waiting"}

Members(u, powered, joined) ==
    /\ u.manager # "Detached"
    /\ u.manager \in RunningManagers => powered /\ Live(u)
    /\ u.manager \in RunningManagers \cup {"Suspended"} =>
          u.host.resetLine # "Held" /\ (bus = "I2C" \/ Bound(u.host))
    /\ u.authorized /\ u.detected =>
          u.host.resetLine # "Held" /\ (~joined \/ bus = "I2C" \/ Bound(u.host))

OffStage ==
    phase # "Running" =>
        /\ power /\ ~startupPending /\ ~startupFailed /\ ~resumePending
        /\ ~pmInitialized /\ ~identityPending /\ ~timer /\ ~ackOwed
        /\ unit.manager = "Unbound" /\ ~Bound(unit.host) /\ ~sleptPending

Starting ==
    startupPending => /\ ~resumePending /\ ~identityPending /\ ~startupFailed
                      /\ unit.manager = "Unbound" /\ ~unit.detected
                      /\ Bound(unit.host) /\ (~power => sleptPending)

Excluded ==
    /\ startupFailed => ~resumePending /\ ~Bound(unit.host)
    /\ resumePending => ~power /\ timer /\ pmInitialized

Awake == power /\ ~sleptPending => MappedOnline(unit.host)

IInv ==
    /\ TypeOK
    /\ HostSound(unit.host) /\ OnItsBus(unit.host)
    /\ Members(unit, power, pmInitialized)
    /\ OffStage /\ Starting /\ Excluded /\ Awake
    /\ AsleepLetsGo /\ PendingIsPolled /\ AnswerIsComing /\ IdentityFirst
    /\ ProbesMeetLiveBus

-----------------------------------------------------------------------------
(* One controller *)

\* What a request for power leaves alone.
SameButPower(c, d) ==
    /\ d \in Controller
    /\ d.phase = c.phase /\ d.online = c.online /\ d.selects = c.selects
    /\ d.acpi = c.acpi /\ d.acpiWaited = c.acpiWaited
    /\ d.memWas = c.memWas /\ d.memChanged = c.memChanged /\ d.mem = c.mem
    /\ c.d0 => d.d0

LEMMA SameTransitive ==
  ASSUME NEW a, NEW b, NEW c, SameButPower(a, b), SameButPower(b, c)
  PROVE  SameButPower(a, c)
BY DEF SameButPower

LEMMA PowerClientSame ==
  ASSUME NEW c \in Controller, NEW o \in PowerClient(c)
  PROVE  SameButPower(c, o.c)
BY DEF PowerClient, Outcome, SameButPower, Controller, Clients

LEMMA VoteSame ==
  ASSUME NEW c \in Controller, NEW o \in Vote(c)
  PROVE  SameButPower(c, o.c)
<1> DEFINE d == [c EXCEPT !.vote = TRUE, !.pending = TRUE]
<1>1. SameButPower(c, d)
  BY DEF SameButPower, Controller
<1>2. SameButPower(c, c)
  BY DEF SameButPower
<1>3. o \in {Outcome(c, "Success"), Outcome(c, "Error"), Outcome(d, "Success")}
  BY DEF Vote
<1> HIDE DEF d
<1> QED BY <1>1, <1>2, <1>3 DEF Outcome

LEMMA SampleSame ==
  ASSUME NEW c \in Controller, NEW o \in Sample(c)
  PROVE  SameButPower(c, o.c) /\ (o.ret = "Success" => ~o.c.pending /\ o.c.d0)
<1> DEFINE a == [c EXCEPT !.pending = FALSE]
           d == [a EXCEPT !.d0 = TRUE]
<1>1. SameButPower(c, c)
  BY DEF SameButPower
<1>2. SameButPower(c, a) /\ ~a.pending /\ a.d0 = c.d0
  BY DEF SameButPower, Controller
<1>3. SameButPower(c, d) /\ ~d.pending /\ d.d0
  BY DEF SameButPower, Controller
<1>4. \/ c.d0 /\ o = Outcome(a, "Success")
      \/ o = Outcome(d, "Success")
      \/ \E ret \in {"NotReady", "Timeout"} : o \in {Outcome(a, ret), Outcome(c, ret)}
  BY DEF Sample
<1> HIDE DEF a, d
<1> QED BY <1>1, <1>2, <1>3, <1>4 DEF Outcome

LEMMA ZeroTicks == 0 \in 0 .. PowerDeadline
BY DeadlinesAssumption

LEMMA AcquireSame ==
  ASSUME NEW c \in Controller, NEW o \in AcquirePower(c)
  PROVE  SameButPower(c, o.c) /\ (o.ret = "Success" => ~o.c.pending /\ o.c.d0)
<1> DEFINE a == IF c.pending THEN c ELSE [c EXCEPT !.waited = 0]
<1>1. SameButPower(c, a) /\ a \in Controller
  BY ZeroTicks DEF SameButPower, Controller
<1> HIDE DEF a
<1>2. CASE o = Outcome([a EXCEPT !.pending = FALSE], "NoDevice")
  <2>1. SameButPower(a, [a EXCEPT !.pending = FALSE])
    BY <1>1 DEF SameButPower, Controller
  <2> QED BY <1>1, <1>2, <2>1, SameTransitive DEF Outcome
<1>3. CASE o \in Then(Then(PowerClient(a), Vote), Sample)
  <2>1. ASSUME NEW v \in Then(PowerClient(a), Vote)
        PROVE  SameButPower(a, v.c)
    <3>1. PICK p \in PowerClient(a) : v \in IF p.ret = "Success" THEN Vote(p.c) ELSE {p}
      BY DEF Then
    <3>2. SameButPower(a, p.c) /\ p.c \in Controller
      BY <1>1, PowerClientSame DEF SameButPower
    <3> QED BY <3>1, <3>2, VoteSame, SameTransitive
  <2>2. PICK v \in Then(PowerClient(a), Vote) :
          o \in IF v.ret = "Success" THEN Sample(v.c) ELSE {v}
    BY <1>3 DEF Then
  <2>3. SameButPower(a, v.c) /\ v.c \in Controller
    BY <2>1 DEF SameButPower
  <2> QED BY <1>1, <2>2, <2>3, SampleSame, SameTransitive
<1> QED BY <1>2, <1>3 DEF AcquirePower, a

LEMMA ShutdownSound ==
  ASSUME NEW c \in Controller
  PROVE  Sound("Intel", IntelShutdown(c)) /\ IntelShutdown(c).phase = "None"
<1> DEFINE released == ReleasePower(c)
           mem == IF c.phase # "None" /\ c.memChanged /\ c.d0 THEN c.memWas ELSE c.mem
           closed == [released EXCEPT !.phase = "None", !.pending = FALSE,
                                      !.online = FALSE, !.mem = mem]
           d == [closed EXCEPT !.memChanged = FALSE, !.selects = FALSE,
                               !.acpi = FALSE, !.acpiWaited = -1]
<1>1. released \in Controller /\ released.client = "None" /\ ~released.vote
  BY DEF ReleasePower, Controller, Clients
<1>2. mem \in BOOLEAN
  BY DEF Controller
<1>3. -1 \in -1 .. InterpreterDeadline
  BY DeadlinesAssumption
<1>4. IntelShutdown(c) = d
  BY DEF IntelShutdown
<1> HIDE DEF released, mem
<1>5. /\ closed \in Controller /\ closed.phase = "None" /\ closed.client = "None"
      /\ ~closed.vote /\ ~closed.pending /\ ~closed.online
  BY <1>1, <1>2 DEF Controller, Phases
<1> HIDE DEF closed
<1>6. /\ d \in Controller /\ d.phase = "None" /\ d.client = "None"
      /\ ~d.vote /\ ~d.pending /\ ~d.online /\ ~d.acpi /\ ~d.memChanged
  BY <1>3, <1>5 DEF Controller
<1> QED BY <1>4, <1>6 DEF Sound

\* A look at a bind leaves an engine that runs alone, and starts a new one online.
BindKeeps(c, d) ==
    /\ c.phase = "Mapped" => d.phase = "Mapped" /\ d.online = c.online
    /\ d.phase = "Mapped" => d.online \/ c.phase = "Mapped"

LEMMA MapRegistersSound ==
  ASSUME NEW c \in Controller, NEW o \in MapRegisters(c)
  PROVE  /\ Sound("Intel", o.c)
         /\ o.c.phase = "Mapped" => o.c.online
         /\ o.ret = "Success" => o.c.phase = "Mapped"
<1> DEFINE enabled == [c EXCEPT !.memWas = c.mem, !.memChanged = TRUE, !.mem = TRUE]
           refused == [enabled EXCEPT !.mem = c.mem]
           d == [enabled EXCEPT !.phase = "Mapped", !.online = TRUE]
<1>1. enabled \in Controller
  BY DEF Controller
<1>2. refused \in Controller
  BY <1>1 DEF Controller
<1>3. d \in Controller /\ d.phase = "Mapped" /\ d.online
  BY <1>1 DEF Controller, Phases
<1>4. o \in {Outcome(IntelShutdown(refused), "NotReady"),
             Outcome(IntelShutdown(enabled), "NoResources"), Outcome(d, "Success")}
  BY DEF MapRegisters
<1> HIDE DEF enabled, refused, d
<1>5. CASE o = Outcome(d, "Success")
  BY <1>3, <1>5 DEF Sound, Outcome
<1>6. CASE o = Outcome(IntelShutdown(refused), "NotReady")
  BY <1>2, <1>6, ShutdownSound DEF Outcome
<1>7. CASE o = Outcome(IntelShutdown(enabled), "NoResources")
  BY <1>1, <1>7, ShutdownSound DEF Outcome
<1> QED BY <1>4, <1>5, <1>6, <1>7

LEMMA ContinueControllerSound ==
  ASSUME NEW c, Sound("Intel", c), NEW o \in ControllerContinueBind(c)
  PROVE  /\ Sound("Intel", o.c) /\ BindKeeps(c, o.c)
         /\ o.ret = "Success" => o.c.phase = "Mapped"
<1>1. CASE c.phase = "None" \/ c.phase = "Mapped"
  BY <1>1 DEF ControllerContinueBind, Outcome, Sound, BindKeeps
<1>2. CASE c.phase = "Open"
  <2>1. PICK a \in AcquirePower(c) :
          \/ a.ret = "Success" /\ o \in MapRegisters(a.c)
          \/ a.ret # "Success" /\ a.c.pending /\ o = a
          \/ o = Outcome(IntelShutdown(a.c), a.ret) /\ a.ret # "Success"
    BY <1>2 DEF ControllerContinueBind
  <2>2. /\ SameButPower(c, a.c) /\ a.c \in Controller
        /\ a.ret = "Success" => ~a.c.pending
    BY AcquireSame DEF SameButPower, Sound
  <2>3. CASE a.ret # "Success" /\ a.c.pending /\ o = a
    BY <1>2, <2>2, <2>3 DEF SameButPower, Sound, BindKeeps
  <2>4. CASE o = Outcome(IntelShutdown(a.c), a.ret) /\ a.ret # "Success"
    BY <1>2, <2>2, <2>4, ShutdownSound DEF Outcome, Sound, BindKeeps
  <2>5. CASE a.ret = "Success" /\ o \in MapRegisters(a.c)
    BY <1>2, <2>2, <2>5, MapRegistersSound DEF BindKeeps
  <2> QED BY <2>1, <2>3, <2>4, <2>5
<1> QED BY <1>1, <1>2 DEF Sound, Controller, Phases

LEMMA AwaitSound ==
  ASSUME NEW c, Sound("Intel", c), c.phase # "None", NEW interp, NEW o,
         o \in AwaitInterpreter(c, interp) \cup ChipSelects(c)
  PROVE  Sound("Intel", o.c) /\ o.c.phase = c.phase /\ o.c.online = c.online
<1>1. CASE o \in ChipSelects(c)
  <2>1. o.c \in {[c EXCEPT !.acpi = FALSE, !.selects = TRUE], [c EXCEPT !.acpi = FALSE]}
    BY <1>1 DEF ChipSelects, Outcome
  <2> QED BY <2>1 DEF Sound, Controller
<1>2. CASE o \in AwaitInterpreter(c, interp)
  <2> DEFINE since == IF c.acpiWaited = -1 THEN 0 ELSE c.acpiWaited
             awaiting == interp \in {"CallbackNotReached", "Ready"}
             waits == awaiting /\ since < InterpreterDeadline
  <2>1. o.c = [c EXCEPT !.acpi = waits, !.acpiWaited = since]
    BY <1>2 DEF AwaitInterpreter, Outcome
  <2>2. since \in -1 .. InterpreterDeadline
    BY DeadlinesAssumption DEF Sound, Controller
  <2>3. waits \in BOOLEAN
    OBVIOUS
  <2> HIDE DEF since, waits
  <2> QED BY ZenonT(60), <2>1, <2>2, <2>3 DEF Sound, Controller
<1> QED BY <1>1, <1>2

LEMMA ContinueSound ==
  ASSUME NEW c, Sound("Intel", c), NEW interp, NEW o \in IntelContinueBind(c, interp)
  PROVE  /\ Sound("Intel", o.c) /\ BindKeeps(c, o.c)
         /\ o.ret = "Success" => o.c.phase = "Mapped"
<1>1. PICK b \in ControllerContinueBind(c) :
        \/ b.ret # "Success" /\ o = b
        \/ b.ret = "Success" /\ o = Outcome(b.c, "Success")
        \/ b.ret = "Success" /\ o \in AwaitInterpreter(b.c, interp) \cup ChipSelects(b.c)
  BY DEF IntelContinueBind, Then
<1>2. /\ Sound("Intel", b.c) /\ BindKeeps(c, b.c)
      /\ b.ret = "Success" => b.c.phase = "Mapped"
  BY ContinueControllerSound
<1>3. CASE b.ret # "Success" /\ o = b
  BY <1>2, <1>3
<1>4. CASE b.ret = "Success" /\ o = Outcome(b.c, "Success")
  BY <1>2, <1>4 DEF Outcome
<1>5. CASE b.ret = "Success" /\ o \in AwaitInterpreter(b.c, interp) \cup ChipSelects(b.c)
  BY <1>2, <1>5, AwaitSound DEF BindKeeps
<1> QED BY <1>1, <1>3, <1>4, <1>5

LEMMA IntelCreateSound ==
  ASSUME NEW c, Sound("Intel", c), c.phase = "None", NEW interp,
         NEW o \in IntelCreate(c, interp)
  PROVE  /\ Sound("Intel", o.c)
         /\ o.c.phase = "Mapped" => o.c.online
         /\ o.ret = "Success" => o.c.phase = "Mapped"
<1> DEFINE x == [c EXCEPT !.phase = "Open"]
<1>1. Sound("Intel", x) /\ x.phase = "Open"
  BY DEF Sound, Controller, Phases
<1> HIDE DEF x
<1>2. PICK b \in Then(IntelBind(c), LAMBDA y: IntelContinueBind(y, interp)) :
        o = IF b.ret # "Success" /\ ~PowerPending(b.c)
            THEN Outcome(IntelShutdown(b.c), b.ret) ELSE b
  BY DEF IntelCreate
<1>3. \/ b.ret # "Success" /\ b.c = c
      \/ b \in IntelContinueBind(x, interp)
  BY <1>2 DEF Then, IntelBind, Outcome, x
<1>4. /\ Sound("Intel", b.c)
      /\ b.c.phase = "Mapped" => b.c.online
      /\ b.ret = "Success" => b.c.phase = "Mapped"
  <2>1. CASE b.ret # "Success" /\ b.c = c
    BY <2>1
  <2>2. CASE b \in IntelContinueBind(x, interp)
    BY <1>1, <2>2, ContinueSound DEF BindKeeps
  <2> QED BY <1>3, <2>1, <2>2
<1>5. CASE b.ret # "Success" /\ ~PowerPending(b.c)
  BY <1>2, <1>4, <1>5, ShutdownSound DEF Outcome, Sound
<1>6. CASE ~(b.ret # "Success" /\ ~PowerPending(b.c))
  BY <1>2, <1>4, <1>6
<1> QED BY <1>5, <1>6

LEMMA AMDShutdownSound ==
  ASSUME NEW c \in Controller, c.client = "None", ~c.vote, ~c.pending, ~c.acpi, ~c.memChanged
  PROVE  Sound("AMD", AMDShutdown(c)) /\ AMDShutdown(c).phase = "None"
BY DEF AMDShutdown, Sound, Controller, Phases

LEMMA AMDCreateSound ==
  ASSUME NEW c, Sound("AMD", c), c.phase = "None", NEW o \in AMDCreate(c)
  PROVE  /\ Sound("AMD", o.c)
         /\ o.c.phase = "Mapped" => o.c.online
         /\ o.ret = "Success" => o.c.phase = "Mapped"
<1> DEFINE opened == [c EXCEPT !.phase = "Open", !.granted = TRUE]
           d == [opened EXCEPT !.phase = "Mapped", !.online = TRUE]
<1>1. /\ opened \in Controller /\ opened.client = "None" /\ ~opened.vote /\ ~opened.pending
      /\ ~opened.acpi /\ ~opened.memChanged
  BY DEF Sound, Controller, Phases
<1>2. Sound("AMD", d) /\ d.phase = "Mapped" /\ d.online
  BY <1>1 DEF Sound, Controller, Phases
<1>3. \/ o.ret # "Success" /\ o.c \in {c, AMDShutdown(opened)}
      \/ o.c = d
  BY DEF AMDCreate, AMDBind, Outcome
<1> HIDE DEF opened, d
<1> QED BY <1>1, <1>2, <1>3, AMDShutdownSound

LEMMA CreatedSound ==
  ASSUME NEW h, h.kind \in Kinds, NEW c, Sound(h.kind, c), c.phase = "None", NEW interp,
         NEW o \in Created(h, c, interp)
  PROVE  /\ Sound(h.kind, o.c)
         /\ o.c.phase = "Mapped" => o.c.online
         /\ o.ret = "Success" => o.c.phase # "None" /\ (o.c.phase = "Mapped" \/ PowerPending(o.c))
<1>1. PICK b \in CreateController(h, c, interp) :
        o = IF PowerPending(b.c) THEN Outcome(b.c, "Success") ELSE b
  BY DEF Created
<1>2. /\ Sound(h.kind, b.c)
      /\ b.c.phase = "Mapped" => b.c.online
      /\ b.ret = "Success" => b.c.phase = "Mapped"
  <2>1. CASE h.kind = "AMD"
    <3>1. (b.c = c /\ b.ret # "Success") \/ b \in AMDCreate(c)
      BY <1>1, <2>1 DEF CreateController, Then, Resolve, Outcome
    <3> QED BY <2>1, <3>1, AMDCreateSound
  <2>2. CASE h.kind = "Intel"
    <3>1. (b.c = c /\ b.ret # "Success") \/ b \in IntelCreate(c, interp)
      BY <1>1, <2>2 DEF CreateController, Then, Resolve, FindPCI, Outcome
    <3> QED BY <2>2, <3>1, IntelCreateSound
  <2> QED BY <2>1, <2>2 DEF Kinds
<1>3. o.c = b.c
  BY <1>1 DEF Outcome
<1>4. PowerPending(o.c) => o.c.phase # "None"
  BY <1>2, <1>3 DEF PowerPending, Sound
<1> QED BY <1>1, <1>2, <1>3, <1>4

LEMMA SuspendSound ==
  ASSUME NEW kind \in Kinds, NEW c, Sound(kind, c)
  PROVE  LET d == IF kind = "Intel" THEN IntelSuspend(c) ELSE AMDSuspend(c)
         IN  /\ Sound(kind, d) /\ d.phase = c.phase
             /\ ~d.online /\ ~d.pending /\ ~d.vote
<1>1. CASE kind = "Intel"
  BY <1>1 DEF Sound, IntelSuspend, Controller
<1>2. CASE kind = "AMD"
  BY <1>2 DEF Sound, AMDSuspend, Controller
<1> QED BY <1>1, <1>2 DEF Kinds

LEMMA IntelResumeSound ==
  ASSUME NEW c, Sound("Intel", c), c.phase # "None", NEW o \in IntelResume(c)
  PROVE  /\ Sound("Intel", o.c) /\ o.c.phase = c.phase
         /\ o.ret = "Success" => o.c.online
<1>1. PICK p \in {Outcome([a.c EXCEPT !.online = FALSE], a.ret) : a \in AcquirePower(c)} :
        \/ p.ret # "Success" /\ o = p
        \/ o \in {Outcome(p.c, "Error"), Outcome([p.c EXCEPT !.mem = TRUE], "NotReady"),
                  Outcome(p.c, "NotReady")}
        \/ /\ p.c.phase = "Mapped"
           /\ o = Outcome([p.c EXCEPT !.mem = TRUE, !.online = TRUE], "Success")
  BY DEF IntelResume, Then
<1>0. PICK a \in AcquirePower(c) : p = Outcome([a.c EXCEPT !.online = FALSE], a.ret)
  OBVIOUS
<1> DEFINE x == [a.c EXCEPT !.online = FALSE]
<1>2. SameButPower(c, a.c) /\ a.c \in Controller
  BY AcquireSame DEF SameButPower, Sound
<1>3. Sound("Intel", x) /\ x.phase = c.phase
  BY <1>2 DEF Sound, SameButPower, Controller
<1> HIDE DEF x
<1>7. /\ p.c = x
      /\ \/ o.ret # "Success" /\ (o.c = x \/ o.c = [x EXCEPT !.mem = TRUE])
         \/ x.phase = "Mapped" /\ o.c = [x EXCEPT !.mem = TRUE, !.online = TRUE]
  <2>1. p.c = x
    BY <1>0 DEF Outcome, x
  <2>2. CASE p.ret # "Success" /\ o = p
    BY <2>1, <2>2
  <2>3. CASE o \in {Outcome(p.c, "Error"), Outcome([p.c EXCEPT !.mem = TRUE], "NotReady"),
                   Outcome(p.c, "NotReady")}
    <3>1. \/ o = Outcome(x, "Error") \/ o = Outcome(x, "NotReady")
          \/ o = Outcome([x EXCEPT !.mem = TRUE], "NotReady")
      BY <2>1, <2>3
    <3>2. o.ret # "Success" /\ (o.c = x \/ o.c = [x EXCEPT !.mem = TRUE])
      <4> DEFINE y == [x EXCEPT !.mem = TRUE]
      <4> HIDE DEF y
      <4>1. \/ o = Outcome(x, "Error") \/ o = Outcome(x, "NotReady")
            \/ o = Outcome(y, "NotReady")
        BY <3>1 DEF y
      <4>2. o.ret # "Success" /\ (o.c = x \/ o.c = y)
        BY <4>1 DEF Outcome
      <4> QED BY <4>2 DEF y
    <3> QED BY <2>1, <3>2
  <2>4. CASE /\ p.c.phase = "Mapped"
             /\ o = Outcome([p.c EXCEPT !.mem = TRUE, !.online = TRUE], "Success")
    BY <2>1, <2>4 DEF Outcome
  <2> QED BY <1>1, <2>2, <2>3, <2>4
<1>4. CASE o.c = x /\ o.ret # "Success"
  BY <1>3, <1>4
<1>5. CASE o.c = [x EXCEPT !.mem = TRUE] /\ o.ret # "Success"
  BY <1>3, <1>5 DEF Sound, Controller
<1>6. CASE x.phase = "Mapped" /\ o.c = [x EXCEPT !.mem = TRUE, !.online = TRUE]
  BY <1>3, <1>6 DEF Sound, Controller
<1> QED BY <1>4, <1>5, <1>6, <1>7

LEMMA AMDResumeSound ==
  ASSUME NEW c, Sound("AMD", c), c.phase # "None", NEW o \in AMDResume(c)
  PROVE  /\ Sound("AMD", o.c) /\ o.c.phase = c.phase
         /\ o.ret = "Success" => o.c.online
<1> DEFINE up == [c EXCEPT !.online = TRUE, !.granted = TRUE]
           down == [c EXCEPT !.online = FALSE, !.granted = FALSE]
<1>1. \/ o.c = up
      \/ o.ret # "Success" /\ o.c \in {c, down}
  BY DEF AMDResume, Outcome
<1>2. Sound("AMD", up) /\ up.phase = c.phase /\ up.online
  BY DEF Sound, Controller, Phases
<1>3. Sound("AMD", down) /\ down.phase = c.phase
  BY DEF Sound, Controller
<1> HIDE DEF up, down
<1> QED BY <1>1, <1>2, <1>3

-----------------------------------------------------------------------------
(* The host *)

\* What a run over the slots leaves behind.
Ran(h, first, answers, r) ==
  /\ r.at \in Slots /\ first <= r.at
  /\ r.h.kind = h.kind /\ r.h.resumeSlot = h.resumeSlot
  /\ r.h.authorized = h.authorized /\ r.h.resetLine = h.resetLine
  /\ r.h = [h EXCEPT !.slot = r.h.slot]
  /\ r.h.slot = [s \in Slots |-> r.h.slot[s]]
  /\ \A s \in Slots :
       \/ s < first /\ r.h.slot[s] = h.slot[s]
       \/ s > r.at /\ r.h.slot[s] = h.slot[s]
       \/ /\ first <= s /\ s < r.at
          /\ \E o \in answers[s] : o.ret = "Success" /\ o.c = r.h.slot[s]
       \/ s = r.at /\ \E o \in answers[s] : o.ret = r.ret /\ o.c = r.h.slot[s]
  /\ r.ret = "Success" => r.at = Controllers

LEMMA InOrderRan ==
  ASSUME NEW h \in Host, NEW first \in Slots, NEW answers, NEW r \in InOrder(h, first, answers)
  PROVE  Ran(h, first, answers, r)
<1>1. PICK at \in first .. Controllers :
        \E done \in [first .. at - 1 ->
                        UNION {{x.c : x \in {y \in answers[s] : y.ret = "Success"}}
                               : s \in first .. at - 1}] :
        \E o \in answers[at] :
          /\ \A s \in first .. at - 1 : done[s] \in {x.c : x \in {y \in answers[s] : y.ret = "Success"}}
          /\ o.ret = "Success" => at = Controllers
          /\ r = [h |-> [h EXCEPT !.slot = [s \in Slots |->
                            IF s \in DOMAIN done THEN done[s]
                            ELSE IF s = at THEN o.c ELSE h.slot[s]]],
                  ret |-> o.ret, at |-> at]
  BY DEF InOrder
<1>2. PICK done \in [first .. at - 1 ->
                        UNION {{x.c : x \in {y \in answers[s] : y.ret = "Success"}}
                               : s \in first .. at - 1}],
           o \in answers[at] :
          /\ \A s \in first .. at - 1 : done[s] \in {x.c : x \in {y \in answers[s] : y.ret = "Success"}}
          /\ o.ret = "Success" => at = Controllers
          /\ r = [h |-> [h EXCEPT !.slot = [s \in Slots |->
                            IF s \in DOMAIN done THEN done[s]
                            ELSE IF s = at THEN o.c ELSE h.slot[s]]],
                  ret |-> o.ret, at |-> at]
  BY <1>1
<1> DEFINE slot == [s \in Slots |-> IF s \in DOMAIN done THEN done[s]
                                    ELSE IF s = at THEN o.c ELSE h.slot[s]]
<1>3. DOMAIN done = first .. at - 1
  OBVIOUS
<1>4. Controllers \in Nat /\ at \in Slots /\ first \in Nat /\ at \in Nat /\ Slots \subseteq Nat
  BY ControllersAssumption DEF Slots
<1>5. \A s \in Slots : s \in DOMAIN done <=> first <= s /\ s < at
  BY <1>3, <1>4
<1>6. /\ \A s \in Slots : s < first \/ s > at => slot[s] = h.slot[s]
      /\ \A s \in Slots : first <= s /\ s < at => slot[s] = done[s]
      /\ slot[at] = o.c
  BY <1>4, <1>5
<1>7. \A s \in Slots : first <= s /\ s < at =>
        \E x \in answers[s] : x.ret = "Success" /\ x.c = slot[s]
  BY <1>2, <1>3, <1>5, <1>6
<1>8. slot = [s \in Slots |-> slot[s]]
  OBVIOUS
<1>9. r = [h |-> [h EXCEPT !.slot = slot], ret |-> o.ret, at |-> at]
  BY <1>2
<1> HIDE DEF slot
<1>10. /\ r.at = at /\ r.ret = o.ret /\ r.h = [h EXCEPT !.slot = slot]
  BY <1>9
<1>11. /\ r.h.slot = slot /\ r.h.kind = h.kind /\ r.h.resumeSlot = h.resumeSlot
       /\ r.h.authorized = h.authorized /\ r.h.resetLine = h.resetLine
  BY <1>10 DEF Host
<1>12. o.ret = "Success" => at = Controllers
  BY <1>2
<1>13. ASSUME NEW s \in Slots
       PROVE  \/ s < first /\ slot[s] = h.slot[s]
              \/ s > at /\ slot[s] = h.slot[s]
              \/ /\ first <= s /\ s < at
                 /\ \E x \in answers[s] : x.ret = "Success" /\ x.c = slot[s]
              \/ s = at /\ \E x \in answers[s] : x.ret = o.ret /\ x.c = slot[s]
  <2>1. s < first \/ s > at \/ (first <= s /\ s < at) \/ s = at
    BY <1>4
  <2> QED BY <1>6, <1>7, <2>1
<1>14. first <= at
  BY <1>4
<1> QED BY <1>4, <1>8, <1>10, <1>11, <1>12, <1>13, <1>14 DEF Ran

LEMMA HostSlots ==
  ASSUME NEW h \in Host, NEW slot, slot = [s \in Slots |-> slot[s]],
         \A s \in Slots : Sound(h.kind, slot[s])
  PROVE  [h EXCEPT !.slot = slot] \in Host
<1>1. slot \in [Slots -> Controller]
  BY DEF Sound
<1> QED BY <1>1 DEF Host

LEMMA InOrderSound ==
  ASSUME NEW h, HostSound(h), NEW first \in Slots, NEW answers,
         \A s \in Slots : \A o \in answers[s] : Sound(h.kind, o.c),
         NEW r \in InOrder(h, first, answers)
  PROVE  r.h \in Host /\ \A s \in Slots : Sound(h.kind, r.h.slot[s])
<1>1. h \in Host /\ Ran(h, first, answers, r)
  BY InOrderRan DEF HostSound
<1>2. ASSUME NEW s \in Slots
      PROVE  Sound(h.kind, r.h.slot[s])
  <2>1. r.h.slot[s] = h.slot[s] \/ \E o \in answers[s] : o.c = r.h.slot[s]
    BY <1>1 DEF Ran
  <2> QED BY <2>1 DEF HostSound
<1>3. r.h = [h EXCEPT !.slot = r.h.slot] /\ r.h.slot = [s \in Slots |-> r.h.slot[s]]
  BY <1>1 DEF Ran
<1> QED BY <1>1, <1>2, <1>3, HostSlots

\* What every call of the host leaves alone.
SameHost(h, g) == g.kind = h.kind /\ g.resetLine = h.resetLine

LEMMA HostShutdownSound ==
  ASSUME NEW h \in Host, \A s \in Slots : Sound(h.kind, h.slot[s])
  PROVE  /\ HostSound(HostShutdown(h)) /\ SameHost(h, HostShutdown(h))
         /\ ~Bound(HostShutdown(h))
<1> DEFINE slot == [s \in Slots |-> Shutdown(h, h.slot[s])]
           g == [h EXCEPT !.slot = slot, !.resumeSlot = 1, !.authorized = FALSE]
<1>1. \A s \in Slots : Sound(h.kind, slot[s]) /\ slot[s].phase = "None"
  BY ShutdownSound, AMDShutdownSound DEF Shutdown, Sound, Host, Kinds
<1>2. slot \in [Slots -> Controller]
  BY <1>1 DEF Sound
<1>3. 1 \in Slots
  BY ControllersAssumption DEF Slots
<1>4. HostShutdown(h) = g
  BY DEF HostShutdown
<1> HIDE DEF slot
<1>5. g \in Host /\ g.kind = h.kind /\ g.resetLine = h.resetLine /\ g.slot = slot /\ g.resumeSlot = 1
  BY <1>2, <1>3 DEF Host
<1>6. \A s \in Slots : ~(s < 1)
  BY ControllersAssumption DEF Slots
<1> HIDE DEF g
<1> QED BY <1>1, <1>4, <1>5, <1>6 DEF HostSound, AllOrNone, SameHost, Bound

LEMMA HostSuspendSound ==
  ASSUME NEW h \in Host, \A s \in Slots : Sound(h.kind, h.slot[s]), AllOrNone(h)
  PROVE  LET g == HostSuspend(h)
         IN  /\ HostSound(g) /\ SameHost(h, g)
             /\ \A s \in Slots : /\ g.slot[s].phase = h.slot[s].phase
                                 /\ ~g.slot[s].online /\ ~g.slot[s].pending /\ ~g.slot[s].vote
<1> DEFINE slot == [s \in Slots |-> IF h.kind = "Intel" THEN IntelSuspend(h.slot[s])
                                    ELSE AMDSuspend(h.slot[s])]
           g == [h EXCEPT !.resumeSlot = 1, !.slot = slot]
<1>1. \A s \in Slots : /\ Sound(h.kind, slot[s]) /\ slot[s].phase = h.slot[s].phase
                       /\ ~slot[s].online /\ ~slot[s].pending /\ ~slot[s].vote
  BY SuspendSound DEF Host
<1>2. slot \in [Slots -> Controller]
  BY <1>1 DEF Sound
<1>3. 1 \in Slots
  BY ControllersAssumption DEF Slots
<1>4. HostSuspend(h) = g
  BY DEF HostSuspend
<1> HIDE DEF slot
<1>5. g \in Host /\ g.kind = h.kind /\ g.resetLine = h.resetLine /\ g.slot = slot /\ g.resumeSlot = 1
  BY <1>2, <1>3 DEF Host
<1>6. \A s \in Slots : ~(s < 1)
  BY ControllersAssumption DEF Slots
<1> HIDE DEF g
<1> QED BY <1>1, <1>4, <1>5, <1>6 DEF HostSound, AllOrNone, SameHost

\* A run that starts at the first slot and succeeds has succeeded everywhere.
LEMMA AllSucceed ==
  ASSUME NEW h, NEW answers, NEW r, Ran(h, 1, answers, r), r.ret = "Success"
  PROVE  \A s \in Slots : \E o \in answers[s] : o.ret = "Success" /\ o.c = r.h.slot[s]
<1>1. r.at = Controllers
  BY DEF Ran
<1>2. \A s \in Slots : ~(s < 1) /\ ~(s > Controllers)
  BY ControllersAssumption DEF Slots
<1> QED BY <1>1, <1>2 DEF Ran

LEMMA UnboundSlots ==
  ASSUME NEW h, HostSound(h), ~Bound(h)
  PROVE  /\ \A s \in Slots : h.slot[s].phase = "None" /\ ~h.slot[s].online
         /\ \A s \in Slots : ~(s < h.resumeSlot)
         /\ ~HostPending(h) /\ MappedOnline(h)
BY DEF HostSound, Bound, Sound, HostPending, PowerPending, MappedOnline

LEMMA BoundSlots ==
  ASSUME NEW h, HostSound(h), Bound(h)
  PROVE  \A s \in Slots : h.slot[s].phase # "None"
BY DEF HostSound, Bound, AllOrNone

LEMMA HostBindSound ==
  ASSUME NEW h, HostSound(h), NEW interp, NEW o \in HostBind(h, interp)
  PROVE  /\ HostSound(o.h) /\ SameHost(h, o.h)
         /\ Bound(h) => o.h = h /\ o.ret # "Success"
         /\ ~Bound(h) => /\ MappedOnline(o.h)
                         /\ o.ret # "Success" => ~Bound(o.h)
                         /\ o.ret = "Success" => Bound(o.h)
                         /\ o.ret = "Success" /\ ~HostPending(o.h) => AllOnline(o.h)
<1> DEFINE answers == [s \in Slots |-> Created(h, h.slot[s], interp)]
<1>0. \E s \in Slots : TRUE
  BY ControllersAssumption DEF Slots
<1>1. CASE Bound(h)
  BY <1>1 DEF HostBind, HostOutcome, SameHost
<1>2. CASE ~Bound(h)
  <2>1. h \in Host /\ h.kind \in Kinds /\ \A s \in Slots : Sound(h.kind, h.slot[s])
    BY DEF HostSound, Host
  <2>2. /\ \A s \in Slots : h.slot[s].phase = "None"
        /\ \A s \in Slots : ~(s < h.resumeSlot)
        /\ MappedOnline(h) /\ ~HostPending(h)
    BY <1>2, UnboundSlots
  <2>3. ASSUME NEW s \in Slots, NEW x \in answers[s]
        PROVE  /\ Sound(h.kind, x.c)
               /\ x.c.phase = "Mapped" => x.c.online
               /\ x.ret = "Success" => x.c.phase # "None" /\ (x.c.phase = "Mapped" \/ PowerPending(x.c))
    BY <2>1, <2>2, CreatedSound
  <2>4. CASE o = HostOutcome(h, "Unsupported")
    BY <1>2, <2>2, <2>4 DEF HostOutcome, SameHost
  <2>5. ASSUME NEW r \in InOrder(h, 1, answers),
               o = HostOutcome(IF r.ret = "Success" THEN r.h ELSE HostShutdown(r.h), r.ret)
        PROVE  /\ HostSound(o.h) /\ SameHost(h, o.h) /\ MappedOnline(o.h)
               /\ o.ret # "Success" => ~Bound(o.h)
               /\ o.ret = "Success" => Bound(o.h)
               /\ o.ret = "Success" /\ ~HostPending(o.h) => AllOnline(o.h)
    <3>1. 1 \in Slots
      BY ControllersAssumption DEF Slots
    <3> HIDE DEF answers
    <3>2. Ran(h, 1, answers, r)
      BY <2>1, <3>1, InOrderRan
    <3>3. r.h \in Host /\ \A s \in Slots : Sound(h.kind, r.h.slot[s])
      BY <2>3, <3>1, InOrderSound
    <3>4. r.h.kind = h.kind /\ r.h.resetLine = h.resetLine /\ r.h.resumeSlot = h.resumeSlot
      BY <3>2 DEF Ran
    <3>5. CASE r.ret = "Success"
      <4>1. \A s \in Slots : \E x \in answers[s] : x.ret = "Success" /\ x.c = r.h.slot[s]
        BY <3>2, <3>5, AllSucceed
      <4>2. \A s \in Slots : /\ r.h.slot[s].phase # "None"
                             /\ r.h.slot[s].phase = "Mapped" => r.h.slot[s].online
                             /\ r.h.slot[s].phase = "Mapped" \/ PowerPending(r.h.slot[s])
        BY <2>3, <4>1
      <4>3. o.h = r.h /\ o.ret = "Success"
        BY <2>5, <3>5 DEF HostOutcome
      <4>4. HostSound(r.h)
        BY <2>2, <3>3, <3>4, <4>2 DEF HostSound, AllOrNone
      <4> QED BY <1>0, <3>4, <4>2, <4>3, <4>4
            DEF SameHost, MappedOnline, Bound, HostPending, AllOnline
    <3>6. CASE r.ret # "Success"
      <4>1. o.h = HostShutdown(r.h) /\ o.ret # "Success"
        BY <2>5, <3>6 DEF HostOutcome
      <4>2. HostSound(o.h) /\ SameHost(r.h, o.h) /\ ~Bound(o.h)
        BY <3>3, <3>4, <4>1, HostShutdownSound
      <4> QED BY <3>4, <4>1, <4>2, UnboundSlots DEF SameHost
    <3> QED BY <3>5, <3>6
  <2>6. o = HostOutcome(h, "Unsupported")
        \/ \E r \in InOrder(h, 1, answers) :
              o = HostOutcome(IF r.ret = "Success" THEN r.h ELSE HostShutdown(r.h), r.ret)
    BY <1>2 DEF HostBind
  <2>7. HostSound(o.h) /\ SameHost(h, o.h) /\ MappedOnline(o.h)
        /\ (o.ret # "Success" => ~Bound(o.h))
        /\ (o.ret = "Success" => Bound(o.h))
        /\ (o.ret = "Success" /\ ~HostPending(o.h) => AllOnline(o.h))
    <3> HIDE DEF answers
    <3>1. CASE o = HostOutcome(h, "Unsupported")
      BY <1>2, <2>2, <3>1 DEF HostOutcome, SameHost
    <3>2. CASE \E r \in InOrder(h, 1, answers) :
              o = HostOutcome(IF r.ret = "Success" THEN r.h ELSE HostShutdown(r.h), r.ret)
      BY <2>5, <3>2
    <3> QED BY <2>6, <3>1, <3>2
  <2> QED BY <1>2, <2>7
<1> QED BY <1>1, <1>2

LEMMA ContinuedSound ==
  ASSUME NEW h, h.kind \in Kinds, NEW c, Sound(h.kind, c), c.phase # "None", NEW interp,
         NEW o \in Continue(h, c, interp)
  PROVE  /\ Sound(h.kind, o.c) /\ BindKeeps(c, o.c)
         /\ o.ret = "Success" => o.c.phase = "Mapped"
<1>1. CASE h.kind = "AMD"
  BY <1>1 DEF Continue, Outcome, BindKeeps, Sound, Controller, Phases
<1>2. CASE h.kind = "Intel"
  BY <1>2, ContinueSound DEF Continue
<1> QED BY <1>1, <1>2 DEF Kinds

LEMMA PendingIsBound ==
  ASSUME NEW h, HostSound(h), HostPending(h)
  PROVE  Bound(h)
BY DEF HostSound, Sound, HostPending, PowerPending, Bound

AllMapped(h) == \A s \in Slots : h.slot[s].phase = "Mapped"

LEMMA HostContinueBindSound ==
  ASSUME NEW h, HostSound(h), NEW interp, NEW o \in HostContinueBind(h, interp)
  PROVE  /\ HostSound(o.h) /\ SameHost(h, o.h)
         /\ MappedOnline(h) => MappedOnline(o.h)
         /\ o.ret = "Success" /\ Bound(h) => \A s \in Slots : o.h.slot[s].phase = "Mapped"
         /\ ~Bound(h) => ~Bound(o.h) /\ o.ret = "Success"
         /\ o.ret # "Success" /\ ~HostPending(o.h) => ~Bound(o.h)
         /\ AllMapped(h) /\ Bound(o.h) => AllMapped(o.h)
<1> DEFINE answers == [s \in Slots |-> Continue(h, h.slot[s], interp)]
<1>0. 1 \in Slots
  BY ControllersAssumption DEF Slots
<1>1. h \in Host /\ h.kind \in Kinds /\ \A s \in Slots : Sound(h.kind, h.slot[s])
  BY DEF HostSound, Host
<1>2. PICK r \in InOrder(h, 1, answers) :
        o = HostOutcome(IF r.ret = "Success" \/ PowerPending(r.h.slot[r.at])
                        THEN r.h ELSE HostShutdown(r.h), r.ret)
  BY DEF HostContinueBind
<1>3. ASSUME NEW s \in Slots, h.slot[s].phase = "None", NEW x \in answers[s]
      PROVE  x.c = h.slot[s] /\ x.ret = "Success"
  BY <1>3 DEF Continue, Outcome
<1>4. ASSUME NEW s \in Slots, h.slot[s].phase # "None", NEW x \in answers[s]
      PROVE  /\ Sound(h.kind, x.c) /\ BindKeeps(h.slot[s], x.c)
             /\ x.ret = "Success" => x.c.phase = "Mapped"
  BY <1>1, <1>4, ContinuedSound
<1> HIDE DEF answers
<1>5. Ran(h, 1, answers, r)
  BY <1>0, <1>1, <1>2, InOrderRan
<1>6. r.h \in Host /\ \A s \in Slots : Sound(h.kind, r.h.slot[s])
  <2>1. \A s \in Slots : \A x \in answers[s] : Sound(h.kind, x.c)
    BY <1>1, <1>3, <1>4
  <2> QED BY <1>0, <1>2, <2>1, InOrderSound
<1>7. r.h.kind = h.kind /\ r.h.resetLine = h.resetLine /\ r.h.resumeSlot = h.resumeSlot
      /\ r.at \in Slots
  BY <1>5 DEF Ran
<1>8. CASE ~Bound(h)
  <2>1. \A s \in Slots : h.slot[s].phase = "None"
    BY <1>8 DEF Bound
  <2>2. \E x \in answers[r.at] : x.ret = r.ret
    BY <1>5, <1>7, ControllersAssumption DEF Ran, Slots
  <2>3. r.ret = "Success"
    BY <1>3, <1>7, <2>1, <2>2
  <2>4. \A s \in Slots : r.h.slot[s] = h.slot[s]
    BY <1>3, <1>5, <2>1, <2>3, AllSucceed
  <2>5. o.h = r.h /\ o.ret = "Success"
    BY <1>2, <2>3 DEF HostOutcome
  <2>6. HostSound(r.h)
    BY <1>6, <1>7, <2>1, <2>4 DEF HostSound, AllOrNone
  <2> QED BY <1>7, <1>8, <2>1, <2>4, <2>5, <2>6 DEF SameHost, MappedOnline, Bound, AllMapped
<1>9. CASE Bound(h)
  <2>1. \A s \in Slots : h.slot[s].phase # "None"
    BY <1>9, BoundSlots
  <2>2. CASE r.ret = "Success"
    <3>1. \A s \in Slots : /\ BindKeeps(h.slot[s], r.h.slot[s])
                           /\ r.h.slot[s].phase = "Mapped"
      BY <1>4, <1>5, <2>1, <2>2, AllSucceed
    <3>2. o.h = r.h /\ o.ret = "Success"
      BY <1>2, <2>2 DEF HostOutcome
    <3>3. HostSound(r.h)
      <4>1. \A s \in Slots : s < r.h.resumeSlot => r.h.slot[s].online
        BY <1>1, <1>7, <3>1 DEF HostSound, BindKeeps, Sound
      <4> QED BY <1>6, <1>7, <3>1, <4>1 DEF HostSound, AllOrNone
    <3> QED BY <1>7, <1>9, <3>1, <3>2, <3>3 DEF SameHost, MappedOnline, BindKeeps, AllMapped
  <2>3. CASE r.ret # "Success" /\ PowerPending(r.h.slot[r.at])
    <3>1. \A s \in Slots : r.h.slot[s] = h.slot[s] \/ BindKeeps(h.slot[s], r.h.slot[s])
      BY <1>4, <1>5, <2>1 DEF Ran
    <3>2. ASSUME NEW s \in Slots
          PROVE  r.h.slot[s].phase # "None"
      <4>1. CASE s = r.at
        BY <1>6, <2>3, <4>1 DEF PowerPending, Sound
      <4>2. CASE s # r.at
        <5>1. r.h.slot[s] = h.slot[s] \/ \E x \in answers[s] : x.ret = "Success" /\ x.c = r.h.slot[s]
          BY <1>5, <4>2 DEF Ran
        <5> QED BY <1>4, <2>1, <5>1
      <4> QED BY <4>1, <4>2
    <3>3. o.h = r.h /\ o.ret # "Success"
      BY <1>2, <2>3 DEF HostOutcome
    <3>4. HostSound(r.h)
      <4>1. \A s \in Slots : s < r.h.resumeSlot => r.h.slot[s].online
        BY <1>1, <1>7, <3>1 DEF HostSound, BindKeeps, Sound
      <4> QED BY <1>6, <1>7, <3>2, <4>1 DEF HostSound, AllOrNone
    <3>5. HostPending(r.h)
      BY <1>7, <2>3 DEF HostPending
    <3> QED BY <1>7, <1>9, <3>1, <3>3, <3>4, <3>5
            DEF SameHost, MappedOnline, BindKeeps, AllMapped
  <2>4. CASE r.ret # "Success" /\ ~PowerPending(r.h.slot[r.at])
    <3>1. o.h = HostShutdown(r.h) /\ o.ret # "Success"
      BY <1>2, <2>4 DEF HostOutcome
    <3>2. HostSound(o.h) /\ SameHost(r.h, o.h) /\ ~Bound(o.h)
      BY <1>6, <1>7, <3>1, HostShutdownSound
    <3> QED BY <1>7, <1>9, <3>1, <3>2, UnboundSlots DEF SameHost
  <2> QED BY <2>2, <2>3, <2>4
<1> QED BY <1>8, <1>9

\* Nothing is acquired, asked for or open.
Off(h) == \A s \in Slots : ~h.slot[s].vote /\ ~h.slot[s].pending /\ ~h.slot[s].online

LEMMA WokenSound ==
  ASSUME NEW h, h.kind \in Kinds, NEW s \in Slots, Sound(h.kind, h.slot[s]),
         h.slot[s].phase # "None", NEW o \in Woken(h)[s]
  PROVE  /\ Sound(h.kind, o.c) /\ o.c.phase = h.slot[s].phase
         /\ o.ret = "Success" => o.c.online
BY IntelResumeSound, AMDResumeSound DEF Woken, Kinds

LEMMA HostResumeSound ==
  ASSUME NEW h, HostSound(h), NEW o \in HostResume(h)
  PROVE  /\ HostSound(o.h) /\ SameHost(h, o.h)
         /\ Bound(o.h) <=> Bound(h)
         /\ ~Bound(h) => o.h = h /\ o.ret = "Success"
         /\ Bound(h) /\ o.ret = "Success" => AllOnline(o.h)
         /\ o.ret # "Success" /\ ~HostPending(o.h) => Off(o.h)
<1>1. CASE ~Bound(h)
  BY <1>1 DEF HostResume, HostOutcome, SameHost
<1>2. CASE Bound(h)
  <2> DEFINE answers == Woken(h)
             first == h.resumeSlot
  <2>1. /\ h \in Host /\ h.kind \in Kinds /\ first \in Slots
        /\ \A s \in Slots : Sound(h.kind, h.slot[s])
        /\ \A s \in Slots : s < first => h.slot[s].online
    BY DEF HostSound, Host
  <2>2. \A s \in Slots : h.slot[s].phase # "None"
    BY <1>2, BoundSlots
  <2>3. ASSUME NEW s \in Slots, NEW x \in answers[s]
        PROVE  /\ Sound(h.kind, x.c) /\ x.c.phase = h.slot[s].phase
               /\ x.ret = "Success" => x.c.online
    BY <2>1, <2>2, WokenSound
  <2>4. PICK r \in InOrder(h, first, answers) :
          /\ o.ret = r.ret
          /\ \/ r.ret = "Success" /\ o.h = [r.h EXCEPT !.resumeSlot = 1]
             \/ /\ r.ret # "Success" /\ PowerPending(r.h.slot[r.at])
                /\ o.h = [r.h EXCEPT !.resumeSlot = r.at]
             \/ r.ret # "Success" /\ o.h = HostSuspend(r.h)
    <3>1. PICK r \in InOrder(h, first, answers) :
            o = HostOutcome(CASE r.ret = "Success" -> [r.h EXCEPT !.resumeSlot = 1]
                              [] r.ret # "Success" /\ PowerPending(r.h.slot[r.at]) ->
                                    [r.h EXCEPT !.resumeSlot = r.at]
                              [] OTHER -> HostSuspend(r.h), r.ret)
      BY <1>2, Zenon DEF HostResume
    <3> HIDE DEF answers, first
    <3>2. CASE r.ret = "Success"
      BY <3>1, <3>2 DEF HostOutcome
    <3>3. CASE r.ret # "Success" /\ PowerPending(r.h.slot[r.at])
      BY <3>1, <3>3 DEF HostOutcome
    <3>4. CASE r.ret # "Success" /\ ~PowerPending(r.h.slot[r.at])
      BY <3>1, <3>4 DEF HostOutcome
    <3> QED BY <3>2, <3>3, <3>4
  <2> HIDE DEF answers, first
  <2>5. Ran(h, first, answers, r)
    BY <2>1, <2>4, InOrderRan
  <2>6. r.h \in Host /\ \A s \in Slots : Sound(h.kind, r.h.slot[s])
    BY <2>1, <2>3, <2>4, InOrderSound
  <2>7. r.h.kind = h.kind /\ r.h.resetLine = h.resetLine /\ r.at \in Slots
    BY <2>5 DEF Ran
  <2>8. /\ \A s \in Slots : r.h.slot[s].phase = h.slot[s].phase
        /\ \A s \in Slots : s < r.at => r.h.slot[s].online
        /\ r.ret = "Success" => \A s \in Slots : r.h.slot[s].online
    <3>1. ASSUME NEW s \in Slots
          PROVE  /\ r.h.slot[s].phase = h.slot[s].phase
                 /\ s < r.at \/ (s = r.at /\ r.ret = "Success") => r.h.slot[s].online
      <4>1. CASE s < first /\ r.h.slot[s] = h.slot[s]
        BY <2>1, <4>1
      <4>2. CASE s > r.at /\ r.h.slot[s] = h.slot[s]
        <5>1. s \in Nat /\ r.at \in Nat
          BY <2>7, ControllersAssumption DEF Slots
        <5> QED BY <4>2, <5>1
      <4>3. CASE \E x \in answers[s] : x.ret = "Success" /\ x.c = r.h.slot[s]
        BY <2>3, <4>3
      <4>4. CASE s = r.at /\ \E x \in answers[s] : x.ret = r.ret /\ x.c = r.h.slot[s]
        <5>1. ~(s < r.at)
          BY <2>7, <4>4, ControllersAssumption DEF Slots
        <5> QED BY <2>3, <4>4, <5>1
      <4> QED BY <2>5, <4>1, <4>2, <4>3, <4>4 DEF Ran
    <3>2. r.ret = "Success" => \A s \in Slots : s < r.at \/ s = r.at
      BY <2>5, ControllersAssumption DEF Ran, Slots
    <3> QED BY <3>1, <3>2
  <2>9. AllOrNone(r.h) /\ Bound(r.h)
    BY <1>2, <2>2, <2>8 DEF AllOrNone, Bound
  <2>10. ASSUME NEW k \in Slots, \A s \in Slots : s < k => r.h.slot[s].online,
                o.h = [r.h EXCEPT !.resumeSlot = k]
         PROVE  HostSound(o.h) /\ SameHost(h, o.h) /\ Bound(o.h) /\ o.h.slot = r.h.slot
    <3>1. /\ o.h \in Host /\ o.h.kind = h.kind /\ o.h.resetLine = h.resetLine
          /\ o.h.slot = r.h.slot /\ o.h.resumeSlot = k
      BY <2>6, <2>7, <2>10 DEF Host
    <3> QED BY <2>6, <2>9, <2>10, <3>1 DEF HostSound, SameHost, AllOrNone, Bound
  <2>11. CASE r.ret = "Success" /\ o.h = [r.h EXCEPT !.resumeSlot = 1]
    <3>1. 1 \in Slots /\ \A s \in Slots : ~(s < 1)
      BY ControllersAssumption DEF Slots
    <3>2. HostSound(o.h) /\ SameHost(h, o.h) /\ Bound(o.h) /\ o.h.slot = r.h.slot
      BY <2>10, <2>11, <3>1
    <3> QED BY <1>2, <2>4, <2>8, <2>11, <3>2 DEF AllOnline
  <2>12. CASE /\ r.ret # "Success" /\ PowerPending(r.h.slot[r.at])
              /\ o.h = [r.h EXCEPT !.resumeSlot = r.at]
    <3>1. HostSound(o.h) /\ SameHost(h, o.h) /\ Bound(o.h) /\ o.h.slot = r.h.slot
      BY <2>7, <2>8, <2>10, <2>12
    <3> QED BY <1>2, <2>4, <2>7, <2>12, <3>1 DEF HostPending
  <2>13. CASE r.ret # "Success" /\ o.h = HostSuspend(r.h)
    <3>1. /\ HostSound(o.h) /\ SameHost(r.h, o.h) /\ Off(o.h)
          /\ \A s \in Slots : o.h.slot[s].phase = r.h.slot[s].phase
      BY <2>6, <2>7, <2>9, <2>13, HostSuspendSound DEF Off
    <3> QED BY <1>2, <2>4, <2>7, <2>9, <2>13, <3>1 DEF SameHost, Bound
  <2> QED BY <2>4, <2>11, <2>12, <2>13
<1> QED BY <1>1, <1>2

-----------------------------------------------------------------------------
(* The unit *)

UnitSound(u) == u \in Unit /\ HostSound(u.host) /\ OnItsBus(u.host)

\* The bus a start or a bring-up goes on with.
Ready(u) == bus = "I2C" \/ Bound(u.host)

LEMMA MappedIsLive ==
  ASSUME NEW u, bus = "I2C" \/ AllMapped(u.host), MappedOnline(u.host)
  PROVE  Live(u)
BY DEF Live, AllMapped, MappedOnline, AllOnline

\* The same bus: what a host operation keeps.
LEMMA OnItsBusKept ==
  ASSUME NEW h, OnItsBus(h), NEW g, SameHost(h, g), Bound(g) => Bound(h)
  PROVE  OnItsBus(g)
BY DEF OnItsBus, SameHost

\* What an operation on the bus leaves of the unit.
SameService(u, v) == /\ v.known = u.known /\ v.detected = u.detected
                     /\ v.touched = u.touched

LEMMA HostUpdate ==
  ASSUME NEW u, UnitSound(u), NEW h, HostSound(h), OnItsBus(h)
  PROVE  LET v == [u EXCEPT !.host = h]
         IN  /\ UnitSound(v) /\ v.host = h /\ SameService(u, v)
             /\ v.manager = u.manager /\ v.authorized = u.authorized
BY DEF UnitSound, Unit, HostSound, SameService

LEMMA AuthorizedUpdate ==
  ASSUME NEW u, UnitSound(u), NEW a \in BOOLEAN
  PROVE  LET v == [u EXCEPT !.authorized = a]
         IN  /\ UnitSound(v) /\ v.host = u.host /\ SameService(u, v)
             /\ v.manager = u.manager /\ v.authorized = a
BY DEF UnitSound, Unit, SameService

LEMMA ManagerUpdate ==
  ASSUME NEW u, UnitSound(u), NEW m \in Managers
  PROVE  LET v == [u EXCEPT !.manager = m]
         IN  /\ UnitSound(v) /\ v.host = u.host /\ SameService(u, v)
             /\ v.manager = m /\ v.authorized = u.authorized
BY DEF UnitSound, Unit, SameService

LEMMA TeardownSound ==
  ASSUME NEW u, UnitSound(u)
  PROVE  LET v == TeardownCommunication(u)
         IN  /\ UnitSound(v) /\ SameService(u, v) /\ v.authorized = u.authorized
             /\ v.manager = "Unbound" /\ ~Bound(v.host)
             /\ v.host.resetLine = u.host.resetLine
<1> DEFINE w == ReleaseAmplifierDrivers(u)
           h == HostShutdown(u.host)
<1>1. UnitSound(w) /\ SameService(u, w) /\ w.manager = "Unbound" /\ w.authorized = u.authorized
  BY ManagerUpdate DEF ReleaseAmplifierDrivers, Managers
<1>2. HostSound(h) /\ SameHost(u.host, h) /\ ~Bound(h)
  BY HostShutdownSound DEF UnitSound, HostSound
<1>3. OnItsBus(h)
  BY <1>2, OnItsBusKept DEF UnitSound
<1>4. TeardownCommunication(u) = [w EXCEPT !.host = h]
  BY DEF TeardownCommunication
<1> HIDE DEF w, h
<1> QED BY <1>1, <1>2, <1>3, <1>4, HostUpdate DEF SameHost, SameService

LEMMA PowerDownSound ==
  ASSUME NEW u, UnitSound(u), NEW d \in PowerDown(u)
  PROVE  /\ UnitSound(d) /\ SameService(u, d) /\ d.authorized = u.authorized
         /\ d.manager \in {"Unbound", "Suspended", "Faulted"}
         /\ d.manager = "Suspended" => u.manager \in {"Ready", "Playing"}
         /\ u.manager = "Unbound" => d.manager = "Unbound"
         /\ Off(d.host) /\ d.host.resetLine = u.host.resetLine
         /\ Bound(d.host) <=> Bound(u.host)
<1>1. PICK w : /\ d = SuspendCommunication(w)
               /\ \/ u.manager \in {"Ready", "Playing"}
                     /\ \E m \in {"Suspended", "Faulted"} : w = [u EXCEPT !.manager = m]
                  \/ u.manager \in {"Unbound", "Faulted"} /\ w = u
                  \/ /\ u.manager \notin {"Ready", "Playing", "Unbound", "Faulted"}
                     /\ w = [u EXCEPT !.manager = "Unbound"]
  BY DEF PowerDown, ReleaseAmplifierDrivers
<1>2. /\ UnitSound(w) /\ w.host = u.host /\ SameService(u, w) /\ w.authorized = u.authorized
      /\ w.manager \in {"Unbound", "Suspended", "Faulted"}
      /\ w.manager = "Suspended" => u.manager \in {"Ready", "Playing"}
      /\ u.manager = "Unbound" => w.manager = "Unbound"
  <2>1. CASE u.manager \in {"Ready", "Playing"}
             /\ \E m \in {"Suspended", "Faulted"} : w = [u EXCEPT !.manager = m]
    <3>1. PICK m \in {"Suspended", "Faulted"} : w = [u EXCEPT !.manager = m]
      BY <2>1
    <3>2. m \in Managers
      BY DEF Managers
    <3>3. UnitSound(w) /\ w.host = u.host /\ SameService(u, w) /\ w.manager = m
          /\ w.authorized = u.authorized
      BY <3>1, <3>2, ManagerUpdate
    <3> QED BY <2>1, <3>3
  <2>2. CASE u.manager \in {"Unbound", "Faulted"} /\ w = u
    BY <2>2 DEF SameService
  <2>3. CASE /\ u.manager \notin {"Ready", "Playing", "Unbound", "Faulted"}
             /\ w = [u EXCEPT !.manager = "Unbound"]
    BY <2>3, ManagerUpdate DEF Managers
  <2> QED BY <1>1, <2>1, <2>2, <2>3
<1> DEFINE h == HostSuspend(w.host)
<1>3. /\ HostSound(h) /\ SameHost(u.host, h) /\ Off(h)
      /\ Bound(h) <=> Bound(u.host)
  BY <1>2, HostSuspendSound DEF UnitSound, HostSound, Off, Bound
<1>4. OnItsBus(h)
  BY <1>2, <1>3, OnItsBusKept DEF UnitSound
<1>5. d = [w EXCEPT !.host = h]
  BY <1>1 DEF SuspendCommunication
<1> HIDE DEF h
<1> QED BY <1>2, <1>3, <1>4, <1>5, HostUpdate DEF SameHost, SameService

\* What a bind of the bus leaves of the unit.
Attached(u, v) ==
    /\ UnitSound(v) /\ SameService(u, v) /\ v.manager = u.manager
    /\ v.host.resetLine = u.host.resetLine
    /\ MappedOnline(u.host) => MappedOnline(v.host)

LEMMA BindSPISound ==
  ASSUME NEW u, UnitSound(u), bus # "I2C", NEW o \in BindSPI(u)
  PROVE  /\ HostSound(o.h) /\ OnItsBus(o.h) /\ SameHost(u.host, o.h)
         /\ MappedOnline(u.host) => MappedOnline(o.h)
         /\ o.ret = "Success" /\ ~HostPending(o.h) => Bound(o.h) /\ AllMapped(o.h)
         /\ Bound(u.host) /\ AllMapped(u.host) /\ HostPending(o.h) => AllMapped(o.h)
<1> DEFINE h == u.host
<1>1. HostSound(h) /\ OnItsBus(h)
  BY DEF UnitSound
<1>2. CASE Bound(h)
  <2>1. o \in HostContinueBind(h, interpreter)
    BY <1>2 DEF BindSPI
  <2>2. /\ HostSound(o.h) /\ SameHost(h, o.h)
        /\ MappedOnline(h) => MappedOnline(o.h)
        /\ o.ret = "Success" => \A s \in Slots : o.h.slot[s].phase = "Mapped"
        /\ AllMapped(h) /\ Bound(o.h) => AllMapped(o.h)
    BY <1>1, <1>2, <2>1, HostContinueBindSound
  <2>3. o.ret = "Success" => AllMapped(o.h) /\ Bound(o.h)
    BY <2>2, ControllersAssumption DEF AllMapped, Bound, Slots
  <2>4. OnItsBus(o.h)
    BY <1>1, <2>2 DEF OnItsBus, SameHost
  <2> QED BY <2>2, <2>3, <2>4, PendingIsBound
<1>3. CASE ~Bound(h)
  <2>1. o \in HostBind(h, interpreter)
    BY <1>3 DEF BindSPI
  <2>2. /\ HostSound(o.h) /\ SameHost(h, o.h) /\ MappedOnline(o.h)
        /\ o.ret = "Success" => Bound(o.h)
        /\ o.ret = "Success" /\ ~HostPending(o.h) => AllOnline(o.h)
    BY <1>1, <1>3, <2>1, HostBindSound
  <2>3. AllOnline(o.h) => AllMapped(o.h)
    BY <2>2 DEF AllOnline, AllMapped, HostSound, Sound
  <2>4. OnItsBus(o.h)
    BY <1>1, <2>2 DEF OnItsBus, SameHost
  <2> QED BY <1>3, <2>2, <2>3, <2>4
<1> QED BY <1>2, <1>3

LEMMA AuthorizeSPISound ==
  ASSUME NEW u, UnitSound(u), NEW o \in AuthorizeSPI(u)
  PROVE  Attached(u, o.u) /\ o.u.host.slot = u.host.slot
<1>1. CASE o = UnitOutcome([u EXCEPT !.authorized = FALSE], TRUE)
  <2>1. FALSE \in BOOLEAN
    OBVIOUS
  <2>2. o.u = [u EXCEPT !.authorized = FALSE]
    BY <1>1 DEF UnitOutcome
  <2> QED BY <2>1, <2>2, AuthorizedUpdate DEF Attached
<1>2. ASSUME NEW x \in ConfigureAuthorized(u.host),
             o = UnitOutcome([u EXCEPT !.host = x.h, !.authorized = x.ret = "Success"],
                             x.ret = "Success")
      PROVE  Attached(u, o.u) /\ o.u.host.slot = u.host.slot
  <2> DEFINE h == u.host
             g == [h EXCEPT !.authorized = TRUE]
             a == (x.ret = "Success")
             v == [u EXCEPT !.host = x.h]
  <2>1. x.h = h \/ x.h = g
    <3>1. x \in {HostOutcome(h, "NotReady"), HostOutcome(h, "NotPermitted"),
                 HostOutcome(g, "Success")}
      BY DEF ConfigureAuthorized
    <3> HIDE DEF g
    <3> QED BY <3>1 DEF HostOutcome
  <2>2. HostSound(h) /\ OnItsBus(h)
    BY DEF UnitSound
  <2>3. HostSound(g) /\ g.slot = h.slot /\ g.kind = h.kind /\ g.resetLine = h.resetLine
    BY <2>2 DEF HostSound, Host, AllOrNone
  <2> HIDE DEF g
  <2>4. /\ HostSound(x.h) /\ x.h.slot = h.slot /\ x.h.kind = h.kind
        /\ x.h.resetLine = h.resetLine
    BY <2>1, <2>2, <2>3
  <2>5. OnItsBus(x.h) /\ (MappedOnline(h) => MappedOnline(x.h))
    BY <2>2, <2>4 DEF OnItsBus, Bound, MappedOnline
  <2>6. UnitSound(v) /\ v.host = x.h /\ SameService(u, v) /\ v.manager = u.manager
    BY <2>4, <2>5, HostUpdate
  <2>7. o.u = [v EXCEPT !.authorized = a]
    BY <1>2 DEF UnitOutcome
  <2>8. a \in BOOLEAN
    OBVIOUS
  <2> HIDE DEF v, a
  <2>9. UnitSound(o.u) /\ o.u.host = v.host /\ SameService(v, o.u) /\ o.u.manager = v.manager
    BY <2>6, <2>7, <2>8, AuthorizedUpdate
  <2> QED BY <2>4, <2>5, <2>6, <2>9 DEF Attached, SameService
<1>3. o = UnitOutcome([u EXCEPT !.authorized = FALSE], TRUE)
      \/ \E x \in ConfigureAuthorized(u.host) :
            o = UnitOutcome([u EXCEPT !.host = x.h, !.authorized = x.ret = "Success"],
                            x.ret = "Success")
  BY DEF AuthorizeSPI
<1> QED BY <1>1, <1>2, <1>3

LEMMA SetupSPISound ==
  ASSUME NEW u, UnitSound(u), bus # "I2C", NEW o \in SetupSPI(u)
  PROVE  /\ Attached(u, o.u)
         /\ o.ok /\ (~HostPending(o.u.host) \/ (Bound(u.host) /\ AllMapped(u.host)))
               => Bound(o.u.host) /\ AllMapped(o.u.host)
<1>1. CASE o = UnitOutcome(u, FALSE)
  BY <1>1 DEF UnitOutcome, Attached, SameService
<1>2. CASE o # UnitOutcome(u, FALSE)
  <2> DEFINE v(b) == [u EXCEPT !.host = b.h]
             n(b) == [v(b) EXCEPT !.authorized = FALSE]
  <2>1. PICK b \in BindSPI(u) :
          \/ HostPending(b.h) /\ o \in {UnitOutcome(v(b), TRUE), UnitOutcome(n(b), TRUE)}
          \/ ~HostPending(b.h) /\ b.ret = "Success" /\ o \in AuthorizeSPI(v(b))
          \/ o = UnitOutcome(n(b), FALSE)
    BY <1>2 DEF SetupSPI
  <2>2. /\ HostSound(b.h) /\ OnItsBus(b.h) /\ SameHost(u.host, b.h)
        /\ MappedOnline(u.host) => MappedOnline(b.h)
        /\ b.ret = "Success" /\ ~HostPending(b.h) => Bound(b.h) /\ AllMapped(b.h)
        /\ Bound(u.host) /\ AllMapped(u.host) /\ HostPending(b.h) => AllMapped(b.h)
        /\ HostPending(b.h) => Bound(b.h)
    BY BindSPISound, PendingIsBound
  <2> DEFINE w == v(b)
             x == n(b)
  <2>3. UnitSound(w) /\ w.host = b.h /\ SameService(u, w) /\ w.manager = u.manager
    BY <2>2, HostUpdate
  <2>4. x = [w EXCEPT !.authorized = FALSE] /\ FALSE \in BOOLEAN
    OBVIOUS
  <2>5. \/ HostPending(b.h) /\ o \in {UnitOutcome(w, TRUE), UnitOutcome(x, TRUE)}
        \/ ~HostPending(b.h) /\ b.ret = "Success" /\ o \in AuthorizeSPI(w)
        \/ o = UnitOutcome(x, FALSE)
    BY <2>1
  <2> HIDE DEF w, x
  <2>6. UnitSound(x) /\ x.host = b.h /\ SameService(w, x) /\ x.manager = u.manager
    BY <2>3, <2>4, AuthorizedUpdate
  <2>7. Attached(u, w) /\ Attached(u, x)
    BY <2>2, <2>3, <2>6 DEF Attached, SameHost, SameService
  <2>8. CASE HostPending(b.h) /\ o \in {UnitOutcome(w, TRUE), UnitOutcome(x, TRUE)}
    BY <2>2, <2>3, <2>6, <2>7, <2>8 DEF UnitOutcome
  <2>9. CASE o = UnitOutcome(x, FALSE)
    BY <2>7, <2>9 DEF UnitOutcome
  <2>10. CASE ~HostPending(b.h) /\ b.ret = "Success" /\ o \in AuthorizeSPI(w)
    <3>1. Attached(w, o.u) /\ o.u.host.slot = w.host.slot
      BY <2>3, <2>10, AuthorizeSPISound
    <3>2. Attached(u, o.u)
      BY <2>7, <3>1 DEF Attached, SameService
    <3>3. Bound(o.u.host) /\ AllMapped(o.u.host)
      BY <2>2, <2>3, <2>10, <3>1 DEF Bound, AllMapped
    <3> QED BY <3>2, <3>3
  <2> QED BY <2>5, <2>8, <2>9, <2>10
<1> QED BY <1>1, <1>2

LEMMA SetupSound ==
  ASSUME NEW u, UnitSound(u), NEW o \in SetupCommunication(u)
  PROVE  /\ Attached(u, o.u)
         /\ o.ok /\ (~HostPending(o.u.host) \/ (Bound(u.host) /\ AllMapped(u.host)))
               => bus = "I2C" \/ (Bound(o.u.host) /\ AllMapped(o.u.host))
<1>1. CASE bus # "I2C"
  BY <1>1, SetupSPISound DEF SetupCommunication
<1>2. CASE bus = "I2C"
  <2>1. o \in SetupI2C(u)
    BY <1>2 DEF SetupCommunication
  <2>2. o.u = u \/ \E a \in BOOLEAN : o.u = [u EXCEPT !.authorized = a]
    <3> DEFINE no == [u EXCEPT !.authorized = FALSE]
               yes == [u EXCEPT !.authorized = TRUE]
    <3>1. o \in {UnitOutcome(u, FALSE), UnitOutcome(u, TRUE), UnitOutcome(no, TRUE),
                 UnitOutcome(yes, TRUE)}
      BY <2>1 DEF SetupI2C, AdoptDiscoveredBoard, PreflightI2CIdentity
    <3> HIDE DEF no, yes
    <3>2. o.u \in {u, no, yes}
      BY <3>1 DEF UnitOutcome
    <3> QED BY <3>2 DEF no, yes
  <2>3. Attached(u, o.u)
    <3>1. CASE o.u = u
      BY <3>1 DEF Attached, SameService
    <3>2. CASE \E a \in BOOLEAN : o.u = [u EXCEPT !.authorized = a]
      BY <3>2, AuthorizedUpdate DEF Attached
    <3> QED BY <2>2, <3>1, <3>2
  <2> QED BY <1>2, <2>3
<1> QED BY <1>1, <1>2

\* The reset changes the reset line and the authorisation only.
LEMMA ResetSound ==
  ASSUME NEW u, UnitSound(u), Ready(u), NEW p \in PerformPlatformHardwareReset(u)
  PROVE  /\ UnitSound(p.u) /\ SameService(u, p.u) /\ p.u.manager = u.manager
         /\ p.u.host.slot = u.host.slot
         /\ p.ok \/ ~Bound(p.u.host) => (p.u.authorized => p.u.host.resetLine # "Held")
         /\ ~p.ok /\ Bound(p.u.host) => ~p.u.authorized
<1> DEFINE no == [u EXCEPT !.authorized = FALSE]
<1>0. UnitSound(no) /\ SameService(u, no) /\ no.manager = u.manager /\ no.host = u.host /\ ~no.authorized
  BY AuthorizedUpdate
<1> HIDE DEF no
<1>1. CASE ~u.authorized
  BY <1>1 DEF PerformPlatformHardwareReset, UnitOutcome, SameService
<1>2. CASE u.authorized /\ ~Bound(u.host)
  <2>1. u.host.resetLine = "None"
    BY <1>2 DEF UnitSound, OnItsBus, Ready
  <2>2. p \in {UnitOutcome(u, TRUE), UnitOutcome(u, FALSE), UnitOutcome(no, FALSE)}
    BY <1>2 DEF PerformPlatformHardwareReset, no
  <2> QED BY <1>0, <1>2, <2>1, <2>2 DEF UnitOutcome, SameService
<1>3. CASE u.authorized /\ Bound(u.host)
  <2>1. PICK o \in PrepareHardware(u.host) :
          p = UnitOutcome([u EXCEPT !.host = o.h, !.authorized = o.ret = "Success"],
                          o.ret = "Success")
    BY <1>3 DEF PerformPlatformHardwareReset
  <2> DEFINE h == u.host
             up == [h EXCEPT !.resetLine = "Released"]
             held == [h EXCEPT !.resetLine = "Held"]
             ok == (o.ret = "Success")
             v == [u EXCEPT !.host = o.h]
  <2>2. HostSound(h) /\ OnItsBus(h) /\ bus # "I2C"
    BY <1>3 DEF UnitSound, OnItsBus
  <2>3. /\ HostSound(up) /\ up.slot = h.slot /\ up.kind = h.kind /\ up.resetLine # "Held"
        /\ HostSound(held) /\ held.slot = h.slot /\ held.kind = h.kind
    BY <2>2 DEF HostSound, Host, AllOrNone
  <2>4. \/ o = HostOutcome(h, "NotReady") \/ o = HostOutcome(h, "NotPermitted")
        \/ h.resetLine = "None" /\ o = HostOutcome(h, "Success")
        \/ o = HostOutcome(h, "Unsupported")
        \/ o = HostOutcome(up, "Success") \/ o = HostOutcome(up, "Error")
        \/ o = HostOutcome(held, "Error")
    BY DEF PrepareHardware
  <2> HIDE DEF up, held
  <2>5. /\ HostSound(o.h) /\ o.h.slot = h.slot /\ o.h.kind = h.kind
        /\ ok => o.h.resetLine # "Held"
    BY <2>2, <2>3, <2>4 DEF HostOutcome
  <2>6. OnItsBus(o.h)
    BY <2>2, <2>5 DEF OnItsBus
  <2>7. UnitSound(v) /\ v.host = o.h /\ SameService(u, v) /\ v.manager = u.manager
    BY <2>5, <2>6, HostUpdate
  <2>8. p.u = [v EXCEPT !.authorized = ok] /\ p.ok = ok /\ ok \in BOOLEAN
    BY <2>1 DEF UnitOutcome
  <2> HIDE DEF v
  <2>9. /\ UnitSound(p.u) /\ p.u.host = v.host /\ SameService(v, p.u)
        /\ p.u.manager = v.manager /\ p.u.authorized = ok
    <3> HIDE DEF ok
    <3> QED BY <2>7, <2>8, AuthorizedUpdate
  <2>10. Bound(p.u.host)
    BY <1>3, <2>5, <2>7, <2>9 DEF Bound
  <2> HIDE DEF ok
  <2> QED BY <2>5, <2>7, <2>8, <2>9, <2>10 DEF SameService
<1> QED BY <1>1, <1>2, <1>3

LEMMA TouchSound ==
  ASSUME NEW u, UnitSound(u)
  PROVE  LET v == Touch(u)
         IN  /\ UnitSound(v) /\ v.host = u.host /\ v.manager = u.manager
             /\ v.known = u.known /\ v.authorized = u.authorized
             /\ v.detected = u.detected /\ (Live(u) => v.touched = "Live")
BY DEF Touch, UnitSound, Unit

\* What the amplifiers' bring-up leaves alone, and when it touches them.
SameBus(u, v) ==
    /\ UnitSound(v) /\ v.host = u.host /\ v.known = u.known
    /\ v.authorized = u.authorized
    /\ Live(u) /\ u.touched # "Dead" => v.touched # "Dead"

LEMMA BringUpSound ==
  ASSUME NEW u, UnitSound(u), u.manager \in {"Unbound", "Faulted"},
         NEW d \in BringUpAmplifiers(u)
  PROVE  /\ SameBus(u, d) /\ d.detected = u.detected
         /\ d.manager \in {"Unbound", "Ready", "Waiting", "Faulted"}
         /\ d.manager \in {"Ready", "Waiting"} => Live(u) /\ u.authorized /\ u.detected
         /\ d.manager # u.manager \/ d.touched # u.touched => u.authorized /\ u.detected
<1>1. CASE d = u
  BY <1>1 DEF SameBus
<1>2. CASE d # u
  <2>1. /\ u.authorized /\ u.detected
        /\ \E b \in BindAmplifierDrivers(u) :
              \/ b.manager # "Detached" /\ d = b
              \/ /\ b.manager = "Detached"
                 /\ \E m \in (IF Live(b) THEN {"Ready", "Waiting", "Faulted"} ELSE {"Faulted"}) :
                       d = [Touch(b) EXCEPT !.manager = m]
    BY <1>2 DEF BringUpAmplifiers
  <2>2. PICK b \in BindAmplifierDrivers(u) :
              \/ b.manager # "Detached" /\ d = b
              \/ /\ b.manager = "Detached"
                 /\ \E m \in (IF Live(b) THEN {"Ready", "Waiting", "Faulted"} ELSE {"Faulted"}) :
                       d = [Touch(b) EXCEPT !.manager = m]
    BY <2>1
  <2>3. b = u \/ \E m \in {"Unbound", "Detached"} : b = [u EXCEPT !.manager = m]
    BY DEF BindAmplifierDrivers, ReleaseAmplifierDrivers
  <2>4. /\ UnitSound(b) /\ b.host = u.host /\ SameService(u, b) /\ b.authorized = u.authorized
        /\ b.manager \in {"Unbound", "Detached", "Faulted"}
    <3>1. CASE b = u
      BY <3>1 DEF SameService
    <3>2. CASE \E m \in {"Unbound", "Detached"} : b = [u EXCEPT !.manager = m]
      <4>1. PICK m \in {"Unbound", "Detached"} : b = [u EXCEPT !.manager = m]
        BY <3>2
      <4>2. m \in Managers
        BY DEF Managers
      <4> QED BY <4>1, <4>2, ManagerUpdate
    <3> QED BY <2>3, <3>1, <3>2
  <2>5. Live(b) = Live(u)
    BY <2>4 DEF Live
  <2>6. CASE b.manager # "Detached" /\ d = b
    BY <2>1, <2>4, <2>6 DEF SameBus, SameService
  <2>7. CASE /\ b.manager = "Detached"
             /\ \E m \in (IF Live(b) THEN {"Ready", "Waiting", "Faulted"} ELSE {"Faulted"}) :
                   d = [Touch(b) EXCEPT !.manager = m]
    <3>1. PICK m \in (IF Live(b) THEN {"Ready", "Waiting", "Faulted"} ELSE {"Faulted"}) :
                   d = [Touch(b) EXCEPT !.manager = m]
      BY <2>7
    <3>2. m \in {"Ready", "Waiting", "Faulted"} /\ (m # "Faulted" => Live(b)) /\ m \in Managers
      BY DEF Managers
    <3> DEFINE t == Touch(b)
    <3>3. /\ UnitSound(t) /\ t.host = b.host /\ t.known = b.known
          /\ t.authorized = b.authorized /\ t.detected = b.detected
          /\ Live(b) => t.touched = "Live"
      BY <2>4, TouchSound
    <3> HIDE DEF t
    <3>4. /\ UnitSound(d) /\ d.host = t.host /\ SameService(t, d) /\ d.authorized = t.authorized
          /\ d.manager = m
      BY <3>1, <3>2, <3>3, ManagerUpdate DEF t
    <3> QED BY <2>1, <2>4, <2>5, <3>2, <3>3, <3>4 DEF SameBus, SameService
  <2> QED BY <2>2, <2>6, <2>7
<1> QED BY <1>1, <1>2

LEMMA AskedSound ==
  ASSUME NEW u, UnitSound(u), NEW d \in Asked(u)
  PROVE  SameBus(u, d) /\ d.manager = u.manager
<1> DEFINE t == Touch(u)
<1>1. PICK all \in (IF Live(u) THEN BOOLEAN ELSE {FALSE}) : d = [t EXCEPT !.detected = all]
  BY DEF Asked
<1>2. all \in BOOLEAN
  OBVIOUS
<1>3. /\ UnitSound(t) /\ t.host = u.host /\ t.manager = u.manager /\ t.known = u.known
      /\ t.authorized = u.authorized /\ (Live(u) => t.touched = "Live")
  BY TouchSound
<1> HIDE DEF t
<1>4. /\ UnitSound(d) /\ d.host = t.host /\ d.manager = t.manager /\ d.known = t.known
      /\ d.authorized = t.authorized /\ d.touched = t.touched
  BY <1>1, <1>2, <1>3 DEF UnitSound, Unit
<1> QED BY <1>3, <1>4 DEF SameBus

LEMMA ForgottenSound ==
  ASSUME NEW u, UnitSound(u)
  PROVE  LET d == [u EXCEPT !.detected = FALSE]
         IN  SameBus(u, d) /\ d.manager = u.manager /\ ~d.detected /\ d.touched = u.touched
BY DEF SameBus, UnitSound, Unit

LEMMA DetectSound ==
  ASSUME NEW u, UnitSound(u), u.manager = "Unbound", NEW d \in DetectAndBringUp(u)
  PROVE  /\ SameBus(u, d)
         /\ d.manager \in {"Unbound", "Ready", "Waiting", "Faulted"}
         /\ d.manager \in {"Ready", "Waiting"} => Live(u) /\ d.authorized /\ d.detected
<1> DEFINE free == ReleaseAmplifierDrivers(u)
           unseen == [free EXCEPT !.detected = FALSE]
           unheard == [u EXCEPT !.detected = FALSE]
<1>1. SameBus(u, free) /\ free.manager = "Unbound" /\ UnitSound(free) /\ free.host = u.host
  BY ManagerUpdate DEF ReleaseAmplifierDrivers, Managers, SameBus, SameService
<1> HIDE DEF free
<1>2. SameBus(free, unseen) /\ unseen.manager = "Unbound"
  BY <1>1, ForgottenSound
<1>3. SameBus(u, unheard) /\ unheard.manager = "Unbound"
  BY ForgottenSound
<1> HIDE DEF unseen, unheard
<1>4. PICK x : /\ d \in BringUpAmplifiers(x)
               /\ x \in Asked(u) \/ x \in Asked(free) \/ x \in {unseen, unheard}
  BY DEF DetectAndBringUp, DetectNativeSPIAmplifiers, DetectAmplifiers,
         DetectConfiguredI2CAmplifiers, free, unseen, unheard
<1>5. Live(free) = Live(u)
  BY <1>1 DEF Live
<1>6. SameBus(u, x) /\ x.manager = "Unbound"
  <2>1. CASE x \in Asked(u)
    BY <2>1, AskedSound
  <2>2. CASE x \in Asked(free)
    <3>1. SameBus(free, x) /\ x.manager = "Unbound"
      BY <1>1, <2>2, AskedSound
    <3> QED BY <1>1, <1>5, <3>1 DEF SameBus
  <2>3. CASE x \in {unseen, unheard}
    BY <1>1, <1>2, <1>3, <1>5, <2>3 DEF SameBus
  <2> QED BY <1>4, <2>1, <2>2, <2>3
<1>7. /\ SameBus(x, d) /\ d.detected = x.detected
      /\ d.manager \in {"Unbound", "Ready", "Waiting", "Faulted"}
      /\ d.manager \in {"Ready", "Waiting"} => Live(x) /\ x.authorized /\ x.detected
  BY <1>4, <1>6, BringUpSound DEF SameBus
<1>8. Live(x) = Live(u)
  BY <1>6 DEF Live, SameBus
<1> QED BY <1>6, <1>7, <1>8 DEF SameBus

\* A bus that is bound, an amplifier that is detected and a reset that is let
\* go: what an amplifier needs before it runs.
LEMMA BegunMembers ==
  ASSUME NEW u, UnitSound(u), u.manager = "Unbound", Ready(u),
         u.authorized => u.host.resetLine # "Held", NEW d \in DetectAndBringUp(u),
         NEW joined
  PROVE  Members(d, TRUE, joined)
<1>1. /\ SameBus(u, d)
      /\ d.manager \in {"Unbound", "Ready", "Waiting", "Faulted"}
      /\ d.manager \in {"Ready", "Waiting"} => Live(u) /\ d.authorized /\ d.detected
  BY DetectSound
<1>2. Live(d) = Live(u)
  BY <1>1 DEF SameBus, Live
<1>3. d.host = u.host /\ d.authorized = u.authorized
  BY <1>1 DEF SameBus
<1>4. d.manager \in RunningManagers => Live(d)
  BY <1>1, <1>2 DEF RunningManagers
<1>5. d.manager \in RunningManagers \cup {"Suspended"} =>
          d.host.resetLine # "Held" /\ (bus = "I2C" \/ Bound(d.host))
  BY <1>1, <1>3 DEF RunningManagers, Ready
<1>6. d.authorized /\ d.detected =>
          d.host.resetLine # "Held" /\ (~joined \/ bus = "I2C" \/ Bound(d.host))
  BY <1>3 DEF Ready
<1> QED BY <1>1, <1>4, <1>5, <1>6 DEF Members

\* A finished start: the unit it leaves, on the bus it found or torn down.
LEMMA FinishStartupSound ==
  ASSUME NEW u, UnitSound(u), u.manager = "Unbound", ~u.detected, u.touched # "Dead",
         bus = "I2C" \/ (Bound(u.host) /\ AllMapped(u.host)),
         pmInitialized \in BOOLEAN,
         NEW f \in FinishStartup(u)
  PROVE  /\ UnitSound(f.u) /\ f.u.known = u.known
         /\ Members(f.u, TRUE, f.ok \/ pmInitialized)
         /\ f.ok /\ ~u.known => f.u = u
         /\ f.u.manager # "Suspended" /\ f.u.manager # "Playing"
         /\ MappedOnline(u.host) => MappedOnline(f.u.host) /\ f.u.touched # "Dead"
<1> DEFINE Result(d, joined) ==
             /\ UnitSound(d) /\ d.known = u.known /\ Members(d, TRUE, joined)
             /\ ~u.known => d = u
             /\ d.manager # "Suspended" /\ d.manager # "Playing"
             /\ MappedOnline(u.host) => MappedOnline(d.host) /\ d.touched # "Dead"
<1>1. PICK b : /\ \/ ~u.known /\ b = UnitOutcome(u, TRUE)
                  \/ /\ u.known
                     /\ \E o \in PerformPlatformHardwareReset(u) :
                           \/ /\ ~o.ok /\ Bound(o.u.host)
                              /\ b = UnitOutcome(TeardownCommunication(o.u), FALSE)
                           \/ /\ o.ok \/ ~Bound(o.u.host)
                              /\ \E d \in DetectAndBringUp(o.u) : b = UnitOutcome(d, TRUE)
               /\ f = b \/ (~pmInitialized /\ f = UnitOutcome(b.u, FALSE))
  BY DEF FinishStartup
<1>2. ASSUME NEW joined
      PROVE  Result(b.u, joined)
  <2>1. CASE ~u.known /\ b = UnitOutcome(u, TRUE)
    <3>1. Members(u, TRUE, joined)
      BY DEF Members, RunningManagers
    <3> QED BY <2>1, <3>1 DEF UnitOutcome
  <2>2. CASE u.known
    <3>1. PICK o \in PerformPlatformHardwareReset(u) :
             \/ /\ ~o.ok /\ Bound(o.u.host)
                /\ b = UnitOutcome(TeardownCommunication(o.u), FALSE)
             \/ /\ o.ok \/ ~Bound(o.u.host)
                /\ \E d \in DetectAndBringUp(o.u) : b = UnitOutcome(d, TRUE)
      BY <1>1, <2>2
    <3>2. Ready(u)
      BY DEF Ready
    <3>3. /\ UnitSound(o.u) /\ SameService(u, o.u) /\ o.u.manager = "Unbound"
          /\ o.u.host.slot = u.host.slot
          /\ o.ok \/ ~Bound(o.u.host) => (o.u.authorized => o.u.host.resetLine # "Held")
          /\ ~o.ok /\ Bound(o.u.host) => ~o.u.authorized
      BY <3>2, ResetSound
    <3>4. MappedOnline(u.host) => MappedOnline(o.u.host) /\ Live(o.u)
      BY <3>3 DEF MappedOnline, AllMapped, Live, AllOnline
    <3>5. Ready(o.u)
      BY <3>2, <3>3 DEF Ready, Bound
    <3>6. CASE ~o.ok /\ Bound(o.u.host) /\ b = UnitOutcome(TeardownCommunication(o.u), FALSE)
      <4> DEFINE v == TeardownCommunication(o.u)
      <4>1. /\ UnitSound(v) /\ SameService(o.u, v) /\ ~v.authorized
            /\ v.manager = "Unbound" /\ ~Bound(v.host)
        BY <3>3, <3>6, TeardownSound
      <4>2. b.u = v
        BY <3>6 DEF UnitOutcome
      <4> HIDE DEF v
      <4>3. MappedOnline(v.host)
        BY <4>1, UnboundSlots DEF UnitSound
      <4>4. Members(v, TRUE, joined)
        BY <4>1 DEF Members, RunningManagers
      <4> QED BY <2>2, <3>3, <4>1, <4>2, <4>3, <4>4 DEF SameService
    <3>7. ASSUME NEW d \in DetectAndBringUp(o.u), b = UnitOutcome(d, TRUE),
                 o.ok \/ ~Bound(o.u.host)
          PROVE  Result(b.u, joined)
      <4>1. /\ SameBus(o.u, d)
            /\ d.manager \in {"Unbound", "Ready", "Waiting", "Faulted"}
        BY <3>3, DetectSound
      <4>2. Members(d, TRUE, joined)
        BY <3>3, <3>5, <3>7, BegunMembers
      <4> QED BY <2>2, <3>3, <3>4, <3>7, <4>1, <4>2 DEF SameBus, SameService, UnitOutcome
    <3> HIDE DEF Result
    <3> QED BY <3>1, <3>6, <3>7
  <2> HIDE DEF Result
  <2> QED BY <1>1, <2>1, <2>2
<1>3. CASE f = b
  BY <1>2, <1>3
<1>4. CASE ~pmInitialized /\ f = UnitOutcome(b.u, FALSE)
  BY <1>2, <1>4 DEF UnitOutcome
<1> QED BY <1>1, <1>3, <1>4

\* What a wake leaves of the unit for what became of the bus.
LEMMA ResumeSound ==
  ASSUME NEW u, UnitSound(u), NEW w \in ResumeCommunication(u)
  PROVE  /\ UnitSound(w.u) /\ SameService(u, w.u) /\ w.u.manager = u.manager
         /\ w.u.authorized = u.authorized
         /\ w.u.host.resetLine = u.host.resetLine
         /\ Bound(w.u.host) <=> Bound(u.host)
         /\ w.bus \in {"Ready", "Pending", "Failed"}
         /\ w.bus = "Ready" => ~Bound(w.u.host) \/ AllOnline(w.u.host)
         /\ w.bus = "Pending" => Bound(w.u.host)
         /\ w.bus = "Failed" => Off(w.u.host)
<1>1. PICK o \in HostResume(u.host) :
        w = [u |-> [u EXCEPT !.host = o.h],
             bus |-> CASE o.ret = "Success" -> "Ready"
                       [] o.ret # "Success" /\ HostPending(o.h) -> "Pending"
                       [] OTHER -> "Failed"]
  BY DEF ResumeCommunication
<1>2. /\ HostSound(o.h) /\ SameHost(u.host, o.h)
      /\ Bound(o.h) <=> Bound(u.host)
      /\ ~Bound(u.host) => o.h = u.host /\ o.ret = "Success"
      /\ Bound(u.host) /\ o.ret = "Success" => AllOnline(o.h)
      /\ o.ret # "Success" /\ ~HostPending(o.h) => Off(o.h)
  BY HostResumeSound DEF UnitSound
<1>3. OnItsBus(o.h)
  BY <1>2, OnItsBusKept DEF UnitSound
<1> DEFINE v == [u EXCEPT !.host = o.h]
<1>4. UnitSound(v) /\ v.host = o.h /\ SameService(u, v) /\ v.manager = u.manager /\ v.authorized = u.authorized
  BY <1>2, <1>3, HostUpdate
<1>5. w.u = v
  BY <1>1
<1>6. \/ o.ret = "Success" /\ w.bus = "Ready"
      \/ o.ret # "Success" /\ HostPending(o.h) /\ w.bus = "Pending"
      \/ o.ret # "Success" /\ ~HostPending(o.h) /\ w.bus = "Failed"
  <2> HIDE DEF v
  <2>1. w.bus = CASE o.ret = "Success" -> "Ready"
                  [] o.ret # "Success" /\ HostPending(o.h) -> "Pending"
                  [] OTHER -> "Failed"
    BY <1>1
  <2> QED BY <2>1
<1> HIDE DEF v
<1> QED BY <1>2, <1>4, <1>5, <1>6, PendingIsBound DEF SameHost

\* A wake: the amplifiers run again on a bus that is ready, and are left
\* asleep by one that is not.
LEMMA PowerUpSound ==
  ASSUME NEW u, UnitSound(u), Members(u, FALSE, TRUE), u.touched # "Dead",
         NEW w \in PowerUp(u)
  PROVE  /\ UnitSound(w.u) /\ w.u.known = u.known /\ w.u.detected = u.detected
         /\ w.u.touched # "Dead"
         /\ Bound(w.u.host) <=> Bound(u.host)
         /\ w.bus \in {"Ready", "Pending", "Failed"}
         /\ w.bus = "Ready" => Members(w.u, TRUE, TRUE) /\ MappedOnline(w.u.host)
         /\ w.bus # "Ready" => Members(w.u, FALSE, TRUE) /\ w.u.manager = u.manager
         /\ u.manager = "Unbound" /\ ~u.detected => w.u.manager = "Unbound"
         /\ w.bus = "Pending" => Bound(w.u.host)
         /\ w.bus = "Failed" => Off(w.u.host)
<1>0. /\ u.manager \in {"Unbound", "Suspended", "Faulted"}
      /\ u.manager = "Suspended" => u.host.resetLine # "Held" /\ Ready(u)
      /\ u.authorized /\ u.detected => u.host.resetLine # "Held" /\ Ready(u)
  BY DEF Members, RunningManagers, UnitSound, Unit, Managers, Ready
<1>1. PICK x \in ResumeCommunication(u) :
        \/ x.bus # "Ready" /\ w = x
        \/ /\ x.bus = "Ready" /\ u.manager # "Suspended"
           /\ \E d \in BringUpAmplifiers(x.u) : w = [u |-> d, bus |-> "Ready"]
        \/ /\ x.bus = "Ready" /\ u.manager = "Suspended"
           /\ \E m \in {"Ready", "Waiting", "Faulted"} :
                 w = [u |-> [Touch(x.u) EXCEPT !.manager = m], bus |-> "Ready"]
  BY DEF PowerUp
<1>2. /\ UnitSound(x.u) /\ SameService(u, x.u) /\ x.u.manager = u.manager
      /\ x.u.authorized = u.authorized
      /\ x.u.host.resetLine = u.host.resetLine
      /\ Bound(x.u.host) <=> Bound(u.host)
      /\ x.bus \in {"Ready", "Pending", "Failed"}
      /\ x.bus = "Ready" => ~Bound(x.u.host) \/ AllOnline(x.u.host)
      /\ x.bus = "Pending" => Bound(x.u.host)
      /\ x.bus = "Failed" => Off(x.u.host)
  BY ResumeSound
<1>3. Ready(x.u) <=> Ready(u)
  BY <1>2 DEF Ready
<1>4. x.bus = "Ready" /\ Ready(u) => Live(x.u)
  BY <1>2 DEF Ready, Live
<1>5. x.bus = "Ready" => MappedOnline(x.u.host)
  <2>1. CASE ~Bound(x.u.host)
    BY <1>2, <2>1, UnboundSlots DEF UnitSound
  <2>2. CASE AllOnline(x.u.host)
    BY <2>2 DEF AllOnline, MappedOnline
  <2> QED BY <1>2, <2>1, <2>2
<1>6. CASE x.bus # "Ready" /\ w = x
  <2>1. Members(x.u, FALSE, TRUE)
    BY <1>0, <1>2, <1>3 DEF Members, RunningManagers, Ready, SameService
  <2> QED BY <1>2, <1>6, <2>1 DEF SameService
<1>7. ASSUME NEW d \in BringUpAmplifiers(x.u), w = [u |-> d, bus |-> "Ready"],
             x.bus = "Ready", u.manager # "Suspended"
      PROVE  /\ UnitSound(w.u) /\ w.u.known = u.known /\ w.u.detected = u.detected
             /\ w.u.touched # "Dead"
             /\ w.u.host = x.u.host /\ w.bus = "Ready" /\ Members(w.u, TRUE, TRUE)
             /\ u.manager = "Unbound" /\ ~u.detected => w.u.manager = "Unbound"
  <2>1. /\ SameBus(x.u, d) /\ d.detected = x.u.detected
        /\ d.manager \in {"Unbound", "Ready", "Waiting", "Faulted"}
        /\ d.manager \in {"Ready", "Waiting"} => Live(x.u) /\ x.u.authorized /\ x.u.detected
        /\ d.manager # x.u.manager \/ d.touched # x.u.touched => x.u.authorized /\ x.u.detected
    BY <1>0, <1>2, <1>7, BringUpSound
  <2>2. d.touched # "Dead"
    BY <1>0, <1>2, <1>4, <1>7, <2>1 DEF SameBus, SameService
  <2>3. Live(d) = Live(x.u) /\ d.host = x.u.host
    BY <2>1 DEF SameBus, Live
  <2>4. d.manager \in RunningManagers => Live(d) /\ d.authorized /\ d.detected
    BY <2>1, <2>3 DEF RunningManagers, SameBus
  <2>5. d.authorized /\ d.detected => d.host.resetLine # "Held" /\ Ready(d)
    BY <1>0, <1>2, <1>3, <2>1 DEF SameBus, SameService, Ready
  <2>6. Members(d, TRUE, TRUE)
    BY <2>1, <2>4, <2>5 DEF Members, RunningManagers, Ready
  <2> QED BY <1>2, <1>7, <2>1, <2>2, <2>6 DEF SameBus, SameService
<1>8. ASSUME NEW m \in {"Ready", "Waiting", "Faulted"}, x.bus = "Ready", u.manager = "Suspended",
             w = [u |-> [Touch(x.u) EXCEPT !.manager = m], bus |-> "Ready"]
      PROVE  /\ UnitSound(w.u) /\ w.u.known = u.known /\ w.u.detected = u.detected
             /\ w.u.touched # "Dead"
             /\ w.u.host = x.u.host /\ w.bus = "Ready" /\ Members(w.u, TRUE, TRUE)
  <2> DEFINE t == Touch(x.u)
             d == [t EXCEPT !.manager = m]
  <2>1. /\ UnitSound(t) /\ t.host = x.u.host /\ t.manager = x.u.manager
        /\ t.known = x.u.known /\ t.authorized = x.u.authorized
        /\ t.detected = x.u.detected /\ (Live(x.u) => t.touched = "Live")
    BY <1>2, TouchSound
  <2>2. w.u = d /\ w.bus = "Ready"
    BY <1>8
  <2>3. m \in Managers
    BY DEF Managers
  <2> HIDE DEF t
  <2>4. /\ UnitSound(d) /\ d.host = t.host /\ SameService(t, d) /\ d.manager = m
        /\ d.authorized = t.authorized
    BY <2>1, <2>3, ManagerUpdate
  <2> HIDE DEF d
  <2>5. Live(x.u) /\ Ready(x.u) /\ x.u.host.resetLine # "Held"
    BY <1>0, <1>2, <1>3, <1>4, <1>8
  <2>6. d.host = x.u.host /\ Live(d) /\ Ready(d)
    BY <2>1, <2>4, <2>5 DEF Live, Ready
  <2>7. Members(d, TRUE, TRUE)
    BY <2>4, <2>5, <2>6 DEF Members, RunningManagers, Ready
  <2> QED BY <1>2, <2>1, <2>2, <2>4, <2>5, <2>6, <2>7 DEF SameService
<1> QED BY <1>1, <1>2, <1>5, <1>6, <1>7, <1>8

-----------------------------------------------------------------------------
(* The service *)

\* What a step arrives at, said with the bus of this machine.
LEMMA Arrive ==
  ASSUME bus' = bus, TypeOK', UnitSound(unit'), Members(unit', power', pmInitialized'),
         OffStage', Starting', Excluded',
         power' /\ ~sleptPending' => MappedOnline(unit'.host),
         AsleepLetsGo', PendingIsPolled', AnswerIsComing', IdentityFirst',
         ProbesMeetLiveBus'
  PROVE  IInv'
<1>1. HostSound(unit.host)' /\ OnItsBus(unit.host)'
  BY DEF UnitSound, OnItsBus
<1>2. Members(unit, power, pmInitialized)'
  BY DEF Members, Live
<1>3. Awake'
  BY DEF Awake
<1> QED BY <1>1, <1>2, <1>3 DEF IInv

LEMMA RecordedType ==
  ASSUME TypeOK, Recorded
  PROVE  found' \in [Slots -> BOOLEAN] /\ sleptPending' \in BOOLEAN
<1>1. \A s \in Slots : unit.host.slot[s].mem \in BOOLEAN /\ found[s] \in BOOLEAN
  BY DEF TypeOK, Unit, Host, Controller
<1>2. sleptPending \in BOOLEAN /\ startupPending \in BOOLEAN
  BY DEF TypeOK
<1>3. sleptPending' \in BOOLEAN
  BY <1>2 DEF Recorded
<1>4. found' \in [Slots -> BOOLEAN]
  BY <1>1 DEF Recorded
<1> QED BY <1>3, <1>4

\* A handler begins on the unit it finds.
LEMMA UntouchedSound ==
  ASSUME IInv
  PROVE  /\ UnitSound(unit) /\ UnitSound(Untouched)
         /\ Untouched.host = unit.host /\ Untouched.known = unit.known
         /\ Untouched.authorized = unit.authorized /\ Untouched.detected = unit.detected
         /\ Untouched.manager = unit.manager /\ Untouched.touched = "No"
         /\ Members(Untouched, power, pmInitialized)
<1>1. UnitSound(unit) /\ Members(unit, power, pmInitialized)
  BY DEF IInv, UnitSound, TypeOK
<1>2. /\ Untouched \in Unit
      /\ Untouched.host = unit.host /\ Untouched.known = unit.known
      /\ Untouched.authorized = unit.authorized /\ Untouched.detected = unit.detected
      /\ Untouched.manager = unit.manager /\ Untouched.touched = "No"
  BY <1>1 DEF Untouched, UnitSound, Unit
<1> QED BY <1>1, <1>2 DEF UnitSound, Members, Live

\* The flags of the service.
Flags == /\ phase \in {"Idle", "Running", "Stopped"}
         /\ power \in BOOLEAN /\ startupPending \in BOOLEAN /\ startupFailed \in BOOLEAN
         /\ resumePending \in BOOLEAN /\ pmInitialized \in BOOLEAN
         /\ identityPending \in BOOLEAN /\ timer \in BOOLEAN /\ due \in BOOLEAN
         /\ ackOwed \in BOOLEAN /\ identityKnown \in BOOLEAN
         /\ identityWaited \in 0 .. IdentityDeadline /\ ackWaited \in 0 .. AckDeadline
         /\ level \in {0, 1}

LEMMA FlagsType ==
  TypeOK <=> /\ Flags /\ bus \in Buses /\ unit \in Unit /\ found \in [Slots -> BOOLEAN]
             /\ sleptPending \in BOOLEAN
             /\ interpreter \in {"CallbackNotReached", "Ready", "Published", "Failed"}
BY DEF TypeOK, Flags

LEMMA TypeArrive ==
  ASSUME TypeOK, UNCHANGED <<bus, interpreter>>, Recorded, Flags', unit' \in Unit
  PROVE  TypeOK'
<1>1. found' \in [Slots -> BOOLEAN] /\ sleptPending' \in BOOLEAN
  BY RecordedType
<1>2. bus \in Buses /\ interpreter \in {"CallbackNotReached", "Ready", "Published", "Failed"}
  BY DEF TypeOK
<1> QED BY <1>1, <1>2 DEF TypeOK, Flags

LEMMA Zeroes == 0 \in 0 .. IdentityDeadline /\ 0 \in 0 .. AckDeadline
BY PowerAssumption DEF IdentityDeadline

LEMMA TimerIgnoredInv ==
  ASSUME IInv, TimerIgnored, UNCHANGED world, Recorded
  PROVE  IInv'
<1>1. /\ unit' = unit /\ bus' = bus /\ interpreter' = interpreter
      /\ identityKnown' = identityKnown /\ phase' = phase /\ power' = power
      /\ startupPending' = startupPending /\ startupFailed' = startupFailed
      /\ resumePending' = resumePending /\ pmInitialized' = pmInitialized
      /\ identityPending' = identityPending /\ identityWaited' = identityWaited
      /\ level' = level /\ ackOwed' = ackOwed /\ ackWaited' = ackWaited
      /\ timer' = FALSE /\ due' = FALSE
  BY DEF TimerIgnored, SetTimer, control, system, world
<1>2. phase = "Running" /\ (startupFailed \/ (~power /\ ~resumePending))
  BY DEF TimerIgnored
<1>3. TypeOK' 
  <2>1. Flags
    BY FlagsType DEF IInv
  <2>2. Flags'
    BY <1>1, <2>1 DEF Flags
  <2> QED BY <1>1, <2>2, TypeArrive DEF IInv, TypeOK
<1>4. UnitSound(unit') /\ Members(unit', power', pmInitialized')
  BY <1>1, UntouchedSound DEF IInv
<1>5. ~resumePending
  BY <1>2 DEF IInv, Excluded
<1>6. sleptPending' = sleptPending
  BY <1>1, <1>2 DEF Recorded, IInv, Starting, TypeOK
<1>7. OffStage' /\ Starting' /\ Excluded'
  BY <1>1, <1>2, <1>5, <1>6 DEF IInv, OffStage, Starting, Excluded
<1>8. power' /\ ~sleptPending' => MappedOnline(unit'.host)
  BY <1>1, <1>6 DEF IInv, Awake
<1>9. AsleepLetsGo' /\ PendingIsPolled' /\ AnswerIsComing' /\ IdentityFirst' /\ ProbesMeetLiveBus'
  BY <1>1, <1>2, <1>5, <1>6 DEF IInv, AsleepLetsGo, PendingIsPolled, AnswerIsComing,
     IdentityFirst, ProbesMeetLiveBus, Running
<1> QED BY <1>1, <1>3, <1>4, <1>7, <1>8, <1>9, Arrive

LEMMA AckExpiresInv ==
  ASSUME IInv, AckExpires, UNCHANGED world, Recorded
  PROVE  IInv'
<1>1. /\ unit' = unit /\ bus' = bus /\ interpreter' = interpreter
      /\ identityKnown' = identityKnown /\ phase' = phase /\ power' = power
      /\ startupPending' = startupPending /\ startupFailed' = startupFailed
      /\ resumePending' = resumePending /\ pmInitialized' = pmInitialized
      /\ identityPending' = identityPending /\ identityWaited' = identityWaited
      /\ level' = level /\ ackOwed' = FALSE /\ ackWaited' = 0
      /\ timer' = timer /\ due' = due /\ ackOwed
  BY DEF AckExpires, control, clock, world
<1>2. phase = "Running" /\ resumePending
  BY <1>1 DEF IInv, AnswerIsComing, Running
<1>3. TypeOK' 
  <2>1. Flags
    BY FlagsType DEF IInv
  <2>2. Flags'
    BY ZenonT(60), <1>1, <2>1, Zeroes DEF Flags
  <2> QED BY <1>1, <2>2, TypeArrive DEF IInv, TypeOK
<1>4. UnitSound(unit') /\ Members(unit', power', pmInitialized')
  BY <1>1, UntouchedSound DEF IInv
<1>6. sleptPending' = sleptPending
  BY <1>1, <1>2 DEF Recorded, IInv, Starting, TypeOK
<1>7. OffStage' /\ Starting' /\ Excluded'
  BY <1>1, <1>2, <1>6 DEF IInv, OffStage, Starting, Excluded
<1>8. power' /\ ~sleptPending' => MappedOnline(unit'.host)
  BY <1>1, <1>6 DEF IInv, Awake
<1>9. AsleepLetsGo' /\ PendingIsPolled' /\ AnswerIsComing' /\ IdentityFirst' /\ ProbesMeetLiveBus'
  BY <1>1, <1>2, <1>6 DEF IInv, AsleepLetsGo, PendingIsPolled, AnswerIsComing,
     IdentityFirst, ProbesMeetLiveBus, Running
<1> QED BY <1>1, <1>3, <1>4, <1>7, <1>8, <1>9, Arrive

LEMMA SleptSame ==
  ASSUME TypeOK, Recorded, phase' = "Running", ~startupPending \/ power' \/ sleptPending
  PROVE  sleptPending' = sleptPending
BY DEF TypeOK, Recorded

\* A controller in another state of its power, its memory or its clock.
SameController(c, d) ==
    /\ d \in Controller
    /\ d.phase = c.phase /\ d.client = c.client /\ d.online = c.online
    /\ d.pending = c.pending /\ d.vote = c.vote /\ d.acpi = c.acpi
    /\ d.memChanged = c.memChanged

LEMMA SameSound ==
  ASSUME NEW kind, NEW c, Sound(kind, c), NEW d, SameController(c, d)
  PROVE  Sound(kind, d)
BY DEF Sound, SameController

\* The world turns while the service waits.
LEMMA WorldTurns ==
  ASSUME IInv, TypeOK', Recorded, bus' = bus,
         phase' = phase, power' = power, startupPending' = startupPending,
         startupFailed' = startupFailed, resumePending' = resumePending,
         pmInitialized' = pmInitialized, identityPending' = identityPending,
         timer' = timer, ackOwed' = ackOwed,
         unit'.manager = unit.manager, unit'.authorized = unit.authorized,
         unit'.detected = unit.detected, unit'.touched \in {unit.touched, "No"},
         unit'.host.kind = unit.host.kind, unit'.host.resetLine = unit.host.resetLine,
         unit'.host.resumeSlot = unit.host.resumeSlot,
         \A s \in Slots : SameController(unit.host.slot[s], unit'.host.slot[s])
  PROVE  IInv'
<1> DEFINE h == unit.host
           g == unit'.host
<1>1. /\ \A s \in Slots : /\ g.slot[s].phase = h.slot[s].phase
                          /\ g.slot[s].online = h.slot[s].online
                          /\ g.slot[s].vote = h.slot[s].vote
                          /\ g.slot[s].pending = h.slot[s].pending
      /\ g.kind = h.kind /\ g.resetLine = h.resetLine /\ g.resumeSlot = h.resumeSlot
  BY DEF SameController
<1>2. Bound(g) <=> Bound(h)
  BY <1>1 DEF Bound
<1>3. AllOnline(g) <=> AllOnline(h)
  BY <1>1 DEF AllOnline
<1>4. unit' \in Unit /\ g \in Host
  BY DEF TypeOK, Unit
<1>5. HostSound(g)
  <2>1. HostSound(h)
    BY DEF IInv
  <2>2. \A s \in Slots : Sound(g.kind, g.slot[s])
    BY <1>1, <2>1, SameSound DEF HostSound
  <2>3. AllOrNone(g) /\ \A s \in Slots : s < g.resumeSlot => g.slot[s].online
    BY <1>1, <2>1 DEF HostSound, AllOrNone
  <2> QED BY <1>4, <2>2, <2>3 DEF HostSound
<1>6. OnItsBus(g)
  BY <1>1, <1>2 DEF IInv, OnItsBus
<1>7. Live(unit') <=> Live(unit)
  BY <1>3 DEF Live
<1>8. Members(unit', power', pmInitialized')
  BY <1>1, <1>2, <1>7 DEF IInv, Members
<1>9. sleptPending' = sleptPending
  <2>1. CASE phase = "Running"
    BY <2>1, SleptSame DEF IInv, Starting
  <2>2. CASE phase # "Running"
    BY <2>2 DEF IInv, OffStage, Recorded, TypeOK
  <2> QED BY <2>1, <2>2
<1>10. OffStage' /\ Starting' /\ Excluded'
  BY <1>2, <1>9 DEF IInv, OffStage, Starting, Excluded
<1>11. power' /\ ~sleptPending' => MappedOnline(unit'.host)
  BY <1>1, <1>9 DEF IInv, Awake, MappedOnline
<1>12. AsleepLetsGo'
  BY <1>1 DEF IInv, AsleepLetsGo, Running
<1>13. PendingIsPolled' /\ AnswerIsComing' /\ IdentityFirst' /\ ProbesMeetLiveBus'
  BY <1>9 DEF IInv, PendingIsPolled, AnswerIsComing, IdentityFirst, ProbesMeetLiveBus, Running
<1> HIDE DEF h, g
<1> QED BY <1>4, <1>5, <1>6, <1>8, <1>10, <1>11, <1>12, <1>13, Arrive DEF UnitSound, h, g

LEMMA FlagsKept ==
  ASSUME TypeOK, UNCHANGED <<control, clock, system, identityKnown>>
  PROVE  Flags' /\ phase' = phase /\ power' = power /\ startupPending' = startupPending
         /\ startupFailed' = startupFailed /\ resumePending' = resumePending
         /\ pmInitialized' = pmInitialized /\ identityPending' = identityPending
         /\ timer' = timer /\ ackOwed' = ackOwed
BY FlagsType DEF Flags, control, clock, system

LEMMA ControllerSame ==
  ASSUME NEW c \in Controller
  PROVE  SameController(c, c)
BY DEF SameController

LEMMA UnitControllers ==
  ASSUME TypeOK
  PROVE  unit \in Unit /\ unit.host \in Host /\ \A s \in Slots : unit.host.slot[s] \in Controller
BY DEF TypeOK, Unit, Host

LEMMA PublishIdentityInv ==
  ASSUME IInv, PublishIdentity, UNCHANGED <<unit, control, clock, system, bus, interpreter>>,
         Recorded
  PROVE  IInv'
<1>1. identityKnown' = TRUE
  BY DEF PublishIdentity
<1>2. Flags'
  BY <1>1, FlagsType DEF IInv, Flags, control, clock, system
<1>3. TypeOK'
  BY <1>2, TypeArrive DEF IInv, TypeOK
<1> QED BY <1>3, WorldTurns, ControllerSame, UnitControllers DEF IInv, control, clock, system

LEMMA InterpreterInv ==
  ASSUME IInv, Interpreter, UNCHANGED <<unit, control, clock, system, bus, identityKnown>>,
         Recorded
  PROVE  IInv'
<1>1. interpreter' \in {"CallbackNotReached", "Ready", "Published", "Failed"}
  BY DEF Interpreter
<1>2. Flags'
  BY FlagsKept DEF IInv
<1>3. found' \in [Slots -> BOOLEAN] /\ sleptPending' \in BOOLEAN
  BY RecordedType DEF IInv
<1>4. TypeOK'
  <2>1. bus \in Buses /\ unit \in Unit
    BY DEF IInv, TypeOK
  <2> QED BY <1>1, <1>2, <1>3, <2>1 DEF TypeOK, Flags
<1> QED BY <1>4, WorldTurns, ControllerSame, UnitControllers DEF IInv, control, clock, system

LEMMA PowerManagerInv ==
  ASSUME IInv, PowerManager, UNCHANGED <<control, clock, system, world>>, Recorded
  PROVE  IInv'
<1>0. bus' = bus /\ interpreter' = interpreter /\ identityKnown' = identityKnown
  BY DEF world
<1>a. PICK s \in Slots :
        \E d : /\ \/ d \in Granted(unit.host.slot[s]) \/ d = Dropped(unit.host.slot[s])
                  \/ d = [unit.host.slot[s] EXCEPT !.d0 = ~@]
               /\ unit' = [Untouched EXCEPT !.host.slot[s] = d]
  BY ZenonT(60) DEF PowerManager
<1>1. PICK d :
        /\ \/ d \in Granted(unit.host.slot[s]) \/ d = Dropped(unit.host.slot[s])
           \/ d = [unit.host.slot[s] EXCEPT !.d0 = ~@]
        /\ unit' = [Untouched EXCEPT !.host.slot[s] = d]
  BY <1>a
<1> DEFINE c == unit.host.slot[s]
           h == [unit.host EXCEPT !.slot[s] = d]
<1>2. /\ unit \in Unit /\ unit.host \in Host /\ c \in Controller
      /\ \A t \in Slots : unit.host.slot[t] \in Controller
  BY UnitControllers DEF IInv
<1>3. SameController(c, d)
  <2>1. CASE d \in Granted(c)
    <3>1. PICK x \in {c.d0, TRUE} : d = [c EXCEPT !.granted = TRUE, !.d0 = x]
      BY <2>1 DEF Granted
    <3>2. x \in BOOLEAN
      BY <1>2 DEF Controller
    <3> QED BY <1>2, <3>1, <3>2 DEF SameController, Controller
  <2>2. CASE d = Dropped(c)
    BY ZenonT(60), <1>2, <2>2 DEF SameController, Controller, Dropped
  <2>3. CASE d = [c EXCEPT !.d0 = ~@]
    BY ZenonT(60), <1>2, <2>3 DEF SameController, Controller
  <2> QED BY <1>1, <2>1, <2>2, <2>3
<1>4. d \in Controller
  BY <1>3 DEF SameController
<1>5. /\ h \in Host /\ h.kind = unit.host.kind /\ h.resetLine = unit.host.resetLine
      /\ h.resumeSlot = unit.host.resumeSlot
      /\ \A t \in Slots : h.slot[t] = IF t = s THEN d ELSE unit.host.slot[t]
  BY <1>2, <1>4 DEF Host
<1>6. unit' = [unit EXCEPT !.touched = "No", !.host = h]
  BY <1>1, <1>2 DEF Untouched, Unit
<1> HIDE DEF h
<1>7. /\ unit' \in Unit /\ unit'.host = h
      /\ unit'.manager = unit.manager /\ unit'.authorized = unit.authorized
      /\ unit'.detected = unit.detected /\ unit'.touched = "No"
  BY <1>2, <1>5, <1>6 DEF Unit
<1>8. \A t \in Slots : SameController(unit.host.slot[t], unit'.host.slot[t])
  BY <1>2, <1>3, <1>5, <1>7, ControllerSame
<1>9. Flags'
  BY <1>0, FlagsKept DEF IInv
<1>10. TypeOK'
  BY <1>0, <1>7, <1>9, TypeArrive DEF IInv
<1> QED BY <1>0, <1>5, <1>7, <1>8, <1>10, WorldTurns, FlagsKept DEF IInv

LEMMA TickControllerSame ==
  ASSUME NEW c \in Controller
  PROVE  SameController(c, TickController(c))
<1> DEFINE waited == IF c.pending /\ c.waited < PowerDeadline THEN c.waited + 1 ELSE c.waited
           acpi == IF c.acpiWaited \in 0 .. InterpreterDeadline - 1
                   THEN c.acpiWaited + 1 ELSE c.acpiWaited
<1>1. c.waited \in 0 .. PowerDeadline /\ c.acpiWaited \in -1 .. InterpreterDeadline
  BY DEF Controller
<1>2. waited \in 0 .. PowerDeadline
  BY <1>1, DeadlinesAssumption
<1>3. acpi \in -1 .. InterpreterDeadline
  BY <1>1, DeadlinesAssumption
<1>4. TickController(c) = [c EXCEPT !.waited = waited, !.acpiWaited = acpi]
  BY DEF TickController
<1> HIDE DEF waited, acpi
<1> QED BY <1>2, <1>3, <1>4 DEF SameController, Controller

LEMMA TickInv ==
  ASSUME IInv, Tick, UNCHANGED world, Recorded
  PROVE  IInv'
<1>0. bus' = bus /\ interpreter' = interpreter /\ identityKnown' = identityKnown
  BY DEF world
<1>1. /\ phase' = phase /\ power' = power /\ startupPending' = startupPending
      /\ startupFailed' = startupFailed /\ resumePending' = resumePending
      /\ pmInitialized' = pmInitialized /\ identityPending' = identityPending
      /\ timer' = timer /\ level' = level /\ ackOwed' = ackOwed /\ due' = timer
  BY DEF Tick
<1>2. Flags
  BY FlagsType DEF IInv
<1>3. identityWaited' \in 0 .. IdentityDeadline
  <2>1. identityWaited \in 0 .. IdentityDeadline /\ IdentityDeadline \in Nat
    BY <1>2 DEF Flags, IdentityDeadline
  <2>2. identityWaited' \in {identityWaited, identityWaited + 1}
        /\ (identityWaited' = identityWaited + 1 => identityWaited < IdentityDeadline)
    BY <2>1 DEF Tick, IdentityDeadline
  <2> QED BY <2>1, <2>2
<1>4. ackWaited' \in 0 .. AckDeadline
  <2>1. ackWaited \in 0 .. AckDeadline /\ AckDeadline \in Nat
    BY <1>2, PowerAssumption DEF Flags
  <2>2. ackWaited' \in {ackWaited, ackWaited + 1}
        /\ (ackWaited' = ackWaited + 1 => ackWaited < AckDeadline)
    BY <2>1 DEF Tick
  <2> QED BY <2>1, <2>2
<1>5. Flags'
  BY <1>0, <1>1, <1>2, <1>3, <1>4 DEF Flags
<1> DEFINE slot == [s \in Slots |-> TickController(unit.host.slot[s])]
           h == [unit.host EXCEPT !.slot = slot]
<1>6. /\ unit \in Unit /\ unit.host \in Host
      /\ \A s \in Slots : unit.host.slot[s] \in Controller
  BY UnitControllers DEF IInv
<1>7. \A s \in Slots : SameController(unit.host.slot[s], slot[s])
  BY <1>6, TickControllerSame
<1>8. slot \in [Slots -> Controller]
  BY <1>7 DEF SameController
<1>9. unit' = [unit EXCEPT !.host = h]
  BY <1>6 DEF Tick, Unit
<1> HIDE DEF slot
<1>10. /\ h \in Host /\ h.kind = unit.host.kind /\ h.resetLine = unit.host.resetLine
       /\ h.resumeSlot = unit.host.resumeSlot /\ h.slot = slot
  BY <1>6, <1>8 DEF Host
<1> HIDE DEF h
<1>11. /\ unit' \in Unit /\ unit'.host = h
       /\ unit'.manager = unit.manager /\ unit'.authorized = unit.authorized
       /\ unit'.detected = unit.detected /\ unit'.touched = unit.touched
  BY <1>6, <1>9, <1>10 DEF Unit
<1>12. TypeOK'
  BY <1>0, <1>5, <1>11, TypeArrive DEF IInv
<1> QED BY <1>0, <1>1, <1>7, <1>10, <1>11, <1>12, WorldTurns

LEMMA MonitorInv ==
  ASSUME IInv, Monitor, UNCHANGED world, Recorded
  PROVE  IInv'
<1>0. /\ bus' = bus /\ interpreter' = interpreter /\ identityKnown' = identityKnown
      /\ phase' = phase /\ power' = power /\ startupPending' = startupPending
      /\ startupFailed' = startupFailed /\ resumePending' = resumePending
      /\ pmInitialized' = pmInitialized /\ identityPending' = identityPending
      /\ identityWaited' = identityWaited /\ level' = level /\ ackOwed' = ackOwed
      /\ ackWaited' = ackWaited
  BY DEF Monitor, control, system, world
<1>1. /\ phase = "Running" /\ timer /\ power /\ ~startupFailed /\ ~startupPending
      /\ ~resumePending /\ ~identityPending
  BY DEF Monitor, TimerFires
<1>2. /\ UnitSound(unit) /\ UnitSound(Untouched)
      /\ Untouched.host = unit.host /\ Untouched.authorized = unit.authorized
      /\ Untouched.detected = unit.detected /\ Untouched.manager = unit.manager
      /\ Untouched.touched = "No" /\ Members(unit, power, pmInitialized)
      /\ Members(Untouched, power, pmInitialized)
  BY UntouchedSound DEF IInv
<1>3. /\ UnitSound(unit') /\ Members(unit', power', pmInitialized')
      /\ unit'.host = unit.host /\ unit'.touched # "Dead"
      /\ timer' \in BOOLEAN /\ due' = FALSE
      /\ unit'.manager = "Waiting" => timer'
  <2>1. CASE /\ unit.manager \in {"Ready", "Playing", "Waiting"}
             /\ timer' \in BOOLEAN /\ due' = FALSE
             /\ \E m \in {"Ready", "Faulted"} \cup
                           (IF unit.manager = "Waiting" THEN {"Waiting"} ELSE {"Playing"}) :
                   /\ unit' = [Touch(unit) EXCEPT !.manager = m]
                   /\ m = "Waiting" => timer'
    <3>1. PICK m \in {"Ready", "Faulted", "Waiting", "Playing"} :
             /\ unit' = [Touch(unit) EXCEPT !.manager = m]
             /\ m = "Waiting" => timer'
      BY <2>1
    <3>2. Live(unit) /\ unit.host.resetLine # "Held" /\ (bus = "I2C" \/ Bound(unit.host))
      BY <1>2, <2>1 DEF Members, RunningManagers
    <3>3. m \in Managers
      BY DEF Managers
    <3> DEFINE t == Touch(unit)
    <3>4. /\ UnitSound(t) /\ t.host = unit.host /\ t.manager = unit.manager
          /\ t.authorized = unit.authorized /\ t.detected = unit.detected
          /\ t.touched = "Live"
      BY <1>2, <3>2, TouchSound
    <3> HIDE DEF t
    <3>5. /\ UnitSound(unit') /\ unit'.host = t.host /\ SameService(t, unit')
          /\ unit'.manager = m /\ unit'.authorized = t.authorized
      BY <3>1, <3>3, <3>4, ManagerUpdate DEF t
    <3>6. Live(unit')
      BY <3>2, <3>4, <3>5 DEF Live
    <3>7. Members(unit', power', pmInitialized')
      BY <1>0, <1>1, <1>2, <3>2, <3>4, <3>5, <3>6 DEF Members, SameService
    <3> QED BY <2>1, <3>1, <3>4, <3>5, <3>7 DEF SameService
  <2>2. CASE /\ unit.manager \in {"Unbound", "Suspended", "Faulted"}
             /\ unit' = Untouched /\ SetTimer(FALSE)
    BY <1>0, <1>2, <2>2 DEF SetTimer
  <2> QED BY <2>1, <2>2 DEF Monitor
<1>4. Flags'
  <2>1. Flags
    BY FlagsType DEF IInv
  <2> QED BY <1>0, <1>3, <2>1 DEF Flags
<1>5. TypeOK'
  BY <1>0, <1>3, <1>4, TypeArrive DEF IInv, UnitSound
<1>6. sleptPending' = sleptPending
  BY <1>0, <1>1, SleptSame DEF IInv
<1>7. OffStage' /\ Starting' /\ Excluded'
  BY <1>0, <1>1 DEF OffStage, Starting, Excluded
<1>8. power' /\ ~sleptPending' => MappedOnline(unit'.host)
  BY <1>0, <1>3, <1>6 DEF IInv, Awake
<1>9. AsleepLetsGo' /\ PendingIsPolled' /\ AnswerIsComing' /\ IdentityFirst' /\ ProbesMeetLiveBus'
  BY <1>0, <1>1, <1>3 DEF IInv, AsleepLetsGo, PendingIsPolled, AnswerIsComing,
     IdentityFirst, ProbesMeetLiveBus, Running
<1> QED BY <1>0, <1>3, <1>5, <1>7, <1>8, <1>9, Arrive

LEMMA SleepInv ==
  ASSUME IInv, Sleep, UNCHANGED world, Recorded
  PROVE  IInv'
<1>0. /\ bus' = bus /\ interpreter' = interpreter /\ identityKnown' = identityKnown
      /\ phase' = phase /\ startupPending' = startupPending
      /\ startupFailed' = startupFailed /\ pmInitialized' = pmInitialized
      /\ identityPending' = identityPending /\ identityWaited' = identityWaited
      /\ ackOwed' = ackOwed /\ ackWaited' = ackWaited
  BY DEF Sleep, world
<1>1. phase = "Running" /\ pmInitialized /\ ~ackOwed /\ level' = 0
  BY DEF Sleep, SystemAsks
<1>2. Flags
  BY FlagsType DEF IInv
<1>3. CASE power \/ resumePending
  <2>1. /\ unit' \in PowerDown(Untouched) /\ power' = FALSE /\ resumePending' = FALSE
        /\ timer' = FALSE /\ due' = FALSE
    BY <1>3 DEF Sleep, SetTimer
  <2>2. /\ UnitSound(Untouched) /\ Untouched.touched = "No"
        /\ Untouched.host = unit.host /\ Untouched.authorized = unit.authorized
        /\ Untouched.detected = unit.detected /\ Untouched.manager = unit.manager
        /\ Members(unit, power, pmInitialized)
    BY UntouchedSound DEF IInv
  <2>3. /\ UnitSound(unit') /\ unit'.touched = "No" /\ unit'.detected = unit.detected
        /\ unit'.authorized = unit.authorized
        /\ unit'.manager \in {"Unbound", "Suspended", "Faulted"}
        /\ unit'.manager = "Suspended" => unit.manager \in {"Ready", "Playing"}
        /\ unit.manager = "Unbound" => unit'.manager = "Unbound"
        /\ Off(unit'.host) /\ unit'.host.resetLine = unit.host.resetLine
        /\ Bound(unit'.host) <=> Bound(unit.host)
    BY <2>1, <2>2, PowerDownSound DEF SameService
  <2>4. Flags'
    BY <1>0, <1>1, <1>2, <2>1 DEF Flags
  <2>5. TypeOK'
    BY <1>0, <2>3, <2>4, TypeArrive DEF IInv, UnitSound
  <2>6. Members(unit', power', pmInitialized')
    BY <1>0, <2>2, <2>3 DEF Members, RunningManagers
  <2>7. startupPending => sleptPending'
    BY <1>0, <1>1, <2>1 DEF Recorded
  <2>8. OffStage' /\ Starting' /\ Excluded'
    BY <1>0, <1>1, <2>1, <2>3, <2>7 DEF IInv, OffStage, Starting, Excluded
  <2>9. AsleepLetsGo' /\ PendingIsPolled' /\ AnswerIsComing' /\ IdentityFirst' /\ ProbesMeetLiveBus'
    BY <1>0, <1>1, <2>1, <2>3 DEF IInv, AsleepLetsGo, PendingIsPolled, AnswerIsComing,
       IdentityFirst, ProbesMeetLiveBus, Running, Off
  <2> QED BY <1>0, <2>1, <2>3, <2>5, <2>6, <2>8, <2>9, Arrive
<1>4. CASE ~(power \/ resumePending)
  <2>1. /\ unit' = unit /\ power' = power /\ resumePending' = resumePending
        /\ timer' = timer /\ due' = due
    BY <1>4 DEF Sleep, clock
  <2>2. Flags'
    BY <1>0, <1>1, <1>2, <2>1 DEF Flags
  <2>3. TypeOK'
    BY <1>0, <2>1, <2>2, TypeArrive DEF IInv, TypeOK
  <2> QED BY <1>0, <2>1, <2>3, WorldTurns, ControllerSame, UnitControllers DEF IInv
<1> QED BY <1>3, <1>4

LEMMA WakeInv ==
  ASSUME IInv, Wake, UNCHANGED world, Recorded
  PROVE  IInv'
<1>0. /\ bus' = bus /\ interpreter' = interpreter /\ identityKnown' = identityKnown
      /\ phase' = phase /\ startupPending' = startupPending
      /\ startupFailed' = startupFailed /\ pmInitialized' = pmInitialized
      /\ identityPending' = identityPending /\ identityWaited' = identityWaited
      /\ ackWaited' = ackWaited
  BY DEF Wake, world
<1>1. phase = "Running" /\ pmInitialized /\ ~ackOwed /\ level' = 1
  BY DEF Wake, SystemAsks
<1>2. Flags
  BY FlagsType DEF IInv
<1>3. CASE power /\ UNCHANGED <<unit, power, resumePending, clock, ackOwed>>
  <2>1. /\ unit' = unit /\ power' = power /\ resumePending' = resumePending
        /\ timer' = timer /\ due' = due /\ ackOwed' = ackOwed
    BY <1>3 DEF clock
  <2>2. Flags'
    BY <1>0, <1>1, <1>2, <2>1 DEF Flags
  <2>3. TypeOK'
    BY <1>0, <2>1, <2>2, TypeArrive DEF IInv, TypeOK
  <2> QED BY <1>0, <2>1, <2>3, WorldTurns, ControllerSame, UnitControllers DEF IInv
<1>4. CASE /\ ~power /\ startupPending
           /\ power' = TRUE /\ SetTimer(TRUE)
           /\ UNCHANGED <<unit, resumePending, ackOwed>>
  <2>1. /\ unit' = unit /\ power' = TRUE /\ resumePending' = resumePending
        /\ timer' = TRUE /\ due' = FALSE /\ ackOwed' = ackOwed
    BY <1>4 DEF SetTimer
  <2>2. Flags'
    BY <1>0, <1>1, <1>2, <2>1 DEF Flags
  <2>3. TypeOK'
    BY <1>0, <2>1, <2>2, TypeArrive DEF IInv, TypeOK
  <2>4. sleptPending /\ sleptPending' = TRUE /\ ~resumePending
    BY <1>0, <1>1, <1>4, SleptSame DEF IInv, Starting
  <2>5. UnitSound(unit') /\ Members(unit', power', pmInitialized')
    BY <1>0, <1>4, <2>1, UntouchedSound DEF IInv, Members
  <2>6. OffStage' /\ Starting' /\ Excluded'
    BY <1>0, <1>1, <1>4, <2>1, <2>4 DEF IInv, OffStage, Starting, Excluded
  <2>7. AsleepLetsGo' /\ PendingIsPolled' /\ AnswerIsComing' /\ IdentityFirst' /\ ProbesMeetLiveBus'
    BY <1>0, <1>1, <2>1, <2>4 DEF IInv, AsleepLetsGo, PendingIsPolled, AnswerIsComing,
       IdentityFirst, ProbesMeetLiveBus, Running
  <2> QED BY <1>0, <2>3, <2>4, <2>5, <2>6, <2>7, Arrive
<1>5. CASE /\ ~power /\ ~startupPending
           /\ \E w \in PowerUp(Untouched) :
                /\ unit' = w.u
                /\ power' = (w.bus = "Ready")
                /\ resumePending' = (w.bus = "Pending")
                /\ ackOwed' = (w.bus = "Pending")
                /\ IF w.bus = "Failed" THEN UNCHANGED clock ELSE SetTimer(TRUE)
  <2>1. PICK w \in PowerUp(Untouched) :
          /\ unit' = w.u
          /\ power' = (w.bus = "Ready")
          /\ resumePending' = (w.bus = "Pending")
          /\ ackOwed' = (w.bus = "Pending")
          /\ w.bus = "Failed" => timer' = timer /\ due' = due
          /\ w.bus # "Failed" => timer' = TRUE /\ due' = FALSE
    BY <1>5 DEF SetTimer, clock
  <2>2. /\ UnitSound(Untouched) /\ Untouched.touched = "No"
        /\ Untouched.host = unit.host /\ Untouched.detected = unit.detected
        /\ Untouched.manager = unit.manager /\ Members(Untouched, FALSE, TRUE)
    BY <1>1, <1>5, UntouchedSound DEF IInv, Members
  <2>3. /\ UnitSound(w.u) /\ w.u.detected = unit.detected /\ w.u.touched # "Dead"
        /\ Bound(w.u.host) <=> Bound(unit.host)
        /\ w.bus \in {"Ready", "Pending", "Failed"}
        /\ w.bus = "Ready" => Members(w.u, TRUE, TRUE) /\ MappedOnline(w.u.host)
        /\ w.bus # "Ready" => Members(w.u, FALSE, TRUE) /\ w.u.manager = unit.manager
        /\ unit.manager = "Unbound" /\ ~unit.detected => w.u.manager = "Unbound"
        /\ w.bus = "Pending" => Bound(w.u.host)
        /\ w.bus = "Failed" => Off(w.u.host)
    BY ZenonT(60), <2>1, <2>2, PowerUpSound
  <2>4. Flags'
    BY <1>0, <1>1, <1>2, <2>1, <2>3 DEF Flags
  <2>5. TypeOK'
    BY <1>0, <2>1, <2>3, <2>4, TypeArrive DEF IInv, UnitSound
  <2>6. UnitSound(unit') /\ Members(unit', power', pmInitialized')
    BY <1>0, <1>1, <2>1, <2>3 DEF Members
  <2>7. OffStage' /\ Starting' /\ Excluded'
    BY <1>0, <1>1, <1>5, <2>1, <2>3 DEF IInv, OffStage, Starting, Excluded
  <2>8. power' => MappedOnline(unit'.host)
    BY <2>1, <2>3
  <2>9. AsleepLetsGo'
    BY <2>1, <2>3 DEF AsleepLetsGo, Off
  <2>10. PendingIsPolled' /\ AnswerIsComing' /\ IdentityFirst' /\ ProbesMeetLiveBus'
    BY <1>0, <1>1, <1>5, <2>1, <2>3 DEF IInv, PendingIsPolled, AnswerIsComing,
       IdentityFirst, ProbesMeetLiveBus, Running
  <2> QED BY <1>0, <2>5, <2>6, <2>7, <2>8, <2>9, <2>10, Arrive
<1> QED BY <1>3, <1>4, <1>5 DEF Wake

LEMMA ContinueResumeInv ==
  ASSUME IInv, ContinueResume, UNCHANGED world, Recorded
  PROVE  IInv'
<1>0. /\ bus' = bus /\ interpreter' = interpreter /\ identityKnown' = identityKnown
      /\ phase' = phase /\ startupPending' = startupPending
      /\ startupFailed' = startupFailed /\ pmInitialized' = pmInitialized
      /\ identityPending' = identityPending /\ identityWaited' = identityWaited
      /\ level' = level
  BY DEF ContinueResume, world
<1>1. /\ phase = "Running" /\ ~startupFailed /\ ~startupPending /\ resumePending
      /\ ~power /\ pmInitialized
  BY DEF ContinueResume, TimerFires, IInv, Excluded
<1>2. Flags
  BY FlagsType DEF IInv
<1>3. PICK w \in PowerUp(Untouched) :
        /\ unit' = w.u
        /\ resumePending' = (w.bus = "Pending")
        /\ power' = (w.bus = "Ready")
        /\ ackOwed' = (ackOwed /\ w.bus = "Pending")
        /\ ackWaited' = (IF w.bus = "Pending" THEN ackWaited ELSE 0)
        /\ timer' = (w.bus # "Failed") /\ due' = FALSE
  BY DEF ContinueResume, SetTimer
<1>4. /\ UnitSound(Untouched) /\ Untouched.touched = "No"
      /\ Untouched.host = unit.host /\ Untouched.detected = unit.detected
      /\ Untouched.manager = unit.manager /\ Members(Untouched, FALSE, TRUE)
  BY <1>1, UntouchedSound DEF IInv, Members
<1>5. /\ UnitSound(w.u) /\ w.u.detected = unit.detected /\ w.u.touched # "Dead"
      /\ w.bus \in {"Ready", "Pending", "Failed"}
      /\ w.bus = "Ready" => Members(w.u, TRUE, TRUE) /\ MappedOnline(w.u.host)
      /\ w.bus # "Ready" => Members(w.u, FALSE, TRUE) /\ w.u.manager = unit.manager
      /\ unit.manager = "Unbound" /\ ~unit.detected => w.u.manager = "Unbound"
      /\ w.bus = "Failed" => Off(w.u.host)
  BY ZenonT(60), <1>4, PowerUpSound
<1>6. Flags'
  <2>1. ackWaited' \in 0 .. AckDeadline
    <3>1. ackWaited \in 0 .. AckDeadline
      BY <1>2 DEF Flags
    <3> QED BY <1>3, <3>1, Zeroes
  <2>2. /\ resumePending' \in BOOLEAN /\ power' \in BOOLEAN /\ ackOwed' \in BOOLEAN
        /\ timer' \in BOOLEAN /\ due' \in BOOLEAN
    BY <1>2, <1>3 DEF Flags
  <2> QED BY <1>0, <1>2, <2>1, <2>2 DEF Flags
<1>7. TypeOK'
  BY <1>0, <1>3, <1>5, <1>6, TypeArrive DEF IInv, UnitSound
<1>8. UnitSound(unit') /\ Members(unit', power', pmInitialized')
  BY <1>0, <1>1, <1>3, <1>5 DEF Members
<1>9. OffStage' /\ Starting' /\ Excluded'
  BY <1>0, <1>1, <1>3, <1>5 DEF OffStage, Starting, Excluded
<1>10. power' => MappedOnline(unit'.host)
  BY <1>3, <1>5
<1>11. AsleepLetsGo'
  BY <1>3, <1>5 DEF AsleepLetsGo, Off
<1>12. PendingIsPolled' /\ AnswerIsComing' /\ IdentityFirst' /\ ProbesMeetLiveBus'
  BY <1>0, <1>1, <1>3, <1>5 DEF IInv, PendingIsPolled, AnswerIsComing,
     IdentityFirst, ProbesMeetLiveBus, Running
<1> QED BY <1>0, <1>7, <1>8, <1>9, <1>10, <1>11, <1>12, Arrive

\* The end of a service, whatever state its devices were left in.
LEMMA EndedInv ==
  ASSUME TypeOK, UNCHANGED world, Recorded, Ended, ~ackOwed', ackOwed' \in BOOLEAN,
         ackWaited' \in 0 .. AckDeadline,
         NEW d, UnitSound(d), d.touched # "Dead",
         d.authorized /\ d.detected => d.host.resetLine # "Held",
         unit' = TeardownCommunication(d)
  PROVE  IInv'
<1>0. bus' = bus /\ interpreter' = interpreter /\ identityKnown' = identityKnown
  BY DEF world
<1>1. /\ phase' = "Stopped" /\ power' = TRUE /\ startupPending' = FALSE
      /\ startupFailed' = FALSE /\ resumePending' = FALSE
      /\ pmInitialized' = FALSE /\ identityPending' = FALSE
      /\ identityWaited' = 0 /\ level' = 1 /\ timer' = FALSE /\ due' = FALSE
  BY DEF Ended, SetTimer
<1>2. /\ UnitSound(unit') /\ SameService(d, unit') /\ unit'.authorized = d.authorized
      /\ unit'.manager = "Unbound" /\ ~Bound(unit'.host)
      /\ unit'.host.resetLine = d.host.resetLine
  BY TeardownSound
<1>3. Flags
  BY FlagsType
<1>4. Flags'
  BY <1>0, <1>1, <1>3, Zeroes DEF Flags
<1>5. TypeOK'
  BY <1>0, <1>2, <1>4, TypeArrive DEF UnitSound
<1>6. Members(unit', power', pmInitialized')
  BY <1>1, <1>2 DEF Members, RunningManagers, SameService
<1>7. sleptPending' = FALSE
  BY <1>1 DEF Recorded
<1>8. OffStage' /\ Starting' /\ Excluded'
  BY <1>1, <1>2, <1>7 DEF OffStage, Starting, Excluded
<1>9. MappedOnline(unit'.host)
  BY <1>2, UnboundSlots DEF UnitSound
<1>10. AsleepLetsGo' /\ PendingIsPolled' /\ AnswerIsComing' /\ IdentityFirst' /\ ProbesMeetLiveBus'
  BY <1>1, <1>2 DEF AsleepLetsGo, PendingIsPolled, AnswerIsComing,
     IdentityFirst, ProbesMeetLiveBus, Running, SameService
<1> QED BY <1>0, <1>2, <1>5, <1>6, <1>8, <1>9, <1>10, Arrive

LEMMA StopInv ==
  ASSUME IInv, Stop, UNCHANGED world, Recorded
  PROVE  IInv'
<1>1. PICK d \in (IF power \/ resumePending THEN PowerDown(Untouched) ELSE {Untouched}) :
        unit' = TeardownCommunication(d)
  BY DEF Stop
<1>2. ackOwed' = (ackOwed /\ ~resumePending) /\ ackWaited' = 0 /\ Ended
  BY DEF Stop
<1>3. ~ackOwed' /\ ackOwed' \in BOOLEAN
  BY <1>2 DEF IInv, AnswerIsComing
<1>4. /\ UnitSound(Untouched) /\ Untouched.touched = "No"
      /\ Members(Untouched, power, pmInitialized)
  BY UntouchedSound DEF IInv
<1>5. /\ UnitSound(d) /\ d.touched # "Dead"
      /\ d.authorized /\ d.detected => d.host.resetLine # "Held"
  <2>1. Untouched.authorized /\ Untouched.detected => Untouched.host.resetLine # "Held"
    BY <1>4 DEF Members
  <2>2. CASE d \in PowerDown(Untouched)
    BY <1>4, <2>1, <2>2, PowerDownSound DEF SameService
  <2>3. CASE d = Untouched
    BY <1>4, <2>1, <2>3
  <2> QED BY <1>1, <2>2, <2>3
<1> QED BY <1>1, <1>2, <1>3, <1>5, Zeroes, EndedInv DEF IInv

LEMMA ProfileSound ==
  ASSUME TypeOK, NEW u, UnitSound(u), NEW r \in ResolvePlatformProfile(u)
  PROVE  /\ UnitSound(r) /\ r.host = u.host /\ r.manager = u.manager
         /\ r.detected = u.detected /\ r.touched = u.touched
<1>1. PICK a \in BOOLEAN : r = [u EXCEPT !.known = identityKnown, !.authorized = a]
  BY DEF ResolvePlatformProfile
<1>2. identityKnown \in BOOLEAN
  BY FlagsType DEF Flags
<1> QED BY <1>1, <1>2 DEF UnitSound, Unit

\* A unit whose bus is about to be set up for a start.
Prepared(u) ==
    /\ UnitSound(u) /\ u.manager = "Unbound" /\ ~u.detected /\ u.touched # "Dead"
    /\ ~sleptPending => MappedOnline(u.host)

LEMMA PreparedSetup ==
  ASSUME NEW u, Prepared(u), NEW o \in SetupCommunication(u)
  PROVE  /\ Prepared(o.u) /\ o.u.known = u.known
         /\ o.ok /\ (~HostPending(o.u.host) \/ (Bound(u.host) /\ AllMapped(u.host)))
               => bus = "I2C" \/ (Bound(o.u.host) /\ AllMapped(o.u.host))
<1>1. /\ Attached(u, o.u)
      /\ o.ok /\ (~HostPending(o.u.host) \/ (Bound(u.host) /\ AllMapped(u.host)))
            => bus = "I2C" \/ (Bound(o.u.host) /\ AllMapped(o.u.host))
  BY SetupSound DEF Prepared
<1> QED BY <1>1 DEF Prepared, Attached, SameService

\* A start that pends: nothing of the amplifiers is known yet.
LEMMA PendsInv ==
  ASSUME IInv, UNCHANGED <<world, power, pmInitialized>>, Recorded, Flags', power,
         phase' = "Running", phase = "Running" \/ ~sleptPending,
         startupPending', ~startupFailed', ~resumePending', ~identityPending',
         timer', ~ackOwed', Prepared(unit'), Bound(unit'.host)
  PROVE  IInv'
<1>0. bus' = bus /\ interpreter' = interpreter /\ power' = TRUE /\ pmInitialized' = pmInitialized
  BY DEF world, IInv, TypeOK
<1>1. TypeOK'
  BY <1>0, TypeArrive DEF IInv, Prepared, UnitSound
<1>2. Members(unit', power', pmInitialized')
  BY DEF Members, RunningManagers, Prepared
<1>3. sleptPending' = sleptPending
  BY <1>0, SleptSame DEF IInv
<1>4. OffStage' /\ Starting' /\ Excluded'
  BY <1>0 DEF OffStage, Starting, Excluded, Prepared
<1>5. power' /\ ~sleptPending' => MappedOnline(unit'.host)
  BY <1>3 DEF Prepared
<1>6. AsleepLetsGo' /\ PendingIsPolled' /\ AnswerIsComing' /\ IdentityFirst' /\ ProbesMeetLiveBus'
  BY <1>0 DEF AsleepLetsGo, PendingIsPolled, AnswerIsComing,
     IdentityFirst, ProbesMeetLiveBus, Running, Prepared
<1> QED BY <1>0, <1>1, <1>2, <1>4, <1>5, <1>6, Arrive DEF Prepared

\* A start that came to its end.
LEMMA SettledInv ==
  ASSUME IInv, UNCHANGED world, Recorded, phase' = "Running", power, power' = power,
         ~startupFailed, startupFailed' = startupFailed,
         ~resumePending, resumePending' = resumePending, UNCHANGED system, ~ackOwed,
         NEW u, Prepared(u), bus = "I2C" \/ (Bound(u.host) /\ AllMapped(u.host)),
         NEW f \in FinishStartup(u), f.ok, unit' = f.u, Settled(f.u)
  PROVE  IInv'
<1>0. bus' = bus /\ interpreter' = interpreter /\ identityKnown' = identityKnown /\ power' = TRUE
      /\ ackOwed' = ackOwed /\ ackWaited' = ackWaited /\ level' = level
  BY DEF world, system, IInv, TypeOK
<1>1. /\ startupPending' = FALSE /\ pmInitialized' = TRUE
      /\ identityPending' = ~(f.u.known) /\ identityWaited' = 0
      /\ timer' = TRUE /\ due' = FALSE
  BY DEF Settled, SetTimer
<1>2. Flags
  BY FlagsType DEF IInv
<1>3. /\ UnitSound(f.u) /\ f.u.known = u.known
      /\ Members(f.u, TRUE, f.ok \/ pmInitialized)
      /\ f.ok /\ ~u.known => f.u = u
      /\ MappedOnline(u.host) => MappedOnline(f.u.host) /\ f.u.touched # "Dead"
  BY <1>2, FinishStartupSound DEF Prepared, Flags
<1>4. f.u.known \in BOOLEAN
  BY <1>3 DEF UnitSound, Unit
<1>5. Flags'
  BY <1>0, <1>1, <1>2, <1>4, Zeroes DEF Flags
<1>6. TypeOK'
  BY <1>0, <1>3, <1>5, TypeArrive DEF IInv, UnitSound
<1>7. Members(unit', power', pmInitialized')
  BY <1>0, <1>1, <1>3 DEF Members
<1>8. sleptPending' = sleptPending
  BY <1>0, SleptSame DEF IInv
<1>9. OffStage' /\ Starting' /\ Excluded'
  BY <1>0, <1>1 DEF OffStage, Starting, Excluded
<1>10. ~sleptPending' => MappedOnline(unit'.host) /\ unit'.touched # "Dead"
  BY <1>3, <1>8 DEF Prepared
<1>11. identityPending' => unit'.manager = "Unbound" /\ ~unit'.detected
  BY <1>1, <1>3 DEF Prepared
<1>12. AsleepLetsGo' /\ PendingIsPolled' /\ AnswerIsComing' /\ IdentityFirst' /\ ProbesMeetLiveBus'
  BY <1>0, <1>1, <1>10, <1>11 DEF AsleepLetsGo, PendingIsPolled, AnswerIsComing,
     IdentityFirst, ProbesMeetLiveBus, Running
<1> QED BY <1>0, <1>3, <1>6, <1>7, <1>9, <1>10, <1>12, Arrive

LEMMA StartInv ==
  ASSUME IInv, Start, UNCHANGED world, Recorded
  PROVE  IInv'
<1> DEFINE base == [Untouched EXCEPT !.detected = FALSE]
<1>1. /\ phase # "Running" /\ power /\ ~startupPending /\ ~startupFailed /\ ~resumePending
      /\ ~pmInitialized /\ ~identityPending /\ ~timer /\ ~ackOwed
      /\ unit.manager = "Unbound" /\ ~Bound(unit.host) /\ ~sleptPending
  BY DEF Start, IInv, OffStage
<1>2. Flags
  BY FlagsType DEF IInv
<1>3. /\ UnitSound(Untouched) /\ Untouched.host = unit.host
      /\ Untouched.manager = "Unbound" /\ Untouched.touched = "No"
  BY <1>1, UntouchedSound
<1>4. /\ UnitSound(base) /\ base.host = unit.host /\ base.manager = "Unbound"
      /\ base.touched = "No" /\ ~base.detected
  BY <1>3, ForgottenSound DEF SameBus
<1>p. PICK r \in ResolvePlatformProfile(base) :
        \E o \in SetupCommunication(r) :
          \/ /\ o.ok /\ HostPending(o.u.host)
             /\ unit' = o.u /\ phase' = "Running"
             /\ startupPending' = TRUE /\ SetTimer(TRUE)
             /\ UNCHANGED <<power, startupFailed, resumePending, pmInitialized,
                            identityPending, identityWaited, system>>
          \/ /\ o.ok /\ ~HostPending(o.u.host)
             /\ \E f \in FinishStartup(o.u) :
                   \/ /\ f.ok /\ unit' = f.u /\ phase' = "Running"
                      /\ Settled(f.u)
                      /\ UNCHANGED <<power, startupFailed, resumePending, system>>
                   \/ /\ ~f.ok
                      /\ \E d \in PowerDown(f.u) :
                            unit' = TeardownCommunication(d)
                      /\ Ended /\ UNCHANGED <<ackOwed, ackWaited>>
          \/ /\ ~o.ok
             /\ \E d \in PowerDown(o.u) : unit' = TeardownCommunication(d)
             /\ Ended /\ UNCHANGED <<ackOwed, ackWaited>>
  BY DEF Start
<1>5. PICK o \in SetupCommunication(r) :
          \/ /\ o.ok /\ HostPending(o.u.host)
             /\ unit' = o.u /\ phase' = "Running"
             /\ startupPending' = TRUE /\ SetTimer(TRUE)
             /\ UNCHANGED <<power, startupFailed, resumePending, pmInitialized,
                            identityPending, identityWaited, system>>
          \/ /\ o.ok /\ ~HostPending(o.u.host)
             /\ \E f \in FinishStartup(o.u) :
                   \/ /\ f.ok /\ unit' = f.u /\ phase' = "Running"
                      /\ Settled(f.u)
                      /\ UNCHANGED <<power, startupFailed, resumePending, system>>
                   \/ /\ ~f.ok
                      /\ \E d \in PowerDown(f.u) :
                            unit' = TeardownCommunication(d)
                      /\ Ended /\ UNCHANGED <<ackOwed, ackWaited>>
          \/ /\ ~o.ok
             /\ \E d \in PowerDown(o.u) : unit' = TeardownCommunication(d)
             /\ Ended /\ UNCHANGED <<ackOwed, ackWaited>>
  BY <1>p
<1> HIDE DEF base
<1>6. Prepared(r)
  <2>1. MappedOnline(unit.host)
    BY <1>1, UnboundSlots DEF IInv
  <2> QED BY <1>4, <2>1, ProfileSound DEF Prepared, IInv
<1>7. /\ Prepared(o.u)
      /\ o.ok /\ ~HostPending(o.u.host) =>
            bus = "I2C" \/ (Bound(o.u.host) /\ AllMapped(o.u.host))
  BY <1>6, PreparedSetup
<1>8. CASE /\ o.ok /\ HostPending(o.u.host)
           /\ unit' = o.u /\ phase' = "Running"
           /\ startupPending' = TRUE /\ SetTimer(TRUE)
           /\ UNCHANGED <<power, startupFailed, resumePending, pmInitialized,
                          identityPending, identityWaited, system>>
  <2>1. Flags'
    BY <1>2, <1>8 DEF Flags, SetTimer, system, world
  <2>2. Bound(o.u.host)
    BY <1>7, <1>8, PendingIsBound DEF Prepared, UnitSound
  <2> QED BY <1>1, <1>7, <1>8, <2>1, <2>2, PendsInv DEF SetTimer, system
<1>9. ASSUME ~HostPending(o.u.host), o.ok, NEW f \in FinishStartup(o.u),
             f.ok, unit' = f.u, phase' = "Running", Settled(f.u),
             UNCHANGED <<power, startupFailed, resumePending, system>>
      PROVE  IInv'
  BY <1>1, <1>7, <1>9, SettledInv
<1>10. ASSUME ~HostPending(o.u.host), o.ok, NEW f \in FinishStartup(o.u), NEW d \in PowerDown(f.u),
              unit' = TeardownCommunication(d), Ended, UNCHANGED <<ackOwed, ackWaited>>
       PROVE  IInv'
  <2>1. /\ UnitSound(f.u) /\ Members(f.u, TRUE, f.ok \/ pmInitialized)
        /\ f.u.touched # "Dead"
    BY <1>1, <1>2, <1>7, <1>10, FinishStartupSound DEF Prepared, Flags
  <2>2. /\ UnitSound(d) /\ SameService(f.u, d) /\ d.authorized = f.u.authorized
        /\ d.host.resetLine = f.u.host.resetLine
    BY <2>1, PowerDownSound
  <2>3. d.touched # "Dead" /\ (d.authorized /\ d.detected => d.host.resetLine # "Held")
    BY <2>1, <2>2 DEF SameService, Members
  <2> QED BY <1>1, <1>2, <1>10, <2>2, <2>3, EndedInv DEF IInv, Flags
<1>11. ASSUME NEW d \in PowerDown(o.u),
              unit' = TeardownCommunication(d), Ended, UNCHANGED <<ackOwed, ackWaited>>
       PROVE  IInv'
  <2>1. UnitSound(d) /\ SameService(o.u, d)
    BY <1>7, PowerDownSound DEF Prepared
  <2>2. d.touched # "Dead" /\ ~d.detected
    BY <1>7, <2>1 DEF Prepared, SameService
  <2> QED BY <1>1, <1>2, <1>11, <2>1, <2>2, EndedInv DEF IInv, Flags
<1> QED BY <1>5, <1>8, <1>9, <1>10, <1>11

\* A start that fails once the power manager is joined lost its authorisation.
LEMMA FinishStartupLost ==
  ASSUME NEW u, UnitSound(u), Ready(u), pmInitialized,
         NEW f \in FinishStartup(u), ~f.ok
  PROVE  ~f.u.authorized
<1>1. PICK o \in PerformPlatformHardwareReset(u) :
         ~o.ok /\ Bound(o.u.host) /\ f = UnitOutcome(TeardownCommunication(o.u), FALSE)
  BY DEF FinishStartup, UnitOutcome
<1>2. UnitSound(o.u) /\ ~o.u.authorized
  BY <1>1, ResetSound
<1> DEFINE v == TeardownCommunication(o.u)
<1>3. v.authorized = o.u.authorized
  BY <1>2, TeardownSound
<1>4. f.u = v
  BY <1>1 DEF UnitOutcome
<1> QED BY <1>2, <1>3, <1>4

LEMMA StartupFailsInv ==
  ASSUME IInv, UNCHANGED <<world, phase, power, resumePending, system>>, Recorded,
         phase = "Running", power, ~resumePending, ~identityPending, ~ackOwed,
         NEW u, UnitSound(u), ~sleptPending => u.touched # "Dead",
         u.authorized /\ u.detected => u.host.resetLine # "Held" /\ ~pmInitialized,
         StartupFails(u)
  PROVE  IInv'
<1>0. /\ bus' = bus /\ interpreter' = interpreter /\ identityKnown' = identityKnown
      /\ power' = TRUE /\ phase' = "Running" /\ resumePending' = FALSE
      /\ ackOwed' = FALSE /\ ackWaited' = ackWaited /\ level' = level
  BY DEF world, system, IInv, TypeOK
<1>1. /\ unit' = TeardownCommunication(u)
      /\ startupPending' = FALSE /\ startupFailed' = TRUE /\ timer' = FALSE /\ due' = FALSE
      /\ pmInitialized' = pmInitialized /\ identityPending' = FALSE
      /\ identityWaited' = identityWaited
  BY DEF StartupFails, SetTimer, IInv, TypeOK
<1>2. /\ UnitSound(unit') /\ SameService(u, unit') /\ unit'.authorized = u.authorized
      /\ unit'.manager = "Unbound" /\ ~Bound(unit'.host)
      /\ unit'.host.resetLine = u.host.resetLine
  BY <1>1, TeardownSound
<1>3. Flags'
  <2>1. Flags
    BY FlagsType DEF IInv
  <2> QED BY <1>0, <1>1, <2>1 DEF Flags
<1>4. TypeOK'
  BY <1>0, <1>2, <1>3, TypeArrive DEF IInv, UnitSound
<1>5. Members(unit', power', pmInitialized')
  BY <1>1, <1>2 DEF Members, RunningManagers, SameService
<1>6. sleptPending' = sleptPending
  BY <1>0, SleptSame DEF IInv
<1>7. OffStage' /\ Starting' /\ Excluded'
  BY <1>0, <1>1, <1>2 DEF OffStage, Starting, Excluded
<1>8. MappedOnline(unit'.host)
  BY <1>2, UnboundSlots DEF UnitSound
<1>9. AsleepLetsGo' /\ PendingIsPolled' /\ AnswerIsComing' /\ IdentityFirst' /\ ProbesMeetLiveBus'
  BY <1>0, <1>1, <1>2, <1>6 DEF AsleepLetsGo, PendingIsPolled, AnswerIsComing,
     IdentityFirst, ProbesMeetLiveBus, Running, SameService
<1> QED BY <1>0, <1>2, <1>4, <1>5, <1>7, <1>8, <1>9, Arrive

LEMMA ContinueStartupInv ==
  ASSUME IInv, ContinueStartup, UNCHANGED world, Recorded
  PROVE  IInv'
<1>1. /\ phase = "Running" /\ timer /\ ~startupFailed /\ startupPending
      /\ ~resumePending /\ ~identityPending /\ power /\ ~ackOwed
      /\ unit.manager = "Unbound" /\ ~unit.detected /\ Bound(unit.host)
  BY DEF ContinueStartup, TimerFires, IInv, Starting, AnswerIsComing
<1>2. UNCHANGED <<phase, power, resumePending, system>>
  BY DEF ContinueStartup
<1>3. Flags
  BY FlagsType DEF IInv
<1>4. /\ UnitSound(Untouched) /\ Untouched.host = unit.host /\ Untouched.manager = "Unbound"
      /\ Untouched.touched = "No" /\ ~Untouched.detected
  BY <1>1, UntouchedSound
<1>5. PICK b \in HostContinueBind(unit.host, interpreter) :
       LET bound == [Untouched EXCEPT !.host = b.h]
       IN  \/ /\ HostPending(b.h)
              /\ unit' = bound /\ SetTimer(TRUE)
              /\ UNCHANGED <<startupPending, startupFailed, pmInitialized,
                             identityPending, identityWaited>>
           \/ ~HostPending(b.h) /\ b.ret # "Success" /\ StartupFails(bound)
           \/ /\ ~HostPending(b.h) /\ b.ret = "Success"
              /\ \E o \in SetupCommunication(bound) :
                 \/ ~o.ok /\ StartupFails(o.u)
                 \/ /\ o.ok
                    /\ \E f \in FinishStartup(o.u) :
                          \/ ~f.ok /\ StartupFails(f.u)
                          \/ /\ f.ok /\ unit' = f.u /\ Settled(f.u)
                             /\ UNCHANGED startupFailed
  BY DEF ContinueStartup
<1> DEFINE bound == [Untouched EXCEPT !.host = b.h]
<1>6. HostSound(unit.host) /\ OnItsBus(unit.host) /\ (power /\ ~sleptPending => MappedOnline(unit.host))
  BY DEF IInv, Awake
<1>7. /\ HostSound(b.h) /\ SameHost(unit.host, b.h)
      /\ MappedOnline(unit.host) => MappedOnline(b.h)
      /\ b.ret = "Success" => \A s \in Slots : b.h.slot[s].phase = "Mapped"
  BY <1>1, <1>6, HostContinueBindSound
<1>8. OnItsBus(b.h)
  BY <1>1, <1>6, <1>7 DEF OnItsBus, SameHost
<1>9. Prepared(bound) /\ bound.host = b.h
  <2>1. UnitSound(bound) /\ bound.host = b.h /\ SameService(Untouched, bound)
        /\ bound.manager = Untouched.manager
    BY <1>4, <1>7, <1>8, HostUpdate
  <2> QED BY <1>1, <1>4, <1>6, <1>7, <2>1 DEF Prepared, SameService
<1> HIDE DEF bound
<1>10. CASE /\ HostPending(b.h)
            /\ unit' = bound /\ SetTimer(TRUE)
            /\ UNCHANGED <<startupPending, startupFailed, pmInitialized,
                           identityPending, identityWaited>>
  <2>1. Flags'
    BY <1>2, <1>3, <1>10 DEF Flags, SetTimer, system, world
  <2>2. Bound(bound.host)
    BY <1>7, <1>9, <1>10, PendingIsBound
  <2> QED BY <1>1, <1>2, <1>9, <1>10, <2>1, <2>2, PendsInv DEF SetTimer, system
<1>11. ASSUME NEW u, Prepared(u), StartupFails(u)
       PROVE  IInv'
  BY <1>1, <1>2, <1>11, StartupFailsInv DEF Prepared
<1>12. ASSUME NEW o \in SetupCommunication(bound), b.ret = "Success"
       PROVE  Prepared(o.u) /\ (o.ok => bus = "I2C" \/ (Bound(o.u.host) /\ AllMapped(o.u.host)))
  <2>1. Bound(b.h) /\ AllMapped(b.h)
    BY <1>7, <1>12, ControllersAssumption DEF Bound, AllMapped, Slots
  <2> QED BY <1>9, <1>12, <2>1, PreparedSetup
<1>13. ASSUME NEW o \in SetupCommunication(bound), b.ret = "Success", o.ok,
              NEW f \in FinishStartup(o.u), ~f.ok, StartupFails(f.u)
       PROVE  IInv'
  <2>1. Prepared(o.u) /\ (bus = "I2C" \/ (Bound(o.u.host) /\ AllMapped(o.u.host)))
    BY <1>12, <1>13
  <2>2. pmInitialized \in BOOLEAN
    BY <1>3 DEF Flags
  <2>3. /\ UnitSound(f.u) /\ Members(f.u, TRUE, f.ok \/ pmInitialized)
        /\ MappedOnline(o.u.host) => f.u.touched # "Dead"
    BY <1>13, <2>1, <2>2, FinishStartupSound DEF Prepared
  <2>4. pmInitialized => ~f.u.authorized
    BY <1>13, <2>1, FinishStartupLost DEF Prepared, Ready
  <2>5. /\ ~sleptPending => f.u.touched # "Dead"
        /\ f.u.authorized /\ f.u.detected => f.u.host.resetLine # "Held" /\ ~pmInitialized
    BY <2>1, <2>3, <2>4 DEF Prepared, Members
  <2> QED BY <1>1, <1>2, <1>13, <2>3, <2>5, StartupFailsInv
<1>14. ASSUME NEW o \in SetupCommunication(bound), b.ret = "Success", o.ok,
              NEW f \in FinishStartup(o.u), f.ok, unit' = f.u, Settled(f.u),
              UNCHANGED startupFailed
       PROVE  IInv'
  <2>1. Prepared(o.u) /\ (bus = "I2C" \/ (Bound(o.u.host) /\ AllMapped(o.u.host)))
    BY <1>12, <1>14
  <2> QED BY <1>1, <1>2, <1>14, <2>1, SettledInv
<1>15. \/ /\ HostPending(b.h)
          /\ unit' = bound /\ SetTimer(TRUE)
          /\ UNCHANGED <<startupPending, startupFailed, pmInitialized,
                         identityPending, identityWaited>>
       \/ StartupFails(bound)
       \/ /\ b.ret = "Success"
          /\ \E o \in SetupCommunication(bound) :
             \/ ~o.ok /\ StartupFails(o.u)
             \/ /\ o.ok
                /\ \E f \in FinishStartup(o.u) :
                      \/ ~f.ok /\ StartupFails(f.u)
                      \/ /\ f.ok /\ unit' = f.u /\ Settled(f.u)
                         /\ UNCHANGED startupFailed
  BY <1>5 DEF bound
<1> QED BY <1>9, <1>10, <1>11, <1>12, <1>13, <1>14, <1>15

\* The retry of an identity leaves a service that waits for nothing else.
LEMMA RetriedInv ==
  ASSUME IInv, UNCHANGED <<world, phase, power, startupFailed, resumePending,
                           pmInitialized, identityWaited, system>>, Recorded,
         phase = "Running", power, ~startupFailed, ~resumePending, ~startupPending, ~ackOwed,
         startupPending' = FALSE, identityPending' \in BOOLEAN, timer' \in BOOLEAN, due' \in BOOLEAN,
         UnitSound(unit'), Members(unit', TRUE, TRUE),
         ~sleptPending => MappedOnline(unit'.host) /\ unit'.touched # "Dead",
         identityPending' => timer' /\ unit'.manager = "Unbound" /\ ~unit'.detected,
         unit'.manager = "Waiting" => timer'
  PROVE  IInv'
<1>0. /\ bus' = bus /\ interpreter' = interpreter /\ identityKnown' = identityKnown
      /\ power' = TRUE /\ phase' = "Running" /\ resumePending' = FALSE
      /\ ackOwed' = FALSE /\ ackWaited' = ackWaited /\ level' = level
      /\ pmInitialized' = pmInitialized /\ startupFailed' = FALSE
      /\ identityWaited' = identityWaited
  BY DEF world, system, IInv, TypeOK
<1>1. Flags'
  <2>1. Flags
    BY FlagsType DEF IInv
  <2> QED BY <1>0, <2>1 DEF Flags
<1>2. TypeOK'
  BY <1>0, <1>1, TypeArrive DEF IInv, UnitSound
<1>3. Members(unit', power', pmInitialized')
  BY <1>0 DEF Members
<1>4. sleptPending' = sleptPending
  BY <1>0, SleptSame DEF IInv
<1>5. OffStage' /\ Starting' /\ Excluded'
  BY <1>0 DEF OffStage, Starting, Excluded
<1>6. AsleepLetsGo' /\ PendingIsPolled' /\ AnswerIsComing' /\ IdentityFirst' /\ ProbesMeetLiveBus'
  BY <1>0, <1>4 DEF AsleepLetsGo, PendingIsPolled, AnswerIsComing,
     IdentityFirst, ProbesMeetLiveBus, Running
<1> QED BY <1>0, <1>2, <1>3, <1>4, <1>5, <1>6, Arrive

LEMMA RetryPlatformIdentityInv ==
  ASSUME IInv, RetryPlatformIdentity, UNCHANGED world, Recorded
  PROVE  IInv'
<1>1. /\ phase = "Running" /\ timer /\ ~startupFailed /\ ~startupPending
      /\ ~resumePending /\ identityPending /\ power /\ ~ackOwed
      /\ unit.manager = "Unbound" /\ ~unit.detected
  BY DEF RetryPlatformIdentity, TimerFires, IInv, IdentityFirst, AnswerIsComing
<1>2. UNCHANGED <<phase, power, startupFailed, resumePending, pmInitialized,
                  identityWaited, system>>
  BY DEF RetryPlatformIdentity
<1>3. Flags
  BY FlagsType DEF IInv
<1>4. /\ UnitSound(Untouched) /\ Untouched.host = unit.host /\ Untouched.manager = "Unbound"
      /\ Untouched.touched = "No" /\ ~Untouched.detected
  BY <1>1, UntouchedSound
<1>5. ~sleptPending => MappedOnline(unit.host)
  BY <1>1 DEF IInv, Awake
<1>6. PICK r \in ResolvePlatformProfile(Untouched) :
       \/ /\ ~r.known /\ unit' = r
          /\ identityPending' = (identityWaited < IdentityDeadline)
          /\ SetTimer(identityPending') /\ UNCHANGED startupPending
       \/ /\ r.known /\ identityPending' = FALSE
          /\ \E o \in SetupCommunication(IF r.authorized
                            THEN TeardownCommunication(r) ELSE r) :
             LET pending == o.ok /\ o.u.authorized /\ HostPending(o.u.host)
             IN  /\ startupPending' = pending
                 /\ \/ /\ ~o.ok \/ ~o.u.authorized \/ pending
                       /\ unit' = o.u /\ SetTimer(pending)
                    \/ /\ o.ok /\ o.u.authorized /\ ~pending
                       /\ \E p \in PerformPlatformHardwareReset(o.u) :
                          \/ /\ ~p.ok /\ Bound(p.u.host)
                             /\ unit' = p.u /\ SetTimer(FALSE)
                          \/ /\ p.ok \/ ~Bound(p.u.host)
                             /\ unit' \in DetectAndBringUp(p.u)
                             /\ SetTimer(TRUE)
  BY DEF RetryPlatformIdentity
<1>7. Prepared(r)
  BY <1>4, <1>5, ProfileSound DEF Prepared, IInv
<1>8. ASSUME NEW u, Prepared(u)
      PROVE  Members(u, TRUE, TRUE)
  BY <1>8 DEF Members, RunningManagers, Prepared
<1>9. CASE /\ ~r.known /\ unit' = r
           /\ identityPending' = (identityWaited < IdentityDeadline)
           /\ SetTimer(identityPending') /\ UNCHANGED startupPending
  <2>1. /\ identityPending' \in BOOLEAN /\ timer' = identityPending' /\ due' = FALSE
        /\ startupPending' = FALSE
    BY <1>1, <1>3, <1>9 DEF SetTimer, Flags
  <2> QED BY <1>1, <1>2, <1>7, <1>8, <1>9, <2>1, RetriedInv DEF Prepared
<1> DEFINE base == IF r.authorized THEN TeardownCommunication(r) ELSE r
<1>10. Prepared(base)
  <2>1. CASE ~r.authorized
    BY <1>7, <2>1
  <2>2. CASE r.authorized
    <3> DEFINE v == TeardownCommunication(r)
    <3>1. UnitSound(v) /\ SameService(r, v) /\ v.manager = "Unbound" /\ ~Bound(v.host)
      BY <1>7, TeardownSound DEF Prepared
    <3>2. base = v
      BY <2>2
    <3> HIDE DEF v
    <3>3. MappedOnline(v.host)
      BY <3>1, UnboundSlots DEF UnitSound
    <3> QED BY <1>7, <3>1, <3>2, <3>3 DEF Prepared, SameService
  <2> QED BY <2>1, <2>2
<1> HIDE DEF base
<1>11. ASSUME NEW o \in SetupCommunication(base)
       PROVE  /\ Prepared(o.u)
              /\ o.ok /\ ~HostPending(o.u.host) =>
                    bus = "I2C" \/ (Bound(o.u.host) /\ AllMapped(o.u.host))
  BY <1>10, PreparedSetup
<1>12. ASSUME NEW o \in SetupCommunication(base), identityPending' = FALSE,
              startupPending' = TRUE, unit' = o.u, SetTimer(TRUE),
              HostPending(o.u.host)
       PROVE  IInv'
  <2>1. Flags'
    BY <1>2, <1>3, <1>12 DEF Flags, SetTimer, system, world
  <2>2. Prepared(o.u)
    BY <1>11
  <2>3. Bound(o.u.host)
    BY <1>12, <2>2, PendingIsBound DEF Prepared, UnitSound
  <2> QED BY <1>1, <1>2, <1>12, <2>1, <2>2, <2>3, PendsInv DEF SetTimer, system
<1>13. ASSUME NEW o \in SetupCommunication(base), identityPending' = FALSE,
              startupPending' = FALSE, unit' = o.u, SetTimer(FALSE)
       PROVE  IInv'
  <2>1. Prepared(o.u)
    BY <1>11
  <2>2. timer' = FALSE /\ due' = FALSE
    BY <1>13 DEF SetTimer
  <2> QED BY <1>1, <1>2, <1>8, <1>13, <2>1, <2>2, RetriedInv DEF Prepared
<1>14. ASSUME NEW o \in SetupCommunication(base), identityPending' = FALSE,
              startupPending' = FALSE, o.ok, ~HostPending(o.u.host),
              NEW p \in PerformPlatformHardwareReset(o.u)
       PROVE  /\ ~p.ok /\ Bound(p.u.host) /\ unit' = p.u /\ SetTimer(FALSE) => IInv'
              /\ (p.ok \/ ~Bound(p.u.host)) /\ unit' \in DetectAndBringUp(p.u)
                    /\ SetTimer(TRUE) => IInv'
  <2>1. Prepared(o.u) /\ (bus = "I2C" \/ (Bound(o.u.host) /\ AllMapped(o.u.host)))
    BY <1>11, <1>14
  <2>2. Ready(o.u)
    BY <2>1 DEF Ready
  <2>3. /\ UnitSound(p.u) /\ SameService(o.u, p.u) /\ p.u.manager = o.u.manager
        /\ p.u.host.slot = o.u.host.slot
        /\ p.ok \/ ~Bound(p.u.host) => (p.u.authorized => p.u.host.resetLine # "Held")
    BY <1>14, <2>1, <2>2, ResetSound DEF Prepared
  <2>4. /\ Prepared(p.u) /\ Ready(p.u)
        /\ bus = "I2C" \/ (Bound(p.u.host) /\ AllMapped(p.u.host))
    BY <2>1, <2>3 DEF Prepared, SameService, Ready, Bound, AllMapped, MappedOnline
  <2>5. ASSUME unit' = p.u, SetTimer(FALSE)
        PROVE  IInv'
    <3>1. timer' = FALSE /\ due' = FALSE
      BY <2>5 DEF SetTimer
    <3> QED BY <1>1, <1>2, <1>8, <1>14, <2>4, <2>5, <3>1, RetriedInv DEF Prepared
  <2>6. ASSUME p.ok \/ ~Bound(p.u.host), unit' \in DetectAndBringUp(p.u), SetTimer(TRUE)
        PROVE  IInv'
    <3>1. timer' = TRUE /\ due' = FALSE
      BY <2>6 DEF SetTimer
    <3>2. SameBus(p.u, unit')
      BY <2>4, <2>6, DetectSound DEF Prepared
    <3>3. Members(unit', TRUE, TRUE)
      BY <2>3, <2>4, <2>6, BegunMembers DEF Prepared
    <3>4. ~sleptPending => MappedOnline(p.u.host) /\ Live(p.u)
      BY <2>4, MappedIsLive DEF Prepared
    <3>5. ~sleptPending => MappedOnline(unit'.host) /\ unit'.touched # "Dead"
      BY <2>4, <3>2, <3>4 DEF SameBus, Prepared
    <3>6. UnitSound(unit')
      BY <3>2 DEF SameBus
    <3> QED BY <1>1, <1>2, <1>14, <3>1, <3>3, <3>5, <3>6, RetriedInv
  <2> QED BY <2>5, <2>6
<1>15. CASE r.known /\ identityPending' = FALSE
            /\ \E o \in SetupCommunication(base) :
             LET pending == o.ok /\ o.u.authorized /\ HostPending(o.u.host)
             IN  /\ startupPending' = pending
                 /\ \/ /\ ~o.ok \/ ~o.u.authorized \/ pending
                       /\ unit' = o.u /\ SetTimer(pending)
                    \/ /\ o.ok /\ o.u.authorized /\ ~pending
                       /\ \E p \in PerformPlatformHardwareReset(o.u) :
                          \/ /\ ~p.ok /\ Bound(p.u.host)
                             /\ unit' = p.u /\ SetTimer(FALSE)
                          \/ /\ p.ok \/ ~Bound(p.u.host)
                             /\ unit' \in DetectAndBringUp(p.u)
                             /\ SetTimer(TRUE)
  <2>1. PICK o \in SetupCommunication(base) :
             /\ startupPending' = (o.ok /\ o.u.authorized /\ HostPending(o.u.host))
             /\ \/ /\ ~o.ok \/ ~o.u.authorized \/ (o.ok /\ o.u.authorized /\ HostPending(o.u.host))
                   /\ unit' = o.u /\ SetTimer(o.ok /\ o.u.authorized /\ HostPending(o.u.host))
                \/ /\ o.ok /\ o.u.authorized /\ ~(o.ok /\ o.u.authorized /\ HostPending(o.u.host))
                   /\ \E p \in PerformPlatformHardwareReset(o.u) :
                      \/ /\ ~p.ok /\ Bound(p.u.host)
                         /\ unit' = p.u /\ SetTimer(FALSE)
                      \/ /\ p.ok \/ ~Bound(p.u.host)
                         /\ unit' \in DetectAndBringUp(p.u)
                         /\ SetTimer(TRUE)
    BY <1>15
  <2>2. CASE o.ok /\ o.u.authorized /\ HostPending(o.u.host)
    <3>1. startupPending' = TRUE /\ unit' = o.u /\ timer' = TRUE /\ due' = FALSE
      BY <2>1, <2>2 DEF SetTimer
    <3>2. SetTimer(TRUE)
      BY <3>1 DEF SetTimer
    <3> QED BY <1>12, <1>15, <2>2, <3>1, <3>2
  <2>3. CASE ~o.ok \/ ~o.u.authorized
    <3>1. startupPending' = FALSE /\ unit' = o.u /\ timer' = FALSE /\ due' = FALSE
      BY <2>1, <2>3 DEF SetTimer
    <3>2. SetTimer(FALSE)
      BY <3>1 DEF SetTimer
    <3> QED BY <1>13, <1>15, <3>1, <3>2
  <2>4. CASE o.ok /\ o.u.authorized /\ ~HostPending(o.u.host)
    <3>1. /\ startupPending' = FALSE
          /\ \E p \in PerformPlatformHardwareReset(o.u) :
                \/ /\ ~p.ok /\ Bound(p.u.host)
                   /\ unit' = p.u /\ SetTimer(FALSE)
                \/ /\ p.ok \/ ~Bound(p.u.host)
                   /\ unit' \in DetectAndBringUp(p.u)
                   /\ SetTimer(TRUE)
      BY <2>1, <2>4
    <3> QED BY <1>14, <1>15, <2>4, <3>1
  <2> QED BY <2>2, <2>3, <2>4
<1> QED BY <1>6, <1>9, <1>15 DEF base

-----------------------------------------------------------------------------
(* The theorems *)

LEMMA InitInv == Init => IInv
<1> SUFFICES ASSUME Init PROVE IInv
  OBVIOUS
<1>1. PICK d0 \in BOOLEAN, mem \in BOOLEAN, reset \in {"None", "Idle"} :
          /\ bus = "I2C" => reset = "None"
          /\ unit = [host |-> [kind |-> IF bus = "AMD" THEN "AMD" ELSE "Intel",
                            slot |-> [s \in Slots |-> Unopened(d0, mem)],
                            resumeSlot |-> 1, authorized |-> FALSE,
                            resetLine |-> reset],
                  known |-> FALSE, authorized |-> FALSE, detected |-> FALSE,
                  manager |-> "Unbound", touched |-> "No"]
  BY ZenonT(60) DEF Init
<1>2. /\ bus \in Buses /\ phase = "Idle" /\ power = TRUE /\ startupPending = FALSE
      /\ startupFailed = FALSE /\ resumePending = FALSE /\ pmInitialized = FALSE
      /\ identityPending = FALSE /\ identityWaited = 0
      /\ timer = FALSE /\ due = FALSE
      /\ level = 1 /\ ackOwed = FALSE /\ ackWaited = 0
      /\ identityKnown = FALSE
      /\ interpreter \in {"CallbackNotReached", "Published"}
      /\ found = [s \in Slots |-> FALSE] /\ sleptPending = FALSE
  BY DEF Init
<1> DEFINE c == Unopened(d0, mem)
           kind == IF bus = "AMD" THEN "AMD" ELSE "Intel"
<1>3. /\ c \in Controller /\ c.phase = "None" /\ c.client = "None" /\ ~c.vote /\ ~c.pending
      /\ ~c.online /\ ~c.acpi /\ ~c.memChanged
  <2>1. -1 \in -1 .. InterpreterDeadline /\ 0 \in 0 .. PowerDeadline
    BY DeadlinesAssumption
  <2> QED BY <2>1 DEF Unopened, Controller, Phases, Clients
<1>4. Sound(kind, c)
  BY <1>3 DEF Sound
<1>5. /\ unit.host.kind = kind /\ unit.host.resetLine = reset /\ unit.host.resumeSlot = 1
      /\ unit.manager = "Unbound" /\ unit.touched = "No" /\ ~unit.detected
      /\ \A s \in Slots : unit.host.slot[s] = c
  BY <1>1
<1>6. 1 \in Slots /\ \A s \in Slots : ~(s < 1)
  BY ControllersAssumption DEF Slots
<1>7. unit \in Unit /\ unit.host \in Host
  <2> HIDE DEF c
  <2>1. [s \in Slots |-> c] \in [Slots -> Controller] /\ kind \in Kinds
    BY <1>3 DEF Kinds
  <2>2. unit = [host |-> [kind |-> kind, slot |-> [s \in Slots |-> c],
                            resumeSlot |-> 1, authorized |-> FALSE,
                            resetLine |-> reset],
                  known |-> FALSE, authorized |-> FALSE, detected |-> FALSE,
                  manager |-> "Unbound", touched |-> "No"]
    BY <1>1 DEF c
  <2> HIDE DEF kind
  <2> QED BY <1>6, <2>1, <2>2 DEF Unit, Host, Managers
<1> HIDE DEF c
<1>8. ~Bound(unit.host) /\ MappedOnline(unit.host)
  BY <1>3, <1>5 DEF Bound, MappedOnline
<1>9. HostSound(unit.host)
  BY <1>3, <1>4, <1>5, <1>6, <1>7 DEF HostSound, AllOrNone
<1>10. OnItsBus(unit.host)
  BY <1>1, <1>5, <1>8 DEF OnItsBus
<1>11. TypeOK
  BY <1>2, <1>7, FlagsType, Zeroes DEF Flags
<1>12. Members(unit, power, pmInitialized)
  BY <1>5 DEF Members, RunningManagers
<1>13. OffStage /\ Starting /\ Excluded /\ Awake
  BY <1>2, <1>5, <1>8 DEF OffStage, Starting, Excluded, Awake
<1>14. AsleepLetsGo /\ PendingIsPolled /\ AnswerIsComing /\ IdentityFirst /\ ProbesMeetLiveBus
  BY <1>2, <1>5 DEF AsleepLetsGo, PendingIsPolled, AnswerIsComing, IdentityFirst,
     ProbesMeetLiveBus, Running
<1> QED BY <1>9, <1>10, <1>11, <1>12, <1>13, <1>14 DEF IInv

LEMMA NextInv == IInv /\ [Next]_vars => IInv'
<1> SUFFICES ASSUME IInv, [Next]_vars PROVE IInv'
  OBVIOUS
<1>1. CASE ServiceStep /\ UNCHANGED world /\ Recorded
  <2>1. CASE Start
    BY <1>1, <2>1, StartInv
  <2>2. CASE Stop
    BY <1>1, <2>2, StopInv
  <2>3. CASE TimerIgnored
    BY <1>1, <2>3, TimerIgnoredInv
  <2>4. CASE ContinueStartup
    BY <1>1, <2>4, ContinueStartupInv
  <2>5. CASE ContinueResume
    BY <1>1, <2>5, ContinueResumeInv
  <2>6. CASE RetryPlatformIdentity
    BY <1>1, <2>6, RetryPlatformIdentityInv
  <2>7. CASE Monitor
    BY <1>1, <2>7, MonitorInv
  <2>8. CASE Sleep
    BY <1>1, <2>8, SleepInv
  <2>9. CASE Wake
    BY <1>1, <2>9, WakeInv
  <2>10. CASE AckExpires
    BY <1>1, <2>10, AckExpiresInv
  <2> QED BY <1>1, <2>1, <2>2, <2>3, <2>4, <2>5, <2>6, <2>7, <2>8, <2>9, <2>10 DEF ServiceStep
<1>2. CASE PowerManager /\ UNCHANGED <<control, clock, system, world>> /\ Recorded
  BY <1>2, PowerManagerInv
<1>3. CASE Tick /\ UNCHANGED world /\ Recorded
  BY <1>3, TickInv
<1>4. CASE /\ PublishIdentity /\ Recorded
           /\ UNCHANGED <<unit, control, clock, system, bus, interpreter>>
  BY <1>4, PublishIdentityInv
<1>5. CASE /\ Interpreter /\ Recorded
           /\ UNCHANGED <<unit, control, clock, system, bus, identityKnown>>
  BY <1>5, InterpreterInv
<1>6. CASE UNCHANGED vars
  BY <1>6 DEF vars, control, clock, system, world, history, IInv, TypeOK, OnItsBus, Members, Live,
     OffStage, Starting, Excluded, Awake, AsleepLetsGo, PendingIsPolled, AnswerIsComing,
     IdentityFirst, ProbesMeetLiveBus, Running
<1> QED BY <1>1, <1>2, <1>3, <1>4, <1>5, <1>6 DEF Next

LEMMA Invariant == Spec => []IInv
BY InitInv, NextInv, PTL DEF Spec

\* Every variable keeps its type.
THEOREM TypeCorrect == Spec => []TypeOK
<1>1. IInv => TypeOK
  BY DEF IInv
<1> QED BY <1>1, Invariant, PTL

\* Whatever bind, deferred bind, wake or shutdown fails on any of any number
\* of controllers, the host has an owner for all of them or for none, and a
\* controller without an owner holds nothing (NativeSPIHost.hpp:39-44).
THEOREM HostStaysWhole == Spec => []HostAllOrNothing
<1>1. IInv => HostAllOrNothing
  BY DEF IInv, HostSound, AllOrNone, Sound, HostAllOrNothing
<1> QED BY <1>1, Invariant, PTL

\* A service that is asleep has given back every vote, every request and
\* every engine (NativeSPIHost.hpp:296-316).
THEOREM SleepHoldsNoPower == Spec => []AsleepLetsGo
<1>1. IInv => AsleepLetsGo
  BY DEF IInv
<1> QED BY <1>1, Invariant, PTL

\* Amplifiers that run have power, a bus that can transfer and were let out
\* of reset (CirrusAudioFixup.hpp:188).
THEOREM RunningHasBus == Spec => []RunningNeedsBus
<1>1. IInv => RunningNeedsBus
  BY DEF IInv, Members, RunningManagers, RunningNeedsBus
<1> QED BY <1>1, Invariant, PTL

\* A deferred start, an identity, a bring-up or a wake that waits keeps the
\* timer armed (CirrusAudioFixupPower.cpp:86-91).
THEOREM PendingStaysPolled == Spec => []PendingIsPolled
<1>1. IInv => PendingIsPolled
  BY DEF IInv
<1> QED BY <1>1, Invariant, PTL

\* An answer the power manager waits for belongs to a wake that is polled.
THEOREM AnswerStaysPolled == Spec => []AnswerIsComing
<1>1. IInv => AnswerIsComing
  BY DEF IInv
<1> QED BY <1>1, Invariant, PTL

\* Nothing is bound or detected before the board is identified.
THEOREM IdentityStaysFirst == Spec => []IdentityFirst
<1>1. IInv => IdentityFirst
  BY DEF IInv
<1> QED BY <1>1, Invariant, PTL

\* The amplifiers are touched on a live bus only, but for a start that was
\* pending while the system slept.
THEOREM ProbesStayLive == Spec => []ProbesMeetLiveBus
<1>1. IInv => ProbesMeetLiveBus
  BY DEF IInv
<1> QED BY <1>1, Invariant, PTL

=============================================================================
