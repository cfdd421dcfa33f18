---------------------- MODULE ServicePowerMemoryProofs ----------------------
(***************************************************************************)
(* Proof, for any number of controllers, any deadlines and any buses, that *)
(* the memory enable of a function is put back to what it was before the   *)
(* driver bound it.                                                        *)
(*                                                                         *)
(* The property is about one step, and one step may suspend, release and   *)
(* bind a controller again.  Tracks is what any chain of operations does   *)
(* to the memory enable and the driver's memory of it: it is reflexive and *)
(* transitive, every operation keeps it, and a handler is a chain.         *)
(***************************************************************************)
EXTENDS ServicePowerProofs

\* A mapped controller has enabled its memory and remembers it.
Noted(c) == c.phase = "Mapped" => c.memChanged

\* From c to d: what is remembered stays; it is what was found; it is put back
\* where the registers could be reached; and what is given up needs a new
\* grant, which only the power manager gives, to be taken again.
Tracks(c, d) ==
    Noted(c) =>
      /\ Noted(d)
      /\ c.d0 => d.d0
      /\ c.memChanged /\ d.memChanged => d.memWas = c.memWas
      /\ ~c.memChanged /\ d.memChanged => d.memWas = c.mem /\ d.d0
      /\ c.memChanged /\ ~d.memChanged => ~d.granted /\ (c.d0 => d.mem = c.memWas)
      /\ ~c.memChanged /\ ~d.memChanged => d.mem = c.mem
      /\ ~c.granted => ~d.granted /\ (~c.memChanged => ~d.memChanged)

HostTracks(h, g) ==
    h.kind = "Intel" => \A s \in Slots : Tracks(h.slot[s], g.slot[s])

-----------------------------------------------------------------------------
(* One controller *)

LEMMA TracksTransitive ==
  ASSUME NEW a, NEW b, NEW c, b \in Controller, Tracks(a, b), Tracks(b, c)
  PROVE  Tracks(a, c)
BY DEF Tracks, Controller

\* What leaves the memory enable and the open alone.
SameMemory(c, d) ==
    /\ d.phase = c.phase /\ d.memWas = c.memWas /\ d.memChanged = c.memChanged
    /\ d.mem = c.mem /\ d.granted = c.granted
    /\ c.d0 => d.d0

LEMMA SameTracks ==
  ASSUME NEW c, NEW d, SameMemory(c, d)
  PROVE  Tracks(c, d)
BY DEF SameMemory, Tracks, Noted

\* A request is only ever successful where the power manager granted it.
LEMMA AcquireGranted ==
  ASSUME NEW c \in Controller, NEW o \in AcquirePower(c)
  PROVE  o.c.granted = c.granted /\ (o.ret = "Success" => c.granted)
<1> DEFINE a == IF c.pending THEN c ELSE [c EXCEPT !.waited = 0]
           gone == [a EXCEPT !.pending = FALSE]
<1>1. a \in Controller /\ a.granted = c.granted
  BY ZeroTicks DEF Controller
<1>2. gone.granted = c.granted
  BY <1>1 DEF Controller
<1> HIDE DEF a
<1>3. CASE o = Outcome(gone, "NoDevice")
  <2> HIDE DEF gone
  <2> QED BY <1>2, <1>3 DEF Outcome
<1>4. CASE o \in Then(Then(PowerClient(a), Vote), Sample)
  <2>1. ASSUME NEW p \in PowerClient(a)
        PROVE  p.c \in Controller /\ p.c.granted = c.granted
    BY <1>1 DEF PowerClient, Outcome, Controller, Clients
  <2>2. ASSUME NEW x \in Controller, NEW v \in Vote(x)
        PROVE  v.c \in Controller /\ v.c.granted = x.granted
    <3> DEFINE y == [x EXCEPT !.vote = TRUE, !.pending = TRUE]
    <3>1. y \in Controller /\ y.granted = x.granted
      BY DEF Controller
    <3>2. v \in {Outcome(x, "Success"), Outcome(x, "Error"), Outcome(y, "Success")}
      BY DEF Vote
    <3> HIDE DEF y
    <3> QED BY <3>1, <3>2 DEF Outcome
  <2>3. ASSUME NEW x \in Controller, NEW z \in Sample(x)
        PROVE  z.c.granted = x.granted /\ (z.ret = "Success" => x.granted)
    <3> DEFINE y == [x EXCEPT !.pending = FALSE]
               d == [y EXCEPT !.d0 = TRUE]
    <3>1. y.granted = x.granted /\ d.granted = x.granted
      BY DEF Controller
    <3>2. \/ x.granted /\ z = Outcome(y, "Success")
          \/ x.granted /\ z = Outcome(d, "Success")
          \/ \E ret \in {"NotReady", "Timeout"} : z \in {Outcome(y, ret), Outcome(x, ret)}
      BY DEF Sample
    <3> HIDE DEF y, d
    <3> QED BY <3>1, <3>2 DEF Outcome
  <2>4. ASSUME NEW v \in Then(PowerClient(a), Vote)
        PROVE  v.c \in Controller /\ v.c.granted = c.granted
    <3>1. PICK p \in PowerClient(a) : v \in IF p.ret = "Success" THEN Vote(p.c) ELSE {p}
      BY DEF Then
    <3> QED BY <2>1, <2>2, <3>1
  <2>5. PICK v \in Then(PowerClient(a), Vote) :
          o \in IF v.ret = "Success" THEN Sample(v.c) ELSE {v}
    BY <1>4 DEF Then
  <2> QED BY <2>3, <2>4, <2>5
<1> QED BY <1>3, <1>4 DEF AcquirePower, a

LEMMA ShutdownMemory ==
  ASSUME NEW c \in Controller
  PROVE  LET d == IntelShutdown(c)
         IN  /\ d.phase = "None" /\ d.d0 = c.d0 /\ ~d.granted /\ ~d.memChanged
             /\ d.mem = IF c.phase # "None" /\ c.memChanged /\ c.d0 THEN c.memWas ELSE c.mem
<1> DEFINE released == ReleasePower(c)
           mem == IF c.phase # "None" /\ c.memChanged /\ c.d0 THEN c.memWas ELSE c.mem
           closed == [released EXCEPT !.phase = "None", !.pending = FALSE,
                                      !.online = FALSE, !.mem = mem]
           d == [closed EXCEPT !.memChanged = FALSE, !.selects = FALSE,
                               !.acpi = FALSE, !.acpiWaited = -1]
<1>1. released \in Controller /\ released.d0 = c.d0 /\ ~released.granted
  BY DEF ReleasePower, Controller, Clients
<1>2. mem \in BOOLEAN
  BY DEF Controller
<1>3. IntelShutdown(c) = d
  BY DEF IntelShutdown
<1> HIDE DEF released, mem
<1>4. /\ closed \in Controller /\ closed.phase = "None" /\ closed.d0 = c.d0
      /\ ~closed.granted /\ closed.mem = mem
  BY ZenonT(60), <1>1, <1>2 DEF Controller, Phases
<1> HIDE DEF closed
<1>5. /\ d.phase = "None" /\ d.d0 = c.d0 /\ ~d.granted /\ ~d.memChanged /\ d.mem = mem
  BY <1>4 DEF Controller
<1> QED BY <1>3, <1>5 DEF mem

LEMMA ShutdownTracks ==
  ASSUME NEW c, Sound("Intel", c)
  PROVE  Tracks(c, IntelShutdown(c))
<1> DEFINE d == IntelShutdown(c)
<1>1. /\ d.phase = "None" /\ d.d0 = c.d0 /\ ~d.granted /\ ~d.memChanged
      /\ d.mem = IF c.phase # "None" /\ c.memChanged /\ c.d0 THEN c.memWas ELSE c.mem
  BY ShutdownMemory DEF Sound
<1> HIDE DEF d
<1>2. Tracks(c, d)
  BY <1>1 DEF Tracks, Noted, Sound
<1> QED BY <1>2 DEF d

LEMMA MapRegistersTracks ==
  ASSUME NEW c \in Controller, c.phase = "Open", ~c.memChanged, c.d0, c.granted,
         NEW o \in MapRegisters(c)
  PROVE  Tracks(c, o.c)
<1> DEFINE enabled == [c EXCEPT !.memWas = c.mem, !.memChanged = TRUE, !.mem = TRUE]
           refused == [enabled EXCEPT !.mem = c.mem]
           d == [enabled EXCEPT !.phase = "Mapped", !.online = TRUE]
<1>1. /\ enabled \in Controller /\ enabled.phase = "Open" /\ enabled.memChanged
      /\ enabled.d0 /\ enabled.memWas = c.mem
  BY DEF Controller
<1>2. /\ refused \in Controller /\ refused.phase = "Open" /\ refused.memChanged
      /\ refused.d0 /\ refused.memWas = c.mem
  BY <1>1 DEF Controller
<1>3. d.phase = "Mapped" /\ d.memChanged /\ d.memWas = c.mem /\ d.d0
  BY <1>1 DEF Controller
<1>4. o \in {Outcome(IntelShutdown(refused), "NotReady"),
             Outcome(IntelShutdown(enabled), "NoResources"), Outcome(d, "Success")}
  BY DEF MapRegisters
<1> HIDE DEF enabled, refused, d
<1>5. CASE o = Outcome(d, "Success")
  BY <1>3, <1>5 DEF Outcome, Tracks, Noted
<1>6. ASSUME NEW x \in {refused, enabled}, o.c = IntelShutdown(x)
      PROVE  Tracks(c, o.c)
  <2>1. /\ o.c.phase = "None" /\ o.c.d0 /\ ~o.c.memChanged /\ o.c.mem = c.mem
    BY <1>1, <1>2, <1>6, ShutdownMemory
  <2> QED BY <2>1 DEF Tracks, Noted
<1>7. CASE o = Outcome(IntelShutdown(refused), "NotReady")
  BY <1>6, <1>7 DEF Outcome
<1>8. CASE o = Outcome(IntelShutdown(enabled), "NoResources")
  BY <1>6, <1>8 DEF Outcome
<1> QED BY <1>4, <1>5, <1>7, <1>8

LEMMA SelfTracks ==
  ASSUME NEW c
  PROVE  Tracks(c, c)
BY SameTracks DEF SameMemory

LEMMA AcquireTracks ==
  ASSUME NEW c \in Controller, NEW o \in AcquirePower(c)
  PROVE  SameMemory(c, o.c)
BY AcquireSame, AcquireGranted DEF SameButPower, SameMemory

LEMMA ContinueControllerTracks ==
  ASSUME NEW c, Sound("Intel", c), NEW o \in ControllerContinueBind(c)
  PROVE  Tracks(c, o.c)
<1>1. CASE c.phase = "None" \/ c.phase = "Mapped"
  <2>1. o.c = c
    BY <1>1 DEF ControllerContinueBind, Outcome
  <2> QED BY <2>1, SelfTracks
<1>2. CASE c.phase = "Open"
  <2>1. PICK a \in AcquirePower(c) :
          \/ a.ret = "Success" /\ o \in MapRegisters(a.c)
          \/ o = a
          \/ o = Outcome(IntelShutdown(a.c), a.ret)
    BY <1>2 DEF ControllerContinueBind
  <2>2. /\ SameButPower(c, a.c) /\ a.c \in Controller /\ SameMemory(c, a.c)
        /\ a.ret = "Success" => a.c.d0 /\ a.c.granted
    BY AcquireSame, AcquireGranted, AcquireTracks DEF SameButPower, Sound
  <2>3. Tracks(c, a.c) /\ a.c.phase = "Open" /\ ~a.c.memChanged
    BY <1>2, <2>2, SameTracks DEF SameMemory, Sound
  <2>4. CASE a.ret = "Success" /\ o \in MapRegisters(a.c)
    <3>1. Tracks(a.c, o.c)
      BY <2>2, <2>3, <2>4, MapRegistersTracks
    <3> QED BY <2>2, <2>3, <3>1, TracksTransitive
  <2>5. CASE o = a
    BY <2>3, <2>5
  <2>6. CASE o = Outcome(IntelShutdown(a.c), a.ret)
    <3>1. o.c = IntelShutdown(a.c)
      BY <2>6 DEF Outcome
    <3>2. o.c.phase = "None" /\ o.c.d0 = a.c.d0 /\ ~o.c.granted /\ ~o.c.memChanged
          /\ o.c.mem = a.c.mem
      BY <2>2, <2>3, <3>1, ShutdownMemory
    <3>3. Tracks(a.c, o.c)
      BY <2>3, <3>2 DEF Tracks, Noted
    <3> QED BY <2>2, <2>3, <3>3, TracksTransitive
  <2> QED BY <2>1, <2>4, <2>5, <2>6
<1> QED BY <1>1, <1>2 DEF Sound, Controller, Phases

LEMMA AwaitTracks ==
  ASSUME NEW c \in Controller, NEW interp, NEW o,
         o \in AwaitInterpreter(c, interp) \cup ChipSelects(c)
  PROVE  Tracks(c, o.c)
<1>1. CASE o \in ChipSelects(c)
  <2>1. o.c \in {[c EXCEPT !.acpi = FALSE, !.selects = TRUE], [c EXCEPT !.acpi = FALSE]}
    BY <1>1 DEF ChipSelects, Outcome
  <2>2. SameMemory(c, o.c)
    BY <2>1 DEF SameMemory, Controller
  <2> QED BY <2>2, SameTracks
<1>2. CASE o \in AwaitInterpreter(c, interp)
  <2> DEFINE since == IF c.acpiWaited = -1 THEN 0 ELSE c.acpiWaited
             awaiting == interp \in {"CallbackNotReached", "Ready"}
             waits == awaiting /\ since < InterpreterDeadline
  <2>1. o.c = [c EXCEPT !.acpi = waits, !.acpiWaited = since]
    BY <1>2 DEF AwaitInterpreter, Outcome
  <2> HIDE DEF since, waits
  <2>2. SameMemory(c, o.c)
    BY <2>1 DEF SameMemory, Controller
  <2> QED BY <2>2, SameTracks
<1> QED BY <1>1, <1>2

LEMMA ContinueTracks ==
  ASSUME NEW c, Sound("Intel", c), NEW interp, NEW o \in IntelContinueBind(c, interp)
  PROVE  Tracks(c, o.c)
<1>1. PICK b \in ControllerContinueBind(c) :
        \/ o = b
        \/ o = Outcome(b.c, "Success")
        \/ o \in AwaitInterpreter(b.c, interp) \cup ChipSelects(b.c)
  BY DEF IntelContinueBind, Then
<1>2. Tracks(c, b.c) /\ b.c \in Controller
  BY ContinueControllerTracks, ContinueControllerSound DEF Sound
<1>3. CASE o = b
  BY <1>2, <1>3
<1>4. CASE o = Outcome(b.c, "Success")
  BY <1>2, <1>4 DEF Outcome
<1>5. CASE o \in AwaitInterpreter(b.c, interp) \cup ChipSelects(b.c)
  BY <1>2, <1>5, AwaitTracks, TracksTransitive
<1> QED BY <1>1, <1>3, <1>4, <1>5

LEMMA IntelCreateTracks ==
  ASSUME NEW c, Sound("Intel", c), c.phase = "None", NEW interp,
         NEW o \in IntelCreate(c, interp)
  PROVE  Tracks(c, o.c)
<1> DEFINE x == [c EXCEPT !.phase = "Open"]
<1>1. /\ Sound("Intel", x) /\ x.memChanged = c.memChanged /\ x.mem = c.mem
      /\ x.memWas = c.memWas /\ x.granted = c.granted /\ x.d0 = c.d0 /\ x.phase = "Open"
  BY DEF Sound, Controller, Phases
<1> HIDE DEF x
<1>2. Tracks(c, x) /\ x \in Controller
  BY <1>1 DEF Tracks, Noted, Sound
<1>3. PICK b \in Then(IntelBind(c), LAMBDA y: IntelContinueBind(y, interp)) :
        o = IF b.ret # "Success" /\ ~PowerPending(b.c)
            THEN Outcome(IntelShutdown(b.c), b.ret) ELSE b
  BY DEF IntelCreate
<1>4. b.c = c \/ b \in IntelContinueBind(x, interp)
  BY <1>3 DEF Then, IntelBind, Outcome, x
<1>5. Tracks(c, b.c) /\ Sound("Intel", b.c)
  <2>1. CASE b.c = c
    BY <2>1, SelfTracks
  <2>2. CASE b \in IntelContinueBind(x, interp)
    <3>1. Tracks(x, b.c) /\ Sound("Intel", b.c)
      BY <1>1, <2>2, ContinueTracks, ContinueSound
    <3> QED BY <1>2, <3>1, TracksTransitive
  <2> QED BY <1>4, <2>1, <2>2
<1>6. o = b \/ o.c = IntelShutdown(b.c)
  BY <1>3 DEF Outcome
<1>7. CASE o.c = IntelShutdown(b.c)
  BY <1>5, <1>7, ShutdownTracks, TracksTransitive DEF Sound
<1> QED BY <1>5, <1>6, <1>7

LEMMA IntelSuspendTracks ==
  ASSUME NEW c \in Controller
  PROVE  Tracks(c, IntelSuspend(c))
<1>1. SameMemory(c, IntelSuspend(c))
  BY DEF SameMemory, IntelSuspend, Controller
<1> QED BY <1>1, SameTracks

LEMMA IntelResumeTracks ==
  ASSUME NEW c, Sound("Intel", c), NEW o \in IntelResume(c)
  PROVE  Tracks(c, o.c)
<1>1. CASE c.phase = "None"
  <2>1. o.c = c
    BY <1>1 DEF IntelResume, Then, Outcome
  <2> QED BY <2>1, SelfTracks
<1>2. CASE c.phase # "None"
  <2>1. PICK p \in {Outcome([a.c EXCEPT !.online = FALSE], a.ret) : a \in AcquirePower(c)} :
          \/ o = p
          \/ o = Outcome(p.c, "Error") \/ o = Outcome(p.c, "NotReady")
          \/ /\ p.c.phase = "Mapped"
             /\ \/ o = Outcome([p.c EXCEPT !.mem = TRUE], "NotReady")
                \/ o = Outcome([p.c EXCEPT !.mem = TRUE, !.online = TRUE], "Success")
    BY <1>2 DEF IntelResume, Then
  <2>2. PICK a \in AcquirePower(c) : p = Outcome([a.c EXCEPT !.online = FALSE], a.ret)
    OBVIOUS
  <2> DEFINE x == [a.c EXCEPT !.online = FALSE]
             y == [x EXCEPT !.mem = TRUE]
             z == [x EXCEPT !.mem = TRUE, !.online = TRUE]
  <2>3. a.c \in Controller /\ SameMemory(c, a.c)
    BY AcquireSame, AcquireTracks DEF SameButPower, Sound
  <2>4. x \in Controller /\ SameMemory(c, x)
    BY <2>3 DEF SameMemory, Controller
  <2>5. p.c = x
    BY <2>2 DEF Outcome
  <2>6. \/ o = p \/ o = Outcome(x, "Error") \/ o = Outcome(x, "NotReady")
        \/ x.phase = "Mapped" /\ (o = Outcome(y, "NotReady") \/ o = Outcome(z, "Success"))
    BY <2>1, <2>5
  <2> HIDE DEF x
  <2>7. ASSUME NEW d \in {y, z}
        PROVE  /\ d.phase = x.phase /\ d.memWas = x.memWas /\ d.memChanged = x.memChanged
               /\ d.granted = x.granted /\ d.d0 = x.d0
    BY <2>4 DEF Controller
  <2> HIDE DEF y, z
  <2>8. o.c = x \/ (x.phase = "Mapped" /\ o.c \in {y, z})
    BY <2>5, <2>6 DEF Outcome
  <2>9. CASE o.c = x
    BY <2>4, <2>9, SameTracks
  <2>10. CASE x.phase = "Mapped" /\ o.c \in {y, z}
    BY <2>4, <2>7, <2>10 DEF Tracks, Noted, SameMemory
  <2> QED BY <2>8, <2>9, <2>10
<1> QED BY <1>1, <1>2

-----------------------------------------------------------------------------
(* The host *)

LEMMA HostTransitive ==
  ASSUME NEW h, NEW g, NEW k, g.kind = h.kind, \A s \in Slots : Sound(g.kind, g.slot[s]),
         HostTracks(h, g), HostTracks(g, k)
  PROVE  HostTracks(h, k)
BY TracksTransitive DEF HostTracks, Sound

LEMMA HostSame ==
  ASSUME NEW h, NEW g, g.slot = h.slot
  PROVE  HostTracks(h, g)
BY SelfTracks DEF HostTracks

\* A round over the slots leaves each as one of its answers, or as it was.
LEMMA InOrderTracks ==
  ASSUME NEW h, HostSound(h), NEW first \in Slots, NEW answers,
         \A s \in Slots : \A o \in answers[s] : Tracks(h.slot[s], o.c),
         NEW r \in InOrder(h, first, answers)
  PROVE  HostTracks(h, r.h)
<1>1. Ran(h, first, answers, r)
  BY InOrderRan DEF HostSound
<1>2. ASSUME NEW s \in Slots
      PROVE  Tracks(h.slot[s], r.h.slot[s])
  <2>1. r.h.slot[s] = h.slot[s] \/ \E o \in answers[s] : o.c = r.h.slot[s]
    BY <1>1 DEF Ran
  <2> QED BY <2>1, SelfTracks
<1> QED BY <1>2 DEF HostTracks

LEMMA HostShutdownTracks ==
  ASSUME NEW h \in Host, \A s \in Slots : Sound(h.kind, h.slot[s])
  PROVE  HostTracks(h, HostShutdown(h))
<1> SUFFICES ASSUME h.kind = "Intel", NEW s \in Slots
             PROVE  Tracks(h.slot[s], HostShutdown(h).slot[s])
  BY DEF HostTracks
<1>1. HostShutdown(h).slot[s] = IntelShutdown(h.slot[s])
  BY DEF HostShutdown, Shutdown, Host
<1> QED BY <1>1, ShutdownTracks

LEMMA HostSuspendTracks ==
  ASSUME NEW h \in Host
  PROVE  HostTracks(h, HostSuspend(h))
<1> SUFFICES ASSUME h.kind = "Intel", NEW s \in Slots
             PROVE  Tracks(h.slot[s], HostSuspend(h).slot[s])
  BY DEF HostTracks
<1>1. HostSuspend(h).slot[s] = IntelSuspend(h.slot[s]) /\ h.slot[s] \in Controller
  BY DEF HostSuspend, Host
<1> QED BY <1>1, IntelSuspendTracks

\* Whether the slots keep a round or are shut down after it.
LEMMA RoundTracks ==
  ASSUME NEW h, HostSound(h), NEW first \in Slots, NEW answers,
         \A s \in Slots : \A o \in answers[s] :
            Sound(h.kind, o.c) /\ (h.kind = "Intel" => Tracks(h.slot[s], o.c)),
         NEW r \in InOrder(h, first, answers)
  PROVE  /\ HostTracks(h, r.h) /\ HostTracks(h, HostShutdown(r.h))
         /\ HostTracks(h, HostSuspend(r.h))
<1>1. r.h \in Host /\ \A s \in Slots : Sound(h.kind, r.h.slot[s])
  BY InOrderSound
<1>2. r.h.kind = h.kind
  BY ZenonT(60), InOrderRan DEF Ran, HostSound
<1>3. HostTracks(h, r.h)
  BY InOrderTracks DEF HostTracks
<1> QED BY <1>1, <1>2, <1>3, HostShutdownTracks, HostSuspendTracks, HostTransitive

LEMMA HostBindTracks ==
  ASSUME NEW h, HostSound(h), NEW interp, NEW o \in HostBind(h, interp)
  PROVE  HostTracks(h, o.h)
<1> DEFINE answers == [s \in Slots |-> Created(h, h.slot[s], interp)]
<1>1. CASE o.h = h
  BY <1>1, HostSame
<1>2. ASSUME ~Bound(h), NEW r \in InOrder(h, 1, answers),
             o = HostOutcome(IF r.ret = "Success" THEN r.h ELSE HostShutdown(r.h), r.ret)
      PROVE  HostTracks(h, o.h)
  <2>1. /\ h.kind \in Kinds /\ \A s \in Slots : Sound(h.kind, h.slot[s]) /\ h.slot[s].phase = "None"
    BY <1>2, UnboundSlots DEF HostSound, Host
  <2>2. ASSUME NEW s \in Slots, NEW x \in answers[s]
        PROVE  Sound(h.kind, x.c) /\ (h.kind = "Intel" => Tracks(h.slot[s], x.c))
    <3>1. Sound(h.kind, x.c)
      BY <2>1, CreatedSound
    <3>2. ASSUME h.kind = "Intel"
          PROVE  Tracks(h.slot[s], x.c)
      <4> DEFINE c == h.slot[s]
      <4>1. PICK b \in CreateController(h, c, interp) : x.c = b.c
        BY DEF Created, Outcome
      <4>2. b.c = c \/ b \in IntelCreate(c, interp)
        BY <3>2, <4>1 DEF CreateController, Then, Resolve, FindPCI, Outcome
      <4> QED BY <2>1, <3>2, <4>1, <4>2, SelfTracks, IntelCreateTracks
    <3> QED BY <3>1, <3>2
  <2>3. 1 \in Slots
    BY ControllersAssumption DEF Slots
  <2> HIDE DEF answers
  <2>4. HostTracks(h, r.h) /\ HostTracks(h, HostShutdown(r.h))
    BY <2>2, <2>3, RoundTracks
  <2> QED BY <1>2, <2>4 DEF HostOutcome
<1>3. \/ o.h = h
      \/ /\ ~Bound(h)
         /\ \E r \in InOrder(h, 1, answers) :
               o = HostOutcome(IF r.ret = "Success" THEN r.h ELSE HostShutdown(r.h), r.ret)
  BY DEF HostBind, HostOutcome
<1> HIDE DEF answers
<1> QED BY <1>1, <1>2, <1>3

LEMMA HostContinueBindTracks ==
  ASSUME NEW h, HostSound(h), NEW interp, NEW o \in HostContinueBind(h, interp)
  PROVE  HostTracks(h, o.h)
<1> DEFINE answers == [s \in Slots |-> Continue(h, h.slot[s], interp)]
<1>1. h.kind \in Kinds /\ (\A s \in Slots : Sound(h.kind, h.slot[s])) /\ 1 \in Slots
  BY ControllersAssumption DEF HostSound, Host, Slots
<1>2. PICK r \in InOrder(h, 1, answers) :
        o = HostOutcome(IF r.ret = "Success" \/ PowerPending(r.h.slot[r.at])
                        THEN r.h ELSE HostShutdown(r.h), r.ret)
  BY DEF HostContinueBind
<1>3. ASSUME NEW s \in Slots, NEW x \in answers[s]
      PROVE  Sound(h.kind, x.c) /\ (h.kind = "Intel" => Tracks(h.slot[s], x.c))
  <2>1. CASE h.kind = "AMD" \/ h.slot[s].phase = "None"
    <3>1. x.c = h.slot[s]
      BY <2>1 DEF Continue, Outcome
    <3> QED BY <1>1, <3>1, SelfTracks
  <2>2. CASE h.kind # "AMD" /\ h.slot[s].phase # "None"
    <3>1. x \in IntelContinueBind(h.slot[s], interp) /\ h.kind = "Intel"
      BY <1>1, <2>2 DEF Continue, Kinds
    <3> QED BY <1>1, <3>1, ContinueTracks, ContinueSound
  <2> QED BY <2>1, <2>2
<1> HIDE DEF answers
<1>4. HostTracks(h, r.h) /\ HostTracks(h, HostShutdown(r.h))
  BY <1>1, <1>2, <1>3, RoundTracks
<1> QED BY <1>2, <1>4 DEF HostOutcome

LEMMA HostResumeTracks ==
  ASSUME NEW h, HostSound(h), NEW o \in HostResume(h)
  PROVE  HostTracks(h, o.h)
<1> DEFINE answers == Woken(h)
           first == h.resumeSlot
<1>1. CASE ~Bound(h)
  <2>1. o.h = h
    BY <1>1 DEF HostResume, HostOutcome
  <2> QED BY <2>1, HostSame
<1>2. CASE Bound(h)
  <2>1. /\ h.kind \in Kinds /\ first \in Slots /\ \A s \in Slots : Sound(h.kind, h.slot[s])
        /\ \A s \in Slots : h.slot[s].phase # "None"
    BY <1>2, BoundSlots DEF HostSound, Host
  <2>2. ASSUME NEW s \in Slots, NEW x \in answers[s]
        PROVE  Sound(h.kind, x.c) /\ (h.kind = "Intel" => Tracks(h.slot[s], x.c))
    <3>1. Sound(h.kind, x.c)
      BY <2>1, WokenSound
    <3>2. h.kind = "Intel" => x \in IntelResume(h.slot[s])
      BY DEF Woken
    <3> QED BY <2>1, <3>1, <3>2, IntelResumeTracks
  <2>3. PICK r \in InOrder(h, first, answers) :
          \/ \E k : o.h = [r.h EXCEPT !.resumeSlot = k]
          \/ o.h = HostSuspend(r.h)
    <3>1. PICK r \in InOrder(h, first, answers) :
            o = HostOutcome(CASE r.ret = "Success" -> [r.h EXCEPT !.resumeSlot = 1]
                              [] r.ret # "Success" /\ PowerPending(r.h.slot[r.at]) ->
                                    [r.h EXCEPT !.resumeSlot = r.at]
                              [] OTHER -> HostSuspend(r.h), r.ret)
      BY <1>2, Zenon DEF HostResume
    <3> HIDE DEF answers, first
    <3>2. CASE r.ret = "Success"
      BY <3>1, <3>2 DEF HostOutcome
    <3>3. CASE r.ret # "Success" /\ PowerPending(r.h.slot[r.at])
      BY <3>1, <3>3 DEF HostOutcome
    <3>4. CASE r.ret # "Success" /\ ~PowerPending(r.h.slot[r.at])
      BY <3>1, <3>4 DEF HostOutcome
    <3> QED BY <3>2, <3>3, <3>4
  <2> HIDE DEF answers, first
  <2>4. HostTracks(h, r.h) /\ HostTracks(h, HostSuspend(r.h))
    BY <2>1, <2>2, RoundTracks
  <2>5. r.h \in Host
    BY <2>1, <2>2, InOrderSound
  <2>6. (\E k : o.h = [r.h EXCEPT !.resumeSlot = k]) => o.h.slot = r.h.slot
    BY <2>5 DEF Host
  <2> QED BY <2>3, <2>4, <2>6 DEF HostTracks
<1> QED BY <1>1, <1>2

-----------------------------------------------------------------------------
(* The unit *)

LEMMA UnitTransitive ==
  ASSUME NEW u, UnitSound(u), NEW v, UnitSound(v), NEW w,
         HostTracks(u.host, v.host), HostTracks(v.host, w.host)
  PROVE  HostTracks(u.host, w.host)
<1>1. v.host.kind = u.host.kind
  BY DEF UnitSound, OnItsBus, HostSound, Host, Kinds
<1> QED BY <1>1, HostTransitive DEF UnitSound, HostSound

LEMMA TeardownTracks ==
  ASSUME NEW u, UnitSound(u)
  PROVE  HostTracks(u.host, TeardownCommunication(u).host)
<1>1. TeardownCommunication(u).host = HostShutdown(u.host)
  BY DEF TeardownCommunication, ReleaseAmplifierDrivers, UnitSound, Unit
<1> QED BY <1>1, HostShutdownTracks DEF UnitSound, HostSound

LEMMA PowerDownTracks ==
  ASSUME NEW u, UnitSound(u), NEW d \in PowerDown(u)
  PROVE  HostTracks(u.host, d.host)
<1>1. PICK w : /\ d = SuspendCommunication(w)
               /\ w = u \/ \E m : w = [u EXCEPT !.manager = m]
  BY DEF PowerDown, ReleaseAmplifierDrivers
<1>2. d.host = HostSuspend(u.host)
  BY <1>1 DEF SuspendCommunication, UnitSound, Unit
<1> QED BY <1>2, HostSuspendTracks DEF UnitSound, HostSound

LEMMA SetupTracks ==
  ASSUME NEW u, UnitSound(u), NEW o \in SetupCommunication(u)
  PROVE  HostTracks(u.host, o.u.host)
<1>1. CASE bus = "I2C"
  <2> DEFINE no == [u EXCEPT !.authorized = FALSE]
             yes == [u EXCEPT !.authorized = TRUE]
  <2>1. o \in {UnitOutcome(u, FALSE), UnitOutcome(u, TRUE), UnitOutcome(no, TRUE),
               UnitOutcome(yes, TRUE)}
    BY <1>1 DEF SetupCommunication, SetupI2C, AdoptDiscoveredBoard, PreflightI2CIdentity
  <2>2. no.host = u.host /\ yes.host = u.host
    BY DEF UnitSound, Unit
  <2> HIDE DEF no, yes
  <2>3. o.u.host = u.host
    BY <2>1, <2>2 DEF UnitOutcome
  <2> QED BY <2>3, HostSame
<1>2. CASE bus # "I2C" /\ o = UnitOutcome(u, FALSE)
  BY <1>2, HostSame DEF UnitOutcome
<1>3. CASE bus # "I2C" /\ o # UnitOutcome(u, FALSE)
  <2> DEFINE v(b) == [u EXCEPT !.host = b.h]
             n(b) == [v(b) EXCEPT !.authorized = FALSE]
  <2>1. PICK b \in BindSPI(u) :
          \/ o \in {UnitOutcome(v(b), TRUE), UnitOutcome(n(b), TRUE), UnitOutcome(n(b), FALSE)}
          \/ o \in AuthorizeSPI(v(b))
    BY <1>3 DEF SetupCommunication, SetupSPI
  <2>2. HostTracks(u.host, b.h)
    BY HostBindTracks, HostContinueBindTracks DEF BindSPI, UnitSound
  <2>3. HostSound(b.h) /\ OnItsBus(b.h)
    BY <1>3, BindSPISound
  <2> DEFINE w == v(b)
             x == n(b)
  <2>4. UnitSound(w) /\ w.host = b.h /\ x.host = b.h
    BY <2>3, HostUpdate DEF UnitSound, Unit
  <2>5. \/ o \in {UnitOutcome(w, TRUE), UnitOutcome(x, TRUE), UnitOutcome(x, FALSE)}
        \/ o \in AuthorizeSPI(w)
    BY <2>1
  <2> HIDE DEF w, x
  <2>6. CASE o \in {UnitOutcome(w, TRUE), UnitOutcome(x, TRUE), UnitOutcome(x, FALSE)}
    BY <2>2, <2>4, <2>6 DEF UnitOutcome
  <2>7. CASE o \in AuthorizeSPI(w)
    <3>1. o.u.host.slot = w.host.slot
      BY <2>4, <2>7, AuthorizeSPISound
    <3> QED BY <2>2, <2>4, <3>1 DEF HostTracks
  <2> QED BY <2>5, <2>6, <2>7
<1> QED BY <1>1, <1>2, <1>3

LEMMA FinishStartupTracks ==
  ASSUME NEW u, UnitSound(u), u.manager = "Unbound", Ready(u), NEW f \in FinishStartup(u)
  PROVE  HostTracks(u.host, f.u.host)
<1>1. PICK b : /\ \/ b = UnitOutcome(u, TRUE)
                  \/ \E o \in PerformPlatformHardwareReset(u) :
                           \/ b = UnitOutcome(TeardownCommunication(o.u), FALSE)
                           \/ \E d \in DetectAndBringUp(o.u) : b = UnitOutcome(d, TRUE)
               /\ f = b \/ f = UnitOutcome(b.u, FALSE)
  BY DEF FinishStartup
<1>2. HostTracks(u.host, b.u.host)
  <2>1. CASE b = UnitOutcome(u, TRUE)
    BY <2>1, HostSame DEF UnitOutcome
  <2>2. ASSUME NEW o \in PerformPlatformHardwareReset(u)
        PROVE  UnitSound(o.u) /\ o.u.manager = "Unbound" /\ HostTracks(u.host, o.u.host)
    BY ResetSound, HostSame
  <2>3. ASSUME NEW o \in PerformPlatformHardwareReset(u),
               b = UnitOutcome(TeardownCommunication(o.u), FALSE)
        PROVE  HostTracks(u.host, b.u.host)
    BY <2>2, <2>3, TeardownTracks, UnitTransitive, TeardownSound DEF UnitOutcome
  <2>4. ASSUME NEW o \in PerformPlatformHardwareReset(u), NEW d \in DetectAndBringUp(o.u),
               b = UnitOutcome(d, TRUE)
        PROVE  HostTracks(u.host, b.u.host)
    BY <2>2, <2>4, DetectSound DEF SameBus, UnitOutcome
  <2> QED BY <1>1, <2>1, <2>3, <2>4
<1>3. f.u = b.u
  BY <1>1 DEF UnitOutcome
<1> QED BY <1>2, <1>3

LEMMA PowerUpTracks ==
  ASSUME NEW u, UnitSound(u), NEW w \in PowerUp(u),
         u.manager \in {"Unbound", "Suspended", "Faulted"}
  PROVE  HostTracks(u.host, w.u.host)
<1>1. PICK x \in ResumeCommunication(u) :
        \/ w = x
        \/ /\ u.manager # "Suspended"
           /\ \E d \in BringUpAmplifiers(x.u) : w = [u |-> d, bus |-> "Ready"]
        \/ \E m : w = [u |-> [Touch(x.u) EXCEPT !.manager = m], bus |-> "Ready"]
  BY DEF PowerUp
<1>2. UnitSound(x.u) /\ x.u.manager = u.manager
  BY ResumeSound
<1>3. HostTracks(u.host, x.u.host)
  <2>1. PICK o \in HostResume(u.host) : x.u = [u EXCEPT !.host = o.h]
    BY DEF ResumeCommunication
  <2>2. x.u.host = o.h
    BY <2>1 DEF UnitSound, Unit
  <2> QED BY <2>1, <2>2, HostResumeTracks DEF UnitSound
<1>4. w.u.host = x.u.host
  <2>1. CASE w = x
    BY <2>1
  <2>2. ASSUME NEW d \in BringUpAmplifiers(x.u), w = [u |-> d, bus |-> "Ready"],
               u.manager # "Suspended"
        PROVE  w.u.host = x.u.host
    BY <1>2, <2>2, BringUpSound DEF SameBus
  <2>3. ASSUME NEW m, w = [u |-> [Touch(x.u) EXCEPT !.manager = m], bus |-> "Ready"]
        PROVE  w.u.host = x.u.host
    <3>1. w.u = [Touch(x.u) EXCEPT !.manager = m] /\ Touch(x.u) \in Unit
          /\ Touch(x.u).host = x.u.host
      BY <1>2, <2>3, TouchSound DEF UnitSound
    <3> QED BY <3>1 DEF Unit
  <2> QED BY <1>1, <2>1, <2>2, <2>3
<1> QED BY <1>3, <1>4

-----------------------------------------------------------------------------
(* The service *)

LEMMA EndedTracks ==
  ASSUME NEW u, UnitSound(u), NEW d \in PowerDown(u)
  PROVE  HostTracks(u.host, TeardownCommunication(d).host)
BY PowerDownSound, PowerDownTracks, TeardownTracks, UnitTransitive

LEMMA StartTracks ==
  ASSUME IInv, Start
  PROVE  HostTracks(unit.host, unit'.host)
<1> DEFINE base == [Untouched EXCEPT !.detected = FALSE]
<1>1. unit.manager = "Unbound" /\ ~Bound(unit.host) /\ ~sleptPending
  BY DEF Start, IInv, OffStage
<1>2. UnitSound(base) /\ base.host = unit.host /\ base.manager = "Unbound" /\ ~base.detected
      /\ base.touched # "Dead"
  BY <1>1, UntouchedSound, ForgottenSound DEF SameBus
<1>3. PICK r \in ResolvePlatformProfile(base) :
        \E o \in SetupCommunication(r) :
          \/ unit' = o.u
          \/ /\ o.ok /\ ~HostPending(o.u.host)
             /\ \E f \in FinishStartup(o.u) :
                   \/ unit' = f.u
                   \/ \E d \in PowerDown(f.u) : unit' = TeardownCommunication(d)
          \/ \E d \in PowerDown(o.u) : unit' = TeardownCommunication(d)
  BY DEF Start
<1>4. PICK o \in SetupCommunication(r) :
          \/ unit' = o.u
          \/ /\ o.ok /\ ~HostPending(o.u.host)
             /\ \E f \in FinishStartup(o.u) :
                   \/ unit' = f.u
                   \/ \E d \in PowerDown(f.u) : unit' = TeardownCommunication(d)
          \/ \E d \in PowerDown(o.u) : unit' = TeardownCommunication(d)
  BY <1>3
<1> HIDE DEF base
<1>5. Prepared(r) /\ r.host = unit.host
  <2>1. MappedOnline(unit.host)
    BY <1>1, UnboundSlots DEF IInv
  <2> QED BY <1>2, <2>1, ProfileSound DEF Prepared, IInv
<1>6. /\ Prepared(o.u) /\ UnitSound(o.u) /\ HostTracks(unit.host, o.u.host)
      /\ o.ok /\ ~HostPending(o.u.host) => Ready(o.u)
  BY <1>5, PreparedSetup, SetupTracks DEF Prepared, Ready
<1>7. CASE unit' = o.u
  BY <1>6, <1>7
<1>8. ASSUME NEW v, UnitSound(v), HostTracks(unit.host, v.host), NEW d \in PowerDown(v),
             unit' = TeardownCommunication(d)
      PROVE  HostTracks(unit.host, unit'.host)
  BY <1>2, <1>8, EndedTracks, UnitTransitive
<1>9. ASSUME o.ok, ~HostPending(o.u.host), NEW f \in FinishStartup(o.u)
      PROVE  UnitSound(f.u) /\ HostTracks(unit.host, f.u.host)
  <2>1. HostTracks(o.u.host, f.u.host)
    BY <1>6, <1>9, FinishStartupTracks DEF Prepared
  <2>2. UnitSound(f.u)
    <3>1. bus = "I2C" \/ (Bound(o.u.host) /\ AllMapped(o.u.host))
      BY <1>5, <1>9, PreparedSetup
    <3>2. pmInitialized \in BOOLEAN
      BY FlagsType DEF IInv, Flags
    <3> QED BY <1>6, <1>9, <3>1, <3>2, FinishStartupSound DEF Prepared
  <2>3. UnitSound(unit)
    BY UntouchedSound
  <2> QED BY <1>6, <2>1, <2>2, <2>3, UnitTransitive
<1> QED BY <1>4, <1>6, <1>7, <1>8, <1>9

LEMMA StopTracks ==
  ASSUME IInv, Stop
  PROVE  HostTracks(unit.host, unit'.host)
<1>1. UnitSound(Untouched) /\ Untouched.host = unit.host
  BY UntouchedSound
<1>2. PICK d \in PowerDown(Untouched) \cup {Untouched} : unit' = TeardownCommunication(d)
  BY DEF Stop
<1> QED BY <1>1, <1>2, EndedTracks, TeardownTracks

LEMMA ContinueStartupTracks ==
  ASSUME IInv, ContinueStartup
  PROVE  HostTracks(unit.host, unit'.host)
<1>1. unit.manager = "Unbound" /\ ~unit.detected /\ Bound(unit.host)
  BY DEF ContinueStartup, IInv, Starting
<1>2. UnitSound(unit) /\ UnitSound(Untouched) /\ Untouched.host = unit.host
      /\ Untouched.manager = "Unbound" /\ Untouched.touched = "No" /\ ~Untouched.detected
  BY <1>1, UntouchedSound
<1>3. PICK b \in HostContinueBind(unit.host, interpreter) :
       LET bound == [Untouched EXCEPT !.host = b.h]
       IN  \/ unit' = bound \/ unit' = TeardownCommunication(bound)
           \/ /\ b.ret = "Success"
              /\ \E o \in SetupCommunication(bound) :
                 \/ unit' = TeardownCommunication(o.u)
                 \/ /\ o.ok
                    /\ \E f \in FinishStartup(o.u) :
                          unit' = f.u \/ unit' = TeardownCommunication(f.u)
  BY DEF ContinueStartup, StartupFails
<1> DEFINE bound == [Untouched EXCEPT !.host = b.h]
<1>4. /\ HostSound(b.h) /\ OnItsBus(b.h) /\ HostTracks(unit.host, b.h)
      /\ b.ret = "Success" => AllMapped(b.h) /\ Bound(b.h)
  <2>1. HostSound(unit.host) /\ OnItsBus(unit.host)
    BY <1>2 DEF UnitSound
  <2>2. /\ HostSound(b.h) /\ SameHost(unit.host, b.h)
        /\ b.ret = "Success" => \A s \in Slots : b.h.slot[s].phase = "Mapped"
    BY <1>1, <2>1, HostContinueBindSound
  <2>3. OnItsBus(b.h)
    BY <1>1, <2>1, <2>2 DEF OnItsBus, SameHost
  <2>4. b.ret = "Success" => AllMapped(b.h) /\ Bound(b.h)
    BY <2>2, ControllersAssumption DEF AllMapped, Bound, Slots
  <2> QED BY <2>1, <2>2, <2>3, <2>4, HostContinueBindTracks
<1>5. /\ UnitSound(bound) /\ bound.host = b.h /\ bound.manager = "Unbound"
      /\ HostTracks(unit.host, bound.host)
  BY <1>2, <1>4, HostUpdate
<1>6. \/ unit' = bound \/ unit' = TeardownCommunication(bound)
      \/ /\ b.ret = "Success"
         /\ \E o \in SetupCommunication(bound) :
                 \/ unit' = TeardownCommunication(o.u)
                 \/ /\ o.ok
                    /\ \E f \in FinishStartup(o.u) :
                          unit' = f.u \/ unit' = TeardownCommunication(f.u)
  BY <1>3
<1>7. bound.detected = FALSE /\ bound.touched = "No"
  BY <1>2 DEF UnitSound, Unit
<1> HIDE DEF bound
<1>8. ASSUME NEW v, UnitSound(v), HostTracks(unit.host, v.host)
      PROVE  HostTracks(unit.host, TeardownCommunication(v).host)
  BY <1>2, <1>8, TeardownTracks, UnitTransitive
<1>9. ASSUME b.ret = "Success", NEW o \in SetupCommunication(bound)
      PROVE  /\ UnitSound(o.u) /\ HostTracks(unit.host, o.u.host)
             /\ o.u.manager = "Unbound" /\ ~o.u.detected /\ o.u.touched # "Dead"
             /\ o.ok => bus = "I2C" \/ (Bound(o.u.host) /\ AllMapped(o.u.host))
  <2>1. /\ Attached(bound, o.u)
        /\ o.ok => bus = "I2C" \/ (Bound(o.u.host) /\ AllMapped(o.u.host))
    BY <1>4, <1>5, <1>9, SetupSound
  <2>2. HostTracks(unit.host, o.u.host)
    BY <1>2, <1>5, <1>9, SetupTracks, UnitTransitive
  <2> QED BY <1>5, <1>7, <2>1, <2>2 DEF Attached, SameService
<1>10. ASSUME b.ret = "Success", NEW o \in SetupCommunication(bound), o.ok,
              NEW f \in FinishStartup(o.u)
       PROVE  UnitSound(f.u) /\ HostTracks(unit.host, f.u.host)
  <2>1. /\ UnitSound(o.u) /\ HostTracks(unit.host, o.u.host)
        /\ o.u.manager = "Unbound" /\ ~o.u.detected /\ o.u.touched # "Dead"
        /\ bus = "I2C" \/ (Bound(o.u.host) /\ AllMapped(o.u.host))
    BY <1>9, <1>10
  <2>2. pmInitialized \in BOOLEAN
    BY FlagsType DEF IInv, Flags
  <2>3. UnitSound(f.u)
    BY <1>10, <2>1, <2>2, FinishStartupSound
  <2>4. HostTracks(o.u.host, f.u.host)
    BY <1>10, <2>1, FinishStartupTracks DEF Ready
  <2> QED BY <1>2, <2>1, <2>3, <2>4, UnitTransitive
<1>11. CASE unit' = bound \/ unit' = TeardownCommunication(bound)
  BY <1>5, <1>8, <1>11
<1>12. CASE /\ b.ret = "Success"
            /\ \E o \in SetupCommunication(bound) :
                 \/ unit' = TeardownCommunication(o.u)
                 \/ /\ o.ok
                    /\ \E f \in FinishStartup(o.u) :
                          unit' = f.u \/ unit' = TeardownCommunication(f.u)
  BY <1>8, <1>9, <1>10, <1>12
<1> QED BY <1>6, <1>11, <1>12

LEMMA RetryTracks ==
  ASSUME IInv, RetryPlatformIdentity
  PROVE  HostTracks(unit.host, unit'.host)
<1>1. unit.manager = "Unbound" /\ ~unit.detected
  BY DEF RetryPlatformIdentity, IInv, IdentityFirst
<1>2. UnitSound(unit) /\ UnitSound(Untouched) /\ Untouched.host = unit.host
      /\ Untouched.manager = "Unbound"
  BY <1>1, UntouchedSound
<1>3. PICK r \in ResolvePlatformProfile(Untouched) :
       \/ unit' = r
       \/ \E o \in SetupCommunication(IF r.authorized THEN TeardownCommunication(r) ELSE r) :
            \/ unit' = o.u
            \/ /\ o.ok /\ ~(o.ok /\ o.u.authorized /\ HostPending(o.u.host)) /\ o.u.authorized
               /\ \E p \in PerformPlatformHardwareReset(o.u) :
                     unit' = p.u \/ unit' \in DetectAndBringUp(p.u)
  BY DEF RetryPlatformIdentity
<1>4. UnitSound(r) /\ r.host = unit.host /\ r.manager = "Unbound"
  BY <1>2, ProfileSound DEF IInv
<1> DEFINE base == IF r.authorized THEN TeardownCommunication(r) ELSE r
<1>5. UnitSound(base) /\ HostTracks(unit.host, base.host) /\ base.manager = "Unbound"
  <2>1. CASE r.authorized
    BY <1>4, <2>1, TeardownSound, TeardownTracks
  <2>2. CASE ~r.authorized
    BY <1>4, <2>2, HostSame
  <2> QED BY <2>1, <2>2
<1> HIDE DEF base
<1>6. CASE unit' = r
  BY <1>4, <1>6, HostSame
<1>7. ASSUME NEW o \in SetupCommunication(base)
      PROVE  /\ UnitSound(o.u) /\ HostTracks(unit.host, o.u.host) /\ o.u.manager = "Unbound"
             /\ o.ok /\ ~HostPending(o.u.host) => Ready(o.u)
  <2>1. Attached(base, o.u) /\ (o.ok /\ ~HostPending(o.u.host) => Ready(o.u))
    BY <1>5, <1>7, SetupSound DEF Ready
  <2>2. HostTracks(base.host, o.u.host)
    BY <1>5, <1>7, SetupTracks
  <2> QED BY <1>2, <1>5, <2>1, <2>2, UnitTransitive DEF Attached
<1>8. ASSUME NEW o \in SetupCommunication(base), o.ok, ~HostPending(o.u.host),
             NEW p \in PerformPlatformHardwareReset(o.u),
             unit' = p.u \/ unit' \in DetectAndBringUp(p.u)
      PROVE  HostTracks(unit.host, unit'.host)
  <2>1. UnitSound(p.u) /\ p.u.manager = "Unbound" /\ p.u.host.slot = o.u.host.slot
    BY <1>7, <1>8, ResetSound
  <2>2. unit'.host = p.u.host
    BY <1>8, <2>1, DetectSound DEF SameBus
  <2> QED BY <1>7, <1>8, <2>1, <2>2 DEF HostTracks
<1>9. unit' = r \/ \E o \in SetupCommunication(base) :
            \/ unit' = o.u
            \/ /\ o.ok /\ ~HostPending(o.u.host)
               /\ \E p \in PerformPlatformHardwareReset(o.u) :
                     unit' = p.u \/ unit' \in DetectAndBringUp(p.u)
  BY <1>3 DEF base
<1> QED BY <1>6, <1>7, <1>8, <1>9

LEMMA ContinueResumeTracks ==
  ASSUME IInv, ContinueResume
  PROVE  HostTracks(unit.host, unit'.host)
<1>1. UnitSound(Untouched) /\ Untouched.host = unit.host /\ Untouched.manager = unit.manager
  BY UntouchedSound
<1>2. unit.manager \in {"Unbound", "Suspended", "Faulted"}
  BY DEF ContinueResume, IInv, Excluded, Members, RunningManagers, TypeOK, Unit, Managers
<1>3. PICK w \in PowerUp(Untouched) : unit' = w.u
  BY DEF ContinueResume
<1> QED BY <1>1, <1>2, <1>3, PowerUpTracks

LEMMA MonitorTracks ==
  ASSUME IInv, Monitor
  PROVE  HostTracks(unit.host, unit'.host)
<1>1. UnitSound(unit) /\ Untouched.host = unit.host
  BY UntouchedSound
<1>2. unit' = Untouched \/ \E m : unit' = [Touch(unit) EXCEPT !.manager = m]
  BY DEF Monitor
<1>3. Touch(unit) \in Unit /\ Touch(unit).host = unit.host
  BY <1>1, TouchSound DEF UnitSound
<1>4. unit'.host = unit.host
  BY <1>1, <1>2, <1>3 DEF Unit
<1> QED BY <1>4, HostSame

LEMMA SleepTracks ==
  ASSUME IInv, Sleep
  PROVE  HostTracks(unit.host, unit'.host)
<1>1. UnitSound(Untouched) /\ Untouched.host = unit.host
  BY UntouchedSound
<1>2. unit' \in PowerDown(Untouched) \/ unit' = unit
  BY DEF Sleep
<1> QED BY <1>1, <1>2, PowerDownTracks, HostSame

LEMMA WakeTracks ==
  ASSUME IInv, Wake
  PROVE  HostTracks(unit.host, unit'.host)
<1>1. UnitSound(Untouched) /\ Untouched.host = unit.host /\ Untouched.manager = unit.manager
  BY UntouchedSound
<1>2. unit' = unit \/ (~power /\ \E w \in PowerUp(Untouched) : unit' = w.u)
  BY DEF Wake
<1>3. ~power => unit.manager \in {"Unbound", "Suspended", "Faulted"}
  BY DEF IInv, Members, RunningManagers, TypeOK, Unit, Managers
<1> QED BY <1>1, <1>2, <1>3, PowerUpTracks, HostSame

LEMMA ServiceTracks ==
  ASSUME IInv, ServiceStep
  PROVE  HostTracks(unit.host, unit'.host)
<1>1. CASE TimerIgnored \/ AckExpires
  BY <1>1, HostSame DEF TimerIgnored, AckExpires
<1> QED BY <1>1, StartTracks, StopTracks, ContinueStartupTracks, ContinueResumeTracks,
           RetryTracks, MonitorTracks, SleepTracks, WakeTracks DEF ServiceStep

-----------------------------------------------------------------------------
(* What is remembered is what was found *)

Remembers ==
    unit.host.kind = "Intel" =>
        \A s \in Slots : LET c == unit.host.slot[s]
                         IN  Noted(c) /\ (c.memChanged => c.memWas = found[s])

\* The step MemoryRestored speaks of.
Restores ==
    \A s \in Slots : LET old == unit.host.slot[s]
                         new == unit.host.slot[s]'
                     IN  old.memChanged /\ old.d0 /\ new.d0 /\ new.phase = "None"
                           => new.mem = found[s]

LEMMA FoundNext ==
  ASSUME Recorded, NEW s \in Slots
  PROVE  found'[s] = IF ~unit.host.slot[s].memChanged THEN unit.host.slot[s].mem ELSE found[s]
BY DEF Recorded

LEMMA SameKind ==
  ASSUME IInv, IInv', bus' = bus
  PROVE  unit'.host.kind = unit.host.kind /\ unit.host.kind \in Kinds
<1>1. unit.host.kind \in Kinds /\ (unit.host.kind = "AMD" <=> bus = "AMD")
  BY DEF IInv, HostSound, Host, OnItsBus
<1>2. unit'.host.kind \in Kinds /\ (unit'.host.kind = "AMD" <=> bus' = "AMD")
  BY DEF IInv, HostSound, Host, OnItsBus
<1> QED BY <1>1, <1>2 DEF Kinds

LEMMA ServiceRestores ==
  ASSUME IInv, IInv', bus' = bus, Recorded, Remembers, HostTracks(unit.host, unit'.host)
  PROVE  Remembers' /\ Restores
<1> DEFINE c(s) == unit.host.slot[s]
           d(s) == unit'.host.slot[s]
<1>1. CASE unit.host.kind = "Intel"
  <2>1. ASSUME NEW s \in Slots
        PROVE  /\ Noted(d(s)) /\ (d(s).memChanged => d(s).memWas = found'[s])
               /\ c(s).memChanged /\ c(s).d0 /\ d(s).phase = "None" => d(s).mem = found[s]
    <3>1. Noted(c(s)) /\ (c(s).memChanged => c(s).memWas = found[s])
      BY <1>1 DEF Remembers
    <3>2. Sound("Intel", c(s)) /\ Sound("Intel", d(s))
      BY <1>1, SameKind DEF IInv, HostSound
    <3>3. Tracks(c(s), d(s))
      BY <1>1 DEF HostTracks
    <3>4. found'[s] = IF ~c(s).memChanged THEN c(s).mem ELSE found[s]
      BY FoundNext
    <3> HIDE DEF c, d
    <3> QED BY <3>1, <3>2, <3>3, <3>4 DEF Tracks, Sound, Noted
  <2> QED BY <2>1 DEF Remembers, Restores
<1>2. CASE unit.host.kind = "AMD"
  BY <1>2, SameKind DEF Remembers, Restores, IInv, HostSound, Sound
<1> QED BY <1>1, <1>2, SameKind DEF Kinds

\* The world changes the enable and the power, never what the driver remembers.
Elsewhere(c, d) == d.phase = c.phase /\ d.memChanged = c.memChanged /\ d.memWas = c.memWas

LEMMA WorldRestores ==
  ASSUME IInv, IInv', bus' = bus, Recorded, Remembers,
         \A s \in Slots : Elsewhere(unit.host.slot[s], unit'.host.slot[s])
  PROVE  Remembers' /\ Restores
<1>1. ASSUME NEW s \in Slots, unit.host.kind = "Intel"
      PROVE  /\ Noted(unit'.host.slot[s])
             /\ unit'.host.slot[s].memChanged => unit'.host.slot[s].memWas = found'[s]
  BY <1>1, FoundNext DEF Remembers, Elsewhere, Noted
<1>2. ASSUME NEW s \in Slots
      PROVE  unit.host.slot[s].memChanged => unit'.host.slot[s].phase = "Mapped"
  BY DEF IInv, HostSound, Sound, Elsewhere
<1> QED BY <1>1, <1>2, SameKind DEF Remembers, Restores

LEMMA PowerManagerElsewhere ==
  ASSUME IInv, PowerManager
  PROVE  \A s \in Slots : Elsewhere(unit.host.slot[s], unit'.host.slot[s])
<1>a. PICK s \in Slots :
        \E d : /\ \/ d \in Granted(unit.host.slot[s]) \/ d = Dropped(unit.host.slot[s])
                  \/ d = [unit.host.slot[s] EXCEPT !.d0 = ~@]
               /\ unit' = [Untouched EXCEPT !.host.slot[s] = d]
  BY ZenonT(60) DEF PowerManager
<1>1. PICK d :
        /\ \/ d \in Granted(unit.host.slot[s]) \/ d = Dropped(unit.host.slot[s])
           \/ d = [unit.host.slot[s] EXCEPT !.d0 = ~@]
        /\ unit' = [Untouched EXCEPT !.host.slot[s] = d]
  BY <1>a
<1>2. unit \in Unit /\ unit.host \in Host /\ unit.host.slot[s] \in Controller
  BY UnitControllers DEF IInv
<1>3. Elsewhere(unit.host.slot[s], d)
  BY <1>1, <1>2 DEF Granted, Dropped, Elsewhere, Controller
<1> DEFINE h == [unit.host EXCEPT !.slot[s] = d]
<1>4. \A t \in Slots : h.slot[t] = IF t = s THEN d ELSE unit.host.slot[t]
  BY <1>2 DEF Host
<1>5. unit' = [unit EXCEPT !.touched = "No", !.host = h]
  BY <1>1, <1>2 DEF Untouched, Unit
<1> HIDE DEF h
<1>6. unit'.host = h
  BY <1>2, <1>5 DEF Unit
<1> QED BY <1>3, <1>4, <1>6 DEF Elsewhere

LEMMA TickElsewhere ==
  ASSUME IInv, Tick
  PROVE  \A s \in Slots : Elsewhere(unit.host.slot[s], unit'.host.slot[s])
<1>1. unit \in Unit /\ unit.host \in Host /\ \A s \in Slots : unit.host.slot[s] \in Controller
  BY UnitControllers DEF IInv
<1> DEFINE slot == [s \in Slots |-> TickController(unit.host.slot[s])]
           h == [unit.host EXCEPT !.slot = slot]
<1>2. unit' = [unit EXCEPT !.host = h]
  BY <1>1 DEF Tick, Unit
<1> HIDE DEF slot
<1>3. h.slot = slot
  BY <1>1 DEF Host
<1> HIDE DEF h
<1>4. unit'.host.slot = slot
  BY <1>1, <1>2, <1>3 DEF Unit
<1>5. ASSUME NEW c \in Controller
      PROVE  Elsewhere(c, TickController(c))
  BY DEF Elsewhere, TickController, Controller
<1> QED BY <1>1, <1>4, <1>5 DEF slot

LEMMA InitRemembers == Init => Remembers
<1> SUFFICES ASSUME Init PROVE Remembers
  OBVIOUS
<1>1. PICK d0 \in BOOLEAN, mem \in BOOLEAN :
        \A s \in Slots : unit.host.slot[s] = Unopened(d0, mem)
  BY DEF Init
<1> QED BY <1>1 DEF Remembers, Noted, Unopened

LEMMA NextRestores == IInv /\ IInv' /\ Remembers /\ [Next]_vars => Remembers' /\ [Restores]_vars
<1> SUFFICES ASSUME IInv, IInv', Remembers, [Next]_vars PROVE Remembers' /\ [Restores]_vars
  OBVIOUS
<1>1. CASE ServiceStep /\ UNCHANGED world /\ Recorded
  BY <1>1, ServiceTracks, ServiceRestores DEF world
<1>2. CASE PowerManager /\ UNCHANGED <<control, clock, system, world>> /\ Recorded
  BY <1>2, PowerManagerElsewhere, WorldRestores DEF world
<1>3. CASE Tick /\ UNCHANGED world /\ Recorded
  BY <1>3, TickElsewhere, WorldRestores DEF world
<1>4. CASE UNCHANGED <<unit, bus>> /\ Recorded
  BY <1>4, WorldRestores DEF Elsewhere
<1>5. CASE UNCHANGED vars
  BY <1>5 DEF vars, history, Remembers
<1> QED BY <1>1, <1>2, <1>3, <1>4, <1>5 DEF Next

LEMMA Remembered == Spec => [](IInv /\ Remembers)
<1>1. Init => IInv /\ Remembers
  BY InitInv, InitRemembers
<1>2. IInv /\ Remembers /\ [Next]_vars => (IInv /\ Remembers)'
  BY NextInv, NextRestores
<1> QED BY <1>1, <1>2, PTL DEF Spec

\* Whatever slept, woke, pended, failed or was bound again in between, a
\* function that is released in D0 has the memory enable it had before it was
\* bound (IntelLPSSSPIController.cpp:476-478, 851-860).
THEOREM MemoryIsRestored == Spec => MemoryRestored
<1>1. IInv /\ Remembers /\ IInv' /\ [Next]_vars => [Restores]_vars
  BY NextRestores
<1> QED BY <1>1, Remembered, PTL DEF Spec, MemoryRestored, Restores

=============================================================================
