------------------------ MODULE SpeakerBringUpProofs ------------------------
(***************************************************************************)
(* What a CS35L41 promises over its whole bring-up, for every bound on the *)
(* failures.  A routine of the driver is proved by what it leaves alone    *)
(* (Frame), what it may have changed, and what is certain where it         *)
(* succeeded; the hooks are put together of these facts, and the invariant *)
(* IInv of the hooks.                                                      *)
(***************************************************************************)
EXTENDS SpeakerBringUp, TLAPS

Fields == {"key", "errata", "trim", "clock", "port", "route", "pins", "boost", "supply",
           "mem", "core", "muted", "output", "power", "abused"}
Flags == {"present", "initialized", "validated", "alive", "active", "faulted", "pending"}
Memories == Blocks \cup {Calibration}

\* The shape of a chip and of what a routine works on; what the fields hold does
\* not matter.
IsChip(c) == DOMAIN c = Fields /\ DOMAIN c.mem = Memories
IsWorld(w) ==
    /\ DOMAIN w = {"chip", "amp", "down", "faults", "ok"}
    /\ IsChip(w.chip) /\ DOMAIN w.amp = Flags

\* From w to v nothing has changed but the fields of F and the flags of G.
Frame(w, v, F, G) ==
    /\ IsWorld(v)
    /\ \A f \in Fields \ F : v.chip[f] = w.chip[f]
    /\ \A g \in Flags \ G : v.amp[g] = w.amp[g]

\* A write that no key keeps out.
Effective(c, r) == c.key # "Locked" \/ DOMAIN r \cap Protected = {}

\* What a transfer of the write r makes of w.
Wrote(w, v, r) ==
    /\ IsWorld(v) /\ v.amp = w.amp
    /\ \A f \in Fields \ DOMAIN r : v.chip[f] = w.chip[f]
    /\ \A f \in DOMAIN r : v.chip[f] = w.chip[f] \/ v.chip[f] = r[f]
    /\ v.ok => w.ok
    /\ v.ok /\ Effective(w.chip, r) => \A f \in DOMAIN r : v.chip[f] = r[f]

Shaped(r) ==
    DOMAIN r \subseteq Fields /\ ("mem" \in DOMAIN r => DOMAIN r.mem = Memories)

\* A transfer changes the chip to what it leaves behind or not at all, and where it
\* succeeded, it has.
LEMMA TransferSpec ==
    ASSUME NEW w, IsWorld(w), NEW c, IsChip(c), NEW v \in Transfer(w, c)
    PROVE  /\ IsWorld(v) /\ v.amp = w.amp
           /\ v.chip = w.chip \/ v.chip = c
           /\ v.ok => w.ok /\ v.chip = c
BY DEF Transfer, Fails, IsWorld

\* A write changes no field but its own, and all of them unless a key protects one.
LEMMA EffectSpec ==
    ASSUME NEW c, IsChip(c), NEW r, Shaped(r)
    PROVE  /\ IsChip(Effect(c, r))
           /\ \A f \in Fields \ DOMAIN r : Effect(c, r)[f] = c[f]
           /\ \A f \in DOMAIN r : Effect(c, r)[f] = c[f] \/ Effect(c, r)[f] = r[f]
           /\ Effective(c, r) => \A f \in DOMAIN r : Effect(c, r)[f] = r[f]
BY DEF Effect, IsChip, Fields, Shaped, Effective

\* A write that succeeded, and was not locked out, is done; one that failed may be.
LEMMA WriteSpec ==
    ASSUME NEW w, IsWorld(w), NEW r, Shaped(r), NEW v \in Write(w, r)
    PROVE  Wrote(w, v, r)
<1>1. IsChip(w.chip)
  BY DEF IsWorld
<1>2. IsChip(Effect(w.chip, r))
  BY <1>1, EffectSpec
<1>3. DOMAIN r \subseteq Fields
  BY DEF Shaped
<1> QED
  BY <1>1, <1>2, <1>3, EffectSpec, TransferSpec DEF Write, Wrote

\* A write that is tried in any case, on each world of a set.
LEMMA Tried ==
    ASSUME NEW ws, \A u \in ws : IsWorld(u), NEW r, Shaped(r)
    PROVE  \A v \in ws ++ r : IsWorld(v) /\ \E u \in ws : Wrote(u, v, r)
BY WriteSpec DEF ++, AllTried, Wrote

\* A write that is left out once one before it has failed.
LEMMA Ordered ==
    ASSUME NEW ws, \A u \in ws : IsWorld(u), NEW r, Shaped(r)
    PROVE  \A v \in ws && r :
              IsWorld(v) /\ \E u \in ws : (u.ok /\ Wrote(u, v, r)) \/ (~u.ok /\ v = u)
BY WriteSpec DEF &&, InOrder, Wrote

\* What two routines in turn leave alone.
LEMMA FrameTrans ==
    ASSUME NEW u, NEW v, NEW w, NEW F, NEW G, NEW F1, NEW G1,
           Frame(w, u, F, G), Frame(u, v, F1, G1), F1 \subseteq F, G1 \subseteq G
    PROVE  Frame(w, v, F, G)
BY DEF Frame

\* Nothing done leaves everything alone.
LEMMA FrameSelf == \A w, F, G : IsWorld(w) => Frame(w, w, F, G)
BY DEF Frame

\* A frame ends in a world.
LEMMA FrameWorld == \A w, v, F, G : Frame(w, v, F, G) => IsWorld(v)
BY DEF Frame

\* r writes one field.
One(r, f, x) == f \in Fields \ {"mem"} /\ DOMAIN r = {f} /\ r[f] = x

\* The writes of one field that the driver makes.
LEMMA Ones ==
    /\ One(Lock, "key", "Locked") /\ One(Unlock, "key", "Unlocked")
    /\ \A x : /\ One([muted |-> x], "muted", x) /\ One([power |-> x], "power", x)
              /\ One([output |-> x], "output", x) /\ One([supply |-> x], "supply", x)
              /\ One([core |-> x], "core", x) /\ One([errata |-> x], "errata", x)
              /\ One([trim |-> x], "trim", x) /\ One([clock |-> x], "clock", x)
              /\ One([pins |-> x], "pins", x) /\ One([boost |-> x], "boost", x)
              /\ One([route |-> x], "route", x)
BY DEF One, Lock, Unlock, Fields

\* What is known of all the worlds of a set: the fields and flags in which they
\* differ from w, ...
Framed(w, ws, F, G) == \A u \in ws : Frame(w, u, F, G) /\ (u.ok => w.ok)

\* ... the value of a field where all went well, and its values in any case.
Sure(ws, f, x) == \A u \in ws : u.ok => u.chip[f] = x
Within(ws, f, S) == \A u \in ws : u.chip[f] \in S

\* A write of one of the fields of F keeps the frame.
LEMMA Framing ==
    ASSUME NEW w, NEW ws, NEW F, NEW G, Framed(w, ws, F, G),
           NEW r, NEW f, NEW x, One(r, f, x), f \in F
    PROVE  Framed(w, ws ++ r, F, G) /\ Framed(w, ws && r, F, G)
<1>1. Shaped(r)
  BY DEF Shaped, One
<1>2. \A u \in ws : IsWorld(u)
  BY FrameWorld DEF Framed
<1>3. \A u \in ws : \A v : Wrote(u, v, r) => Frame(u, v, {f}, {}) /\ (v.ok => u.ok)
  BY DEF Wrote, Frame, One
<1>4. \A u \in ws : \A v : Frame(u, v, {f}, {}) => Frame(w, v, F, G)
  BY FrameTrans DEF Framed
<1>5. \A v \in ws ++ r : \E u \in ws : Wrote(u, v, r)
  BY <1>1, <1>2, Tried
<1>6. \A v \in ws && r : \E u \in ws : Wrote(u, v, r) \/ v = u
  BY <1>1, <1>2, Ordered
<1> QED
  BY <1>3, <1>4, <1>5, <1>6 DEF Framed

\* A transfer that changes nothing keeps any frame.
LEMMA FramingNothing ==
    ASSUME NEW w, NEW ws, NEW F, NEW G, Framed(w, ws, F, G)
    PROVE  Framed(w, ws ++ Nothing, F, G) /\ Framed(w, ws && Nothing, F, G)
<1>1. Shaped(Nothing)
  BY DEF Shaped, Nothing
<1>2. \A u \in ws : IsWorld(u)
  BY FrameWorld DEF Framed
<1>3. \A u \in ws : \A v : Wrote(u, v, Nothing) => Frame(u, v, {}, {}) /\ (v.ok => u.ok)
  BY DEF Wrote, Frame, Nothing
<1>4. \A u \in ws : \A v : Frame(u, v, {}, {}) => Frame(w, v, F, G)
  BY FrameTrans DEF Framed
<1> QED
  BY <1>1, <1>2, <1>3, <1>4, Tried, Ordered DEF Framed

\* What no key protects.
LEMMA Open == \A f \in Fields \ {"errata", "trim", "boost"} : f \notin Protected
BY DEF Protected

\* A write that is not protected, or comes after the key was opened, is done
\* where it succeeded.
LEMMA Surely ==
    ASSUME NEW w, NEW ws, NEW F, NEW G, Framed(w, ws, F, G),
           NEW r, NEW f, NEW x, One(r, f, x), f \notin Protected \/ Sure(ws, "key", "Unlocked")
    PROVE  Sure(ws ++ r, f, x) /\ Sure(ws && r, f, x)
<1>1. Shaped(r)
  BY DEF Shaped, One
<1>2. \A u \in ws : IsWorld(u)
  BY FrameWorld DEF Framed
<1>3. \A u \in ws : \A v : Wrote(u, v, r) /\ v.ok => v.chip[f] = x
  BY DEF Wrote, One, Effective, Sure
<1> QED
  BY <1>1, <1>2, <1>3, Tried, Ordered DEF Sure

\* A value that is certain stays so under a write of another field ...
LEMMA StillSure ==
    ASSUME NEW w, NEW ws, NEW F, NEW G, Framed(w, ws, F, G), NEW g, NEW y, Sure(ws, g, y),
           NEW r, NEW f, NEW x, One(r, f, x), g \in Fields \ {f}
    PROVE  Sure(ws ++ r, g, y) /\ Sure(ws && r, g, y)
<1>1. Shaped(r)
  BY DEF Shaped, One
<1>2. \A u \in ws : IsWorld(u)
  BY FrameWorld DEF Framed
<1>3. \A u \in ws : \A v : Wrote(u, v, r) => v.chip[g] = u.chip[g] /\ (v.ok => u.ok)
  BY DEF Wrote, One
<1> QED
  BY <1>1, <1>2, <1>3, Tried, Ordered DEF Sure

\* ... and under a transfer that changes nothing.
LEMMA StillSureNothing ==
    ASSUME NEW w, NEW ws, NEW F, NEW G, Framed(w, ws, F, G), NEW g \in Fields, NEW y,
           Sure(ws, g, y)
    PROVE  Sure(ws ++ Nothing, g, y) /\ Sure(ws && Nothing, g, y)
<1>1. Shaped(Nothing)
  BY DEF Shaped, Nothing
<1>2. \A u \in ws : IsWorld(u)
  BY FrameWorld DEF Framed
<1>3. \A u \in ws : \A v : Wrote(u, v, Nothing) => v.chip[g] = u.chip[g] /\ (v.ok => u.ok)
  BY DEF Wrote, Nothing
<1> QED
  BY <1>1, <1>2, <1>3, Tried, Ordered DEF Sure

\* The values a field may have, after a write of that field or another ...
LEMMA StillWithin ==
    ASSUME NEW w, NEW ws, NEW F, NEW G, Framed(w, ws, F, G), NEW g \in Fields, NEW S,
           Within(ws, g, S), NEW r, NEW f, NEW x, One(r, f, x), g # f \/ x \in S
    PROVE  Within(ws ++ r, g, S) /\ Within(ws && r, g, S)
<1>1. Shaped(r)
  BY DEF Shaped, One
<1>2. \A u \in ws : IsWorld(u)
  BY FrameWorld DEF Framed
<1>3. \A u \in ws : \A v : Wrote(u, v, r) => v.chip[g] \in S
  BY DEF Wrote, One, Within
<1> QED
  BY <1>1, <1>2, <1>3, Tried, Ordered DEF Within

\* ... and after a transfer that changes nothing.
LEMMA StillWithinNothing ==
    ASSUME NEW w, NEW ws, NEW F, NEW G, Framed(w, ws, F, G), NEW g \in Fields, NEW S,
           Within(ws, g, S)
    PROVE  Within(ws ++ Nothing, g, S) /\ Within(ws && Nothing, g, S)
<1>1. Shaped(Nothing)
  BY DEF Shaped, Nothing
<1>2. \A u \in ws : IsWorld(u)
  BY FrameWorld DEF Framed
<1>3. \A u \in ws : \A v : Wrote(u, v, Nothing) => v.chip[g] = u.chip[g]
  BY DEF Wrote, Nothing
<1> QED
  BY <1>1, <1>2, <1>3, Tried, Ordered DEF Within

\* A set of one world is framed by it.
LEMMA FramedOne == \A w, F, G : IsWorld(w) => Framed(w, {w}, F, G)
BY FrameSelf DEF Framed

\* A read changes nothing, and fails or does not.
LEMMA ReadSpec ==
    ASSUME NEW w, IsWorld(w), NEW v \in Read(w)
    PROVE  Frame(w, v, {}, {}) /\ (v.ok => w.ok)
<1>1. Framed(w, Read(w), {}, {})
  BY FramedOne, FramingNothing DEF Read
<1> QED
  BY <1>1 DEF Framed

-----------------------------------------------------------------------------
\* The DSP is not alive once its halt was tried, and where that succeeded its core
\* is off (stopDSP, CS35L41Firmware.cpp).
LEMMA StopDSPSpec ==
    ASSUME NEW w, IsWorld(w), NEW v \in StopDSP(w)
    PROVE  /\ Frame(w, v, {"core"}, {"alive"})
           /\ v.amp.alive = FALSE /\ v.chip.core \in {w.chip.core, "Off"}
           /\ v.ok => w.ok /\ v.chip.core = "Off"
<1> DEFINE a == [w EXCEPT !.amp.alive = FALSE]
           W == {a}
           X == W ++ [core |-> "Off"]
           Y == X ++ Nothing
           S == {w.chip.core, "Off"}
<1>1. /\ IsWorld(a) /\ Frame(w, a, {}, {"alive"}) /\ a.amp.alive = FALSE
      /\ a.chip = w.chip /\ a.ok = w.ok
  BY DEF IsWorld, Frame, Flags
<1>2. Framed(a, W, {"core"}, {}) /\ Within(W, "core", S)
  BY <1>1, FramedOne DEF Within
<1> HIDE DEF a, W
<1>3. Framed(a, X, {"core"}, {}) /\ Within(X, "core", S)
  BY <1>2, Ones, Framing, StillWithin DEF Fields
<1>4. Framed(a, Y, {"core"}, {}) /\ Within(Y, "core", S)
  BY <1>3, FramingNothing, StillWithinNothing DEF Fields
<1> HIDE DEF X, Y
<1>5. PICK s \in Onward(Y, Read) : v = [s EXCEPT !.ok = s.ok /\ s.chip.core = "Off"]
  BY DEF StopDSP, X, Y, W, a
<1>6. Frame(a, s, {"core"}, {}) /\ s.chip.core \in S /\ (s.ok => a.ok)
  <2>1. PICK t \in Y : (t.ok /\ s \in Read(t)) \/ (~t.ok /\ s = t)
    BY <1>5 DEF Onward
  <2>2. Frame(a, t, {"core"}, {}) /\ t.chip.core \in S /\ (t.ok => a.ok) /\ IsWorld(t)
    BY <1>4, FrameWorld DEF Framed, Within
  <2>3. CASE t.ok /\ s \in Read(t)
    <3>1. Frame(t, s, {}, {}) /\ (s.ok => t.ok)
      BY <2>2, <2>3, ReadSpec
    <3>2. s.chip.core = t.chip.core
      BY <3>1 DEF Frame, Fields
    <3> QED
      BY <2>2, <3>1, <3>2, FrameTrans
  <2> QED
    BY <2>1, <2>2, <2>3
<1>7. Frame(w, s, {"core"}, {"alive"}) /\ s.amp.alive = FALSE
  BY <1>1, <1>6 DEF Frame, Fields, Flags
<1> QED
  BY <1>1, <1>5, <1>6, <1>7 DEF Frame, IsWorld

\* Mute, power and supply are all tried; where all succeeded, the key is locked or
\* as it was, and the supply of a board with a switch is off.
LEMMA SilenceSpec ==
    ASSUME NEW w, IsWorld(w), NEW v \in Silence(w)
    PROVE  /\ Frame(w, v, {"muted", "power", "output", "key", "supply"}, {})
           /\ v.ok => w.ok /\ v.chip.key \in {w.chip.key, "Locked"}
           /\ v.ok /\ Switched => v.chip.supply = "Off"
<1> DEFINE F == {"muted", "power", "output", "key", "supply"}
           W == {w}
           X == W ++ [muted |-> TRUE]
           Y == X ++ Nothing
           I1 == Y ++ [power |-> FALSE]
           I2 == I1 ++ Nothing
           E1 == Y ++ Unlock
           E2 == E1 ++ [power |-> FALSE]
           E3 == E2 ++ Nothing
           E4 == E3 ++ Lock
           E5 == E4 ++ [supply |-> "Off"]
           K == IF Internal THEN w.chip.key ELSE "Locked"
           U == IF Internal THEN I2 ELSE E5
<1>1. Framed(w, W, F, {}) /\ Sure(W, "key", w.chip.key)
  BY FramedOne DEF Sure
<1> HIDE DEF W
<1>2. Framed(w, X, F, {}) /\ Sure(X, "key", w.chip.key)
  BY <1>1, Ones, Framing, StillSure DEF Fields
<1> HIDE DEF X
<1>3. Framed(w, Y, F, {}) /\ Sure(Y, "key", w.chip.key)
  BY <1>2, FramingNothing, StillSureNothing DEF Fields
<1> HIDE DEF Y
<1>4. Framed(w, I1, F, {}) /\ Sure(I1, "key", w.chip.key)
  BY <1>3, Ones, Framing, StillSure DEF Fields
<1> HIDE DEF I1
<1>5. Framed(w, I2, F, {}) /\ Sure(I2, "key", w.chip.key)
  BY <1>4, FramingNothing, StillSureNothing DEF Fields
<1>6. Framed(w, E1, F, {})
  BY <1>3, Ones, Framing
<1> HIDE DEF E1
<1>7. Framed(w, E2, F, {})
  BY <1>6, Ones, Framing
<1> HIDE DEF E2
<1>8. Framed(w, E3, F, {})
  BY <1>7, FramingNothing
<1> HIDE DEF E3
<1>9. Framed(w, E4, F, {}) /\ Sure(E4, "key", "Locked")
  BY <1>8, Ones, Framing, Surely, Open DEF Fields
<1> HIDE DEF E4
<1>10. Framed(w, E5, F, {}) /\ Sure(E5, "key", "Locked") /\ Sure(E5, "supply", "Off")
  BY <1>9, Ones, Framing, Surely, StillSure, Open DEF Fields
<1> HIDE DEF I2, E5
<1>11. Framed(w, U, F, {}) /\ Sure(U, "key", K) /\ (Switched => Sure(U, "supply", "Off"))
  BY <1>5, <1>10 DEF Internal, Switched
<1> HIDE DEF K
<1>12. v \in U ++ [output |-> FALSE]
  BY DEF Silence, U, I1, I2, E1, E2, E3, E4, E5, X, Y, W
<1> HIDE DEF U
<1>13. /\ Framed(w, U ++ [output |-> FALSE], F, {})
       /\ Sure(U ++ [output |-> FALSE], "key", K)
  BY <1>11, Ones, Framing, StillSure DEF Fields
<1>14. Switched => Sure(U ++ [output |-> FALSE], "supply", "Off")
  BY <1>11, Ones, StillSure DEF Fields
<1> QED
  BY <1>12, <1>13, <1>14 DEF Framed, Sure, K

\* A halt whose result is ignored.
LEMMA HaltSpec ==
    ASSUME NEW a, IsWorld(a), NEW v \in Regardless({a}, StopDSP)
    PROVE  /\ Frame(a, v, {"core"}, {"alive"}) /\ v.amp.alive = FALSE
           /\ v.chip.core \in {a.chip.core, "Off"} /\ v.ok = a.ok
<1> DEFINE b == [a EXCEPT !.ok = TRUE]
<1>0. PICK u \in {a} : v \in {[t EXCEPT !.ok = u.ok] : t \in StopDSP([u EXCEPT !.ok = TRUE])}
  BY DEF Regardless
<1>1. PICK t \in StopDSP(b) : v = [t EXCEPT !.ok = a.ok]
  BY <1>0
<1>2. IsWorld(b) /\ b.amp = a.amp /\ b.chip = a.chip
  BY DEF IsWorld
<1> HIDE DEF b
<1>3. /\ Frame(b, t, {"core"}, {"alive"}) /\ t.amp.alive = FALSE
      /\ t.chip.core \in {b.chip.core, "Off"} /\ IsWorld(t)
  BY <1>2, StopDSPSpec, FrameWorld
<1>4. IsWorld(v) /\ v.chip = t.chip /\ v.amp = t.amp /\ v.ok = a.ok
  BY <1>1, <1>3 DEF IsWorld
<1> QED
  BY <1>2, <1>3, <1>4 DEF Frame

\* The mailbox command changes nothing the model shows.
LEMMA PauseSpec ==
    ASSUME NEW w, IsWorld(w), NEW v \in Pause(w)
    PROVE  Frame(w, v, {}, {}) /\ (v.ok => w.ok)
<1> DEFINE W == {w}
           X == W && Nothing
<1>1. Framed(w, W, {}, {})
  BY FramedOne
<1> HIDE DEF W
<1>2. Framed(w, X, {}, {})
  BY <1>1, FramingNothing
<1> HIDE DEF X
<1>3. Framed(w, X && Nothing, {}, {})
  BY <1>2, FramingNothing
<1> QED
  BY <1>3 DEF Framed, Pause, X, W

\* What becomes of the DSP: nothing, or it is no longer trusted.
Paused(w, v) ==
    \/ /\ v.chip.core = w.chip.core /\ v.amp.alive = w.amp.alive
       /\ v.amp.validated = w.amp.validated
    \/ /\ v.chip.core \in {w.chip.core, "Off"}
       /\ v.amp.alive = FALSE /\ v.amp.validated = FALSE /\ ~v.ok

\* A DSP that does not pause is stopped and no longer trusted.
LEMMA PauseOrStopSpec ==
    ASSUME NEW w, IsWorld(w), NEW v \in PauseOrStop(w)
    PROVE  Frame(w, v, {"core"}, {"alive", "validated"}) /\ Paused(w, v) /\ (v.ok => w.ok)
<1>1. PICK u \in Pause(w) :
        v \in IF u.ok THEN {u} ELSE Regardless({[u EXCEPT !.amp.validated = FALSE]}, StopDSP)
  BY DEF PauseOrStop
<1>2. Frame(w, u, {}, {}) /\ (u.ok => w.ok) /\ IsWorld(u)
  BY PauseSpec, FrameWorld
<1>3. CASE u.ok
  BY <1>1, <1>2, <1>3 DEF Frame, Fields, Flags, Paused
<1>4. CASE ~u.ok
  <2> DEFINE a == [u EXCEPT !.amp.validated = FALSE]
  <2>1. IsWorld(a) /\ a.ok = u.ok /\ a.chip = u.chip /\ a.amp.validated = FALSE
        /\ Frame(u, a, {}, {"validated"})
    BY <1>2 DEF IsWorld, Frame, Flags
  <2>2. v \in Regardless({a}, StopDSP)
    BY <1>1, <1>4
  <2> HIDE DEF a
  <2>3. /\ Frame(a, v, {"core"}, {"alive"}) /\ v.amp.alive = FALSE
        /\ v.chip.core \in {a.chip.core, "Off"} /\ v.ok = a.ok
    BY <2>1, <2>2, HaltSpec
  <2>4. Frame(w, v, {"core"}, {"alive", "validated"})
    BY <1>2, <2>1, <2>3 DEF Frame, Fields, Flags
  <2> QED
    BY <1>2, <1>4, <2>1, <2>3, <2>4 DEF Paused, Frame, Flags, Fields
<1> QED
  BY <1>3, <1>4

\* The end of playback (CS35L41Playback.cpp:52-143): it reports success only of a
\* chip that is quiet, and latches a fault otherwise; the DSP is as it was, or no
\* longer trusted.
LEMMA StopPlaybackSpec ==
    ASSUME NEW w, IsWorld(w), NEW v \in StopPlayback(w)
    PROVE  /\ Frame(w, v, {"muted", "power", "output", "key", "supply", "core"},
                    {"alive", "validated", "active", "faulted"})
           /\ Paused(w, v) /\ (w.amp.faulted => v.amp.faulted)
           /\ v.ok \/ v.amp.faulted
           /\ v.ok => /\ w.ok /\ (v.amp.faulted => w.amp.faulted)
                      /\ v.chip.key \in {w.chip.key, "Locked"}
                      /\ Switched => v.chip.supply = "Off"
                      /\ ~v.chip.power /\ ~v.chip.output /\ v.chip.muted
<1> DEFINE F == {"muted", "power", "output", "key", "supply", "core"}
           G == {"alive", "validated"}
           Q(u) == /\ Frame(w, u, F, G) /\ Paused(w, u)
                   /\ u.ok => /\ w.ok /\ u.chip.key \in {w.chip.key, "Locked"}
                              /\ Switched => u.chip.supply = "Off"
           P == UNION {IF u.amp.alive THEN Anyway({u}, PauseOrStop) ELSE {u} : u \in Silence(w)}
           C == P ++ [output |-> FALSE]
<1>1. ASSUME NEW u \in P PROVE Q(u)
  <2>1. PICK s \in Silence(w) : u \in IF s.amp.alive THEN Anyway({s}, PauseOrStop) ELSE {s}
    BY <1>1
  <2>2. /\ Frame(w, s, {"muted", "power", "output", "key", "supply"}, {}) /\ IsWorld(s)
        /\ s.ok => /\ w.ok /\ s.chip.key \in {w.chip.key, "Locked"}
                   /\ Switched => s.chip.supply = "Off"
    BY SilenceSpec, FrameWorld
  <2>3. CASE u = s
    BY <2>2, <2>3 DEF Frame, Fields, Flags, Paused
  <2>4. CASE u \in Anyway({s}, PauseOrStop)
    <3> DEFINE b == [s EXCEPT !.ok = TRUE]
    <3>1. IsWorld(b) /\ b.chip = s.chip /\ b.amp = s.amp
      BY <2>2 DEF IsWorld
    <3>0. PICK p \in {s} : u \in {[t EXCEPT !.ok = t.ok /\ p.ok] : t \in PauseOrStop([p EXCEPT !.ok = TRUE])}
      BY <2>4 DEF Anyway
    <3>2. PICK t \in PauseOrStop(b) : u = [t EXCEPT !.ok = t.ok /\ s.ok]
      BY <3>0
    <3> HIDE DEF b
    <3>3. Frame(b, t, {"core"}, {"alive", "validated"}) /\ Paused(b, t) /\ IsWorld(t)
      BY <3>1, PauseOrStopSpec, FrameWorld
    <3>4. IsWorld(u) /\ u.chip = t.chip /\ u.amp = t.amp /\ (u.ok => t.ok /\ s.ok)
      BY <3>2, <3>3 DEF IsWorld
    <3>5. Frame(w, u, F, G)
      BY <2>2, <3>1, <3>3, <3>4 DEF Frame, Fields, Flags
    <3>6. Paused(w, u)
      BY <2>2, <3>1, <3>3, <3>4 DEF Frame, Fields, Flags, Paused
    <3> QED
      BY <2>2, <3>1, <3>3, <3>4, <3>5, <3>6 DEF Frame, Fields
  <2> QED
    BY <2>1, <2>3, <2>4
<1>2. \A u \in P : Framed(u, {u}, F, G) /\ IsWorld(u)
  BY <1>1, FrameWorld, FramedOne
<1> HIDE DEF P
<1>3. ASSUME NEW u \in C PROVE Q(u)
  <2>1. Shaped([output |-> FALSE])
    BY DEF Shaped, Fields
  <2>2. PICK s \in P : Wrote(s, u, [output |-> FALSE])
    BY <1>2, <2>1, Tried
  <2>3. /\ IsWorld(u) /\ u.amp = s.amp /\ (u.ok => s.ok)
        /\ \A f \in Fields \ {"output"} : u.chip[f] = s.chip[f]
    BY <2>2 DEF Wrote
  <2>4. Q(s)
    BY <1>1
  <2>5. Frame(w, u, F, G)
    BY <2>3, <2>4 DEF Frame
  <2>6. Paused(w, u)
    BY <2>3, <2>4 DEF Paused, Fields
  <2> QED
    BY <2>3, <2>4, <2>5, <2>6 DEF Fields
<1> HIDE DEF C
<1>4. PICK s \in Onward(C, Read) : v =
        LET safe == s.ok /\ ~s.chip.power /\ ~s.chip.output /\ s.chip.muted
        IN  [s EXCEPT !.ok = safe, !.amp.active = ~safe,
                      !.amp.faulted = s.amp.faulted \/ ~safe]
  BY DEF StopPlayback, C, P
<1>5. Q(s)
  <2>1. PICK t \in C : (t.ok /\ s \in Read(t)) \/ (~t.ok /\ s = t)
    BY <1>4 DEF Onward
  <2>2. Q(t) /\ IsWorld(t)
    BY <1>3, FrameWorld
  <2>3. CASE t.ok /\ s \in Read(t)
    <3>1. Frame(t, s, {}, {})
      BY <2>2, <2>3, ReadSpec
    <3>2. Frame(w, s, F, G)
      BY <2>2, <3>1, FrameTrans
    <3> QED
      BY <2>2, <2>3, <3>1, <3>2 DEF Frame, Fields, Flags, Paused
  <2> QED
    BY <2>1, <2>2, <2>3
<1> DEFINE safe == s.ok /\ ~s.chip.power /\ ~s.chip.output /\ s.chip.muted
<1>6. /\ IsWorld(v) /\ v.chip = s.chip /\ v.ok = safe
      /\ v.amp.faulted = (s.amp.faulted \/ ~safe)
      /\ \A g \in Flags \ {"active", "faulted"} : v.amp[g] = s.amp[g]
  BY <1>4, <1>5 DEF Frame, IsWorld, Flags
<1>7. Paused(w, v)
  BY <1>5, <1>6 DEF Paused, Flags
<1>8. s.amp.faulted = w.amp.faulted
  BY <1>5 DEF Frame, Flags
<1>9. Frame(w, v, F, {"alive", "validated", "active", "faulted"})
  BY <1>5, <1>6 DEF Frame
<1>10. ASSUME v.ok
       PROVE  /\ w.ok /\ (v.amp.faulted => w.amp.faulted)
              /\ v.chip.key \in {w.chip.key, "Locked"}
              /\ Switched => v.chip.supply = "Off"
              /\ ~v.chip.power /\ ~v.chip.output /\ v.chip.muted
  <2>1. safe /\ s.ok
    BY <1>6, <1>10
  <2>2. v.amp.faulted => s.amp.faulted
    BY <1>6, <2>1
  <2> QED
    BY <1>5, <1>6, <1>8, <2>1, <2>2
<1>11. v.ok \/ v.amp.faulted
  BY <1>6
<1>12. w.amp.faulted => v.amp.faulted
  BY <1>6, <1>8
<1> QED
  BY <1>7, <1>9, <1>10, <1>11, <1>12

\* A safe reset that succeeded has cut the supply and locked the key.
LEMMA SafeResetSpec ==
    ASSUME NEW w, IsWorld(w), NEW v \in SafeReset(w)
    PROVE  /\ Frame(w, v, {"supply", "key"}, {}) /\ (v.ok => w.ok)
           /\ v.ok /\ Switched => v.chip.supply = "Off" /\ v.chip.key = "Locked"
<1> DEFINE F == {"supply", "key"}
           W == {w}
           A == W && [supply |-> "Off"]
           B == A && Unlock
           C == B && Nothing
           D == C && Nothing
           X == D ++ Lock
<1>1. Framed(w, W, F, {})
  BY FramedOne
<1> HIDE DEF W
<1>2. Framed(w, A, F, {}) /\ Sure(A, "supply", "Off")
  BY <1>1, Ones, Framing, Surely, Open DEF Fields
<1> HIDE DEF A
<1>3. Framed(w, B, F, {}) /\ Sure(B, "supply", "Off")
  BY <1>2, Ones, Framing, StillSure DEF Fields
<1> HIDE DEF B
<1>4. Framed(w, C, F, {}) /\ Sure(C, "supply", "Off")
  BY <1>3, FramingNothing, StillSureNothing DEF Fields
<1> HIDE DEF C
<1>5. Framed(w, D, F, {}) /\ Sure(D, "supply", "Off")
  BY <1>4, FramingNothing, StillSureNothing DEF Fields
<1> HIDE DEF D
<1>6. Framed(w, X, F, {}) /\ Sure(X, "supply", "Off") /\ Sure(X, "key", "Locked")
  BY <1>5, Ones, Framing, Surely, StillSure, Open DEF Fields
<1>7. CASE ~Switched
  BY <1>7, FrameSelf DEF SafeReset
<1>8. CASE Switched
  <2>1. v \in X
    BY <1>8 DEF SafeReset, X, D, C, B, A, W
  <2> QED
    BY <1>6, <2>1 DEF Framed, Sure
<1> QED
  BY <1>7, <1>8

\* A chip that was just reset, but for its errata, its trims and its memory.
Bare(c) ==
    /\ c.key = "Locked" /\ c.core = "Off" /\ c.supply = "Off"
    /\ c.muted = TRUE /\ c.power = FALSE /\ c.output = FALSE

\* The chip may have been reset, and the DSP is no more trusted than it was.
Isolated(w, v) ==
    /\ Frame(w, v, Fields \ {"mem"}, {"present", "alive", "validated", "active", "faulted"})
    /\ v.chip.abused => w.chip.abused
    /\ ~w.amp.alive => ~v.amp.alive
    /\ ~w.amp.validated => ~v.amp.validated
    /\ w.amp.faulted => v.amp.faulted
    /\ v.ok => w.ok /\ (v.amp.faulted => w.amp.faulted)

\* What is isolated twice is isolated.
LEMMA IsolatedTrans ==
    ASSUME NEW u, NEW v, NEW w, Isolated(w, u), Isolated(u, v)
    PROVE  Isolated(w, v)
BY FrameTrans DEF Isolated

\* A routine that leaves the memory alone isolates.
LEMMA IsolatedFrame ==
    ASSUME NEW w, NEW v, NEW F, NEW G, Frame(w, v, F, G), v.ok => w.ok,
           F \subseteq Fields \ {"abused", "mem"}, G \subseteq {"present", "active"}
    PROVE  Isolated(w, v)
BY DEF Isolated, Frame, Flags, Fields

\* A reset with the supply off abuses nothing and leaves a bare chip.
LEMMA SiliconResetSpec ==
    ASSUME NEW w, IsWorld(w), Switched => w.chip.supply = "Off",
           NEW v \in Transfer(w, SiliconReset(w.chip))
    PROVE  Isolated(w, v) /\ (v.ok => Bare(v.chip))
<1> DEFINE c == SiliconReset(w.chip)
<1>1. /\ DOMAIN c = Fields /\ c.mem = w.chip.mem /\ Bare(c)
      /\ c.abused = (w.chip.abused \/ (Switched /\ w.chip.supply = "On"))
  BY DEF SiliconReset, Fresh, Fields, Bare
<1>2. c.abused => w.chip.abused
  BY <1>1
<1>3. IsChip(c)
  BY <1>1 DEF IsChip, IsWorld
<1> HIDE DEF c
<1>4. /\ IsWorld(v) /\ v.amp = w.amp /\ (v.chip = w.chip \/ v.chip = c)
      /\ v.ok => w.ok /\ v.chip = c
  BY <1>3, TransferSpec DEF c
<1> QED
  BY <1>1, <1>2, <1>4 DEF Isolated, Frame, Fields

\* The chip is reset only with its supply off (CS35L41Hardware.cpp:38-42), and is
\* bare where that succeeded.
LEMMA ResetDeviceSpec ==
    ASSUME NEW w, IsWorld(w), ~w.amp.alive, ~w.amp.validated, NEW v \in ResetDevice(w)
    PROVE  Isolated(w, v) /\ (v.ok => Bare(v.chip))
<1> DEFINE found == {[u EXCEPT !.amp.present = u.ok] : u \in Read(w)}
           isolated == IF Switched THEN Onward(Onward(found, StopPlayback), SafeReset)
                       ELSE found
           reset == Onward(isolated, LAMBDA u : Transfer(u, SiliconReset(u.chip)))
           masked == Onward(reset, LAMBDA u : {u} ++ Nothing ++ Nothing)
           booted == Onward(masked, Read)
<1>1. ASSUME NEW u \in found PROVE Isolated(w, u) /\ IsWorld(u)
  <2>1. PICK s \in Read(w) : u = [s EXCEPT !.amp.present = s.ok]
    BY <1>1
  <2>2. Frame(w, s, {}, {}) /\ (s.ok => w.ok) /\ IsWorld(s)
    BY ReadSpec, FrameWorld
  <2>3. IsWorld(u) /\ Frame(s, u, {}, {"present"}) /\ u.ok = s.ok
    BY <2>1, <2>2 DEF IsWorld, Frame, Flags
  <2>4. Frame(w, u, {}, {"present"})
    BY <2>2, <2>3 DEF Frame
  <2> QED
    BY <2>2, <2>3, <2>4, IsolatedFrame
<1> HIDE DEF found
<1>2. ASSUME NEW u \in Onward(found, StopPlayback)
      PROVE  Isolated(w, u) /\ IsWorld(u)
  <2>1. PICK s \in found : (s.ok /\ u \in StopPlayback(s)) \/ (~s.ok /\ u = s)
    BY <1>2 DEF Onward
  <2>2. Isolated(w, s) /\ IsWorld(s)
    BY <1>1
  <2>3. CASE s.ok /\ u \in StopPlayback(s)
    <3>1. /\ Frame(s, u, {"muted", "power", "output", "key", "supply", "core"},
                   {"alive", "validated", "active", "faulted"})
          /\ Paused(s, u) /\ (s.amp.faulted => u.amp.faulted)
          /\ u.ok => s.ok /\ (u.amp.faulted => s.amp.faulted)
      BY <2>2, <2>3, StopPlaybackSpec
    <3>2. Isolated(s, u)
      BY <3>1 DEF Isolated, Frame, Paused, Fields
    <3> QED
      BY <2>2, <3>1, <3>2, IsolatedTrans, FrameWorld
  <2> QED
    BY <2>1, <2>2, <2>3
<1>3. ASSUME NEW u \in isolated
      PROVE  Isolated(w, u) /\ IsWorld(u) /\ (u.ok /\ Switched => u.chip.supply = "Off")
  <2>1. CASE ~Switched
    BY <1>1, <1>3, <2>1
  <2>2. CASE Switched
    <3>1. PICK s \in Onward(found, StopPlayback) : (s.ok /\ u \in SafeReset(s)) \/ (~s.ok /\ u = s)
      BY <1>3, <2>2 DEF Onward
    <3>2. Isolated(w, s) /\ IsWorld(s)
      BY <1>2
    <3>3. CASE s.ok /\ u \in SafeReset(s)
      <4>1. /\ Frame(s, u, {"supply", "key"}, {}) /\ (u.ok => s.ok)
            /\ u.ok /\ Switched => u.chip.supply = "Off"
        BY <3>2, <3>3, SafeResetSpec
      <4>2. Isolated(s, u)
        BY <4>1, IsolatedFrame DEF Fields
      <4> QED
        BY <3>2, <4>1, <4>2, IsolatedTrans, FrameWorld
    <3> QED
      BY <3>1, <3>2, <3>3
  <2> QED
    BY <2>1, <2>2
<1> HIDE DEF isolated
<1>4. ASSUME NEW u \in reset PROVE Isolated(w, u) /\ IsWorld(u) /\ (u.ok => Bare(u.chip))
  <2>1. PICK s \in isolated :
          (s.ok /\ u \in Transfer(s, SiliconReset(s.chip))) \/ (~s.ok /\ u = s)
    BY <1>4 DEF Onward
  <2>2. Isolated(w, s) /\ IsWorld(s) /\ (s.ok /\ Switched => s.chip.supply = "Off")
    BY <1>3
  <2>3. CASE s.ok /\ u \in Transfer(s, SiliconReset(s.chip))
    <3>1. Isolated(s, u) /\ (u.ok => Bare(u.chip))
      BY <2>2, <2>3, SiliconResetSpec
    <3>2. IsWorld(u)
      BY <3>1, FrameWorld DEF Isolated
    <3> QED
      BY <2>2, <3>1, <3>2, IsolatedTrans
  <2> QED
    BY <2>1, <2>2, <2>3
<1> HIDE DEF reset
<1>5. ASSUME NEW u \in masked PROVE Isolated(w, u) /\ IsWorld(u) /\ (u.ok => Bare(u.chip))
  <2>1. PICK s \in reset : (s.ok /\ u \in {s} ++ Nothing ++ Nothing) \/ (~s.ok /\ u = s)
    BY <1>5 DEF Onward
  <2>2. Isolated(w, s) /\ IsWorld(s) /\ (s.ok => Bare(s.chip))
    BY <1>4
  <2>3. CASE s.ok /\ u \in {s} ++ Nothing ++ Nothing
    <3> DEFINE S == {s}
               T == S ++ Nothing
    <3>1. Framed(s, S, {}, {})
      BY <2>2, FramedOne
    <3> HIDE DEF S
    <3>2. Framed(s, T, {}, {})
      BY <3>1, FramingNothing
    <3> HIDE DEF T
    <3>3. Framed(s, T ++ Nothing, {}, {})
      BY <3>2, FramingNothing
    <3>4. Frame(s, u, {}, {}) /\ (u.ok => s.ok)
      BY <2>3, <3>3 DEF Framed, S, T
    <3>5. Isolated(s, u)
      BY <3>4, IsolatedFrame
    <3> QED
      BY <2>2, <3>4, <3>5, IsolatedTrans DEF Frame, Fields, Bare
  <2> QED
    BY <2>1, <2>2, <2>3
<1> HIDE DEF masked
<1>6. ASSUME NEW s, Isolated(w, s) /\ IsWorld(s) /\ (s.ok => Bare(s.chip)), NEW u \in Read(s)
      PROVE  Isolated(w, u) /\ IsWorld(u) /\ (u.ok => Bare(u.chip))
  <2>1. Frame(s, u, {}, {}) /\ (u.ok => s.ok)
    BY <1>6, ReadSpec
  <2>2. Isolated(s, u)
    BY <2>1, IsolatedFrame
  <2> QED
    BY <1>6, <2>1, <2>2, IsolatedTrans DEF Frame, Fields, Bare
<1>7. ASSUME NEW u \in booted PROVE Isolated(w, u) /\ IsWorld(u) /\ (u.ok => Bare(u.chip))
  <2>1. PICK s \in masked : (s.ok /\ u \in Read(s)) \/ (~s.ok /\ u = s)
    BY <1>7 DEF Onward
  <2> QED
    BY <1>5, <1>6, <2>1
<1> HIDE DEF booted
<1>8. PICK s \in booted :
        \/ s.ok /\ v \in UNION {{u} \cup IF u.ok \/ u.down THEN {}
                                        ELSE {[u EXCEPT !.amp.present = FALSE]} : u \in Read(s)}
        \/ ~s.ok /\ v = s
  BY DEF ResetDevice, Onward, booted, masked, reset, isolated, found
<1>9. CASE s.ok /\ v \in UNION {{u} \cup IF u.ok \/ u.down THEN {}
                                        ELSE {[u EXCEPT !.amp.present = FALSE]} : u \in Read(s)}
  <2>1. PICK u \in Read(s) : v = u \/ (~u.ok /\ v = [u EXCEPT !.amp.present = FALSE])
    BY <1>9
  <2>2. Isolated(w, u) /\ IsWorld(u) /\ (u.ok => Bare(u.chip))
    BY <1>6, <1>7
  <2>3. CASE ~u.ok /\ v = [u EXCEPT !.amp.present = FALSE]
    <3>1. Frame(u, v, {}, {"present"}) /\ v.ok = u.ok
      BY <2>2, <2>3 DEF IsWorld, Frame, Flags
    <3>2. Isolated(u, v)
      BY <3>1, IsolatedFrame
    <3> QED
      BY <2>2, <2>3, <3>1, <3>2, IsolatedTrans
  <2> QED
    BY <2>1, <2>2, <2>3
<1> QED
  BY <1>7, <1>8, <1>9

\* The patch of the revision is in, where its writes succeeded with the key open.
LEMMA ApplyErrataPatchSpec ==
    ASSUME NEW w, IsWorld(w), NEW v \in ApplyErrataPatch(w)
    PROVE  /\ Frame(w, v, {"errata", "core"}, {}) /\ (v.ok => w.ok)
           /\ v.chip.core \in {w.chip.core, "Off"}
           /\ v.ok /\ w.chip.key = "Unlocked" => v.chip.errata = TRUE
<1> DEFINE F == {"errata", "core"}
           C == {w.chip.core, "Off"}
           W == {w}
           X == W && [errata |-> TRUE]
           Y == X && [core |-> "Off"]
<1>1. Framed(w, W, F, {}) /\ Within(W, "core", C) /\ Sure(W, "key", w.chip.key)
  BY FramedOne DEF Within, Sure
<1> HIDE DEF W
<1>2. Framed(w, X, F, {}) /\ Within(X, "core", C)
  BY <1>1, Ones, Framing, StillWithin DEF Fields
<1>3. w.chip.key = "Unlocked" => Sure(X, "errata", TRUE)
  BY <1>1, Ones, Surely
<1> HIDE DEF X
<1>4. Framed(w, Y, F, {}) /\ Within(Y, "core", C)
  BY <1>2, Ones, Framing, StillWithin DEF Fields
<1>5. w.chip.key = "Unlocked" => Sure(Y, "errata", TRUE)
  BY <1>2, <1>3, Ones, StillSure DEF Fields
<1>6. v \in Y
  BY DEF ApplyErrataPatch, Y, X, W
<1> QED
  BY <1>4, <1>5, <1>6 DEF Framed, Within, Sure

\* The trims are in, where their writes succeeded with the key open.
LEMMA UnpackOTPSpec ==
    ASSUME NEW w, IsWorld(w), NEW v \in UnpackOTP(w)
    PROVE  /\ Frame(w, v, {"trim"}, {}) /\ (v.ok => w.ok)
           /\ v.ok /\ w.chip.key = "Unlocked" => v.chip.trim = TRUE
<1> DEFINE F == {"trim"}
           W == {w}
           X == W && Nothing
           Y == X && [trim |-> TRUE]
<1>1. Framed(w, W, F, {}) /\ Sure(W, "key", w.chip.key)
  BY FramedOne DEF Sure
<1> HIDE DEF W
<1>2. Framed(w, X, F, {}) /\ Sure(X, "key", w.chip.key)
  BY <1>1, FramingNothing, StillSureNothing DEF Fields
<1> HIDE DEF X
<1>3. Framed(w, Y, F, {})
  BY <1>2, Ones, Framing
<1>4. w.chip.key = "Unlocked" => Sure(Y, "trim", TRUE)
  BY <1>2, Ones, Surely
<1>5. v \in Y
  BY DEF UnpackOTP, Y, X, W
<1> QED
  BY <1>3, <1>4, <1>5 DEF Framed, Sure

\* One write of Lock, whatever the world.
LEMMA LockSpec ==
    ASSUME NEW w, IsWorld(w), NEW v \in Write(w, Lock)
    PROVE  /\ Frame(w, v, {"key"}, {}) /\ (v.ok => w.ok)
           /\ v.ok => v.chip.key = "Locked"
<1>1. Shaped(Lock) /\ One(Lock, "key", "Locked") /\ "key" \notin Protected
  BY Ones, Open DEF Shaped, One, Fields
<1>2. Wrote(w, v, Lock)
  BY <1>1, WriteSpec
<1> QED
  BY <1>1, <1>2 DEF Wrote, One, Frame, Effective

\* The patch and the trims are in and the key is locked again, or the routine failed.
LEMMA InitializeErrataSpec ==
    ASSUME NEW w, IsWorld(w), NEW v \in InitializeErrata(w)
    PROVE  /\ Frame(w, v, {"key", "errata", "trim", "core"}, {"faulted"})
           /\ v.chip.core \in {w.chip.core, "Off"} /\ (w.amp.faulted => v.amp.faulted)
           /\ v.ok => /\ w.ok /\ (v.amp.faulted => w.amp.faulted)
                      /\ v.chip.errata = TRUE /\ v.chip.trim = TRUE /\ v.chip.key = "Locked"
<1> DEFINE F == {"key", "errata", "trim", "core"}
           C == {w.chip.core, "Off"}
           P(u) == /\ Frame(w, u, F, {}) /\ IsWorld(u) /\ u.chip.core \in C /\ (u.ok => w.ok)
           W == {w}
           U == W && Unlock
           patched == Onward(U, ApplyErrataPatch)
           trimmed == Onward(patched, LAMBDA u :
                UNION {IF t.ok THEN {t} ELSE Write(t, Lock) : t \in UnpackOTP(u)})
           locked == trimmed && Lock
<1>1. Framed(w, W, F, {}) /\ Within(W, "core", C)
  BY FramedOne DEF Within
<1> HIDE DEF W
<1>2. Framed(w, U, F, {}) /\ Within(U, "core", C) /\ Sure(U, "key", "Unlocked")
  BY <1>1, Ones, Framing, StillWithin, Surely, Open DEF Fields
<1> HIDE DEF U
<1>3. ASSUME NEW u \in patched
      PROVE  P(u) /\ (u.ok => u.chip.key = "Unlocked" /\ u.chip.errata = TRUE)
  <2>1. PICK s \in U : (s.ok /\ u \in ApplyErrataPatch(s)) \/ (~s.ok /\ u = s)
    BY <1>3 DEF Onward
  <2>2. P(s) /\ (s.ok => s.chip.key = "Unlocked")
    BY <1>2, FrameWorld DEF Framed, Within, Sure
  <2>3. CASE s.ok /\ u \in ApplyErrataPatch(s)
    <3>1. /\ Frame(s, u, {"errata", "core"}, {}) /\ u.chip.core \in {s.chip.core, "Off"}
          /\ IsWorld(u) /\ (u.ok => u.chip.errata = TRUE)
      BY <2>2, <2>3, ApplyErrataPatchSpec, FrameWorld
    <3>2. Frame(w, u, F, {})
      BY <2>2, <3>1, FrameTrans
    <3> QED
      BY <2>2, <2>3, <3>1, <3>2 DEF Frame, Fields
  <2> QED
    BY <2>1, <2>2, <2>3
<1> HIDE DEF patched
<1>4. ASSUME NEW u \in trimmed
      PROVE  P(u) /\ (u.ok => u.chip.errata = TRUE /\ u.chip.trim = TRUE)
  <2>1. PICK s \in patched :
          \/ s.ok /\ u \in UNION {IF t.ok THEN {t} ELSE Write(t, Lock) : t \in UnpackOTP(s)}
          \/ ~s.ok /\ u = s
    BY <1>4 DEF Onward
  <2>2. P(s) /\ (s.ok => s.chip.key = "Unlocked" /\ s.chip.errata = TRUE)
    BY <1>3
  <2>3. CASE s.ok /\ u \in UNION {IF t.ok THEN {t} ELSE Write(t, Lock) : t \in UnpackOTP(s)}
    <3>1. PICK t \in UnpackOTP(s) : (t.ok /\ u = t) \/ (~t.ok /\ u \in Write(t, Lock))
      BY <2>3
    <3>2. Frame(s, t, {"trim"}, {}) /\ IsWorld(t) /\ (t.ok => t.chip.trim = TRUE)
      BY <2>2, <2>3, UnpackOTPSpec, FrameWorld
    <3>3. Frame(s, u, {"trim", "key"}, {}) /\ (u.ok => u = t /\ t.ok) /\ IsWorld(u)
      <4>1. CASE t.ok /\ u = t
        BY <3>2, <4>1, FrameTrans, FrameSelf DEF Frame
      <4>2. CASE ~t.ok /\ u \in Write(t, Lock)
        <5>1. Frame(t, u, {"key"}, {}) /\ (u.ok => t.ok)
          BY <3>2, <4>2, LockSpec
        <5> QED
          BY <3>2, <4>2, <5>1 DEF Frame
      <4> QED
        BY <3>1, <4>1, <4>2
    <3>4. Frame(w, u, F, {})
      BY <2>2, <3>3 DEF Frame
    <3> QED
      BY <2>2, <2>3, <3>2, <3>3, <3>4 DEF Frame, Fields
  <2> QED
    BY <2>1, <2>2, <2>3
<1>5. Framed(w, trimmed, F, {}) /\ Within(trimmed, "core", C)
      /\ Sure(trimmed, "errata", TRUE) /\ Sure(trimmed, "trim", TRUE)
  BY <1>4 DEF Framed, Within, Sure
<1> HIDE DEF trimmed
<1>6. Framed(w, locked, F, {}) /\ Within(locked, "core", C)
  BY <1>5, Ones, Framing, StillWithin DEF Fields
<1>7. Sure(locked, "errata", TRUE) /\ Sure(locked, "trim", TRUE) /\ Sure(locked, "key", "Locked")
  BY <1>5, Ones, StillSure, Surely, Open DEF Fields
<1> HIDE DEF locked
<1>8. PICK u \in locked : v \in IF u.ok THEN {u}
        ELSE {[t EXCEPT !.ok = FALSE, !.amp.faulted = t.amp.faulted \/ ~t.ok] :
                 t \in Write([u EXCEPT !.ok = TRUE], Lock)}
  BY DEF InitializeErrata, locked, trimmed, patched, U, W
<1>9. P(u) /\ (u.ok => u.chip.errata = TRUE /\ u.chip.trim = TRUE /\ u.chip.key = "Locked")
  BY <1>6, <1>7, FrameWorld DEF Framed, Within, Sure
<1>10. CASE u.ok
  BY <1>8, <1>9, <1>10 DEF Frame, Flags
<1>11. CASE ~u.ok
  <2> DEFINE b == [u EXCEPT !.ok = TRUE]
  <2>1. IsWorld(b) /\ b.chip = u.chip /\ b.amp = u.amp
    BY <1>9 DEF IsWorld
  <2>2. PICK t \in Write(b, Lock) :
          v = [t EXCEPT !.ok = FALSE, !.amp.faulted = t.amp.faulted \/ ~t.ok]
    BY <1>8, <1>11
  <2> HIDE DEF b
  <2>3. Frame(b, t, {"key"}, {}) /\ IsWorld(t)
    BY <2>1, LockSpec, FrameWorld
  <2>4. /\ IsWorld(v) /\ v.chip = t.chip /\ v.ok = FALSE
        /\ v.amp.faulted = (t.amp.faulted \/ ~t.ok)
        /\ \A g \in Flags \ {"faulted"} : v.amp[g] = t.amp[g]
    BY <2>2, <2>3 DEF IsWorld, Flags
  <2>5. Frame(w, v, F, {"faulted"})
    BY <1>9, <2>1, <2>3, <2>4 DEF Frame
  <2>6. v.chip.core \in C
    BY <1>9, <2>1, <2>3, <2>4 DEF Frame, Fields
  <2>7. w.amp.faulted => v.amp.faulted
    BY <1>9, <2>1, <2>3, <2>4 DEF Frame, Flags
  <2> QED
    BY <2>4, <2>5, <2>6, <2>7
<1> QED
  BY <1>10, <1>11

\* The clock is configured.
LEMMA ApplyPLLSpec ==
    ASSUME NEW w, IsWorld(w), NEW v \in ApplyPLL(w)
    PROVE  Frame(w, v, {"clock"}, {}) /\ (v.ok => w.ok /\ v.chip.clock = TRUE)
<1> DEFINE F == {"clock"}
           W == {w}
           X == W ++ [clock |-> TRUE]
           Y == X && Nothing
<1>1. Framed(w, W, F, {})
  BY FramedOne
<1> HIDE DEF W
<1>2. Framed(w, X, F, {}) /\ Sure(X, "clock", TRUE)
  BY <1>1, Ones, Framing, Surely, Open DEF Fields
<1> HIDE DEF X
<1>3. Framed(w, Y, F, {}) /\ Sure(Y, "clock", TRUE)
  BY <1>2, FramingNothing, StillSureNothing DEF Fields
<1> QED
  BY <1>3 DEF ApplyPLL, Y, X, W, Framed, Sure

\* The port is configured.
LEMMA ApplyASPSpec ==
    ASSUME NEW w, IsWorld(w), NEW v \in ApplyASP(w)
    PROVE  Frame(w, v, {"port", "route"}, {}) /\ (v.ok => w.ok /\ v.chip.port = TRUE)
<1> DEFINE F == {"port", "route"}
           r == [port |-> TRUE, route |-> IF w.amp.validated THEN "Dsp" ELSE "Bypass"]
           W == {w}
           X == W ++ r
           Y == X ++ Nothing
<1>1. Shaped(r) /\ DOMAIN r = F /\ r.port = TRUE /\ F \cap Protected = {}
  BY DEF Shaped, Fields, Protected
<1>2. \A u \in W : IsWorld(u)
  OBVIOUS
<1> HIDE DEF W, r
<1>3. \A u \in X : \E t \in W : Wrote(t, u, r)
  BY <1>1, <1>2, Tried
<1>4. \A u \in X : Wrote(w, u, r)
  BY <1>3 DEF W
<1>5. Framed(w, X, F, {}) /\ Sure(X, "port", TRUE)
  BY <1>1, <1>4 DEF Framed, Sure, Wrote, Frame, Effective
<1> HIDE DEF X
<1>6. Framed(w, Y, F, {}) /\ Sure(Y, "port", TRUE)
  BY <1>5, FramingNothing, StillSureNothing DEF Fields
<1>7. v \in Y
  BY DEF ApplyASP, Y, X, W, r
<1> QED
  BY <1>6, <1>7 DEF Framed, Sure

\* The pins are configured.
LEMMA ApplyGPIOSpec ==
    ASSUME NEW w, IsWorld(w), NEW v \in ApplyGPIO(w)
    PROVE  Frame(w, v, {"pins"}, {}) /\ (v.ok => w.ok /\ v.chip.pins = TRUE)
<1> DEFINE W == {w}
           X == W ++ [pins |-> TRUE]
<1>1. Framed(w, W, {"pins"}, {})
  BY FramedOne
<1> HIDE DEF W
<1>2. Framed(w, X, {"pins"}, {}) /\ Sure(X, "pins", TRUE)
  BY <1>1, Ones, Framing, Surely, Open DEF Fields
<1> QED
  BY <1>2 DEF ApplyGPIO, X, W, Framed, Sure

\* Where the boost is configured, it is, and the key and the supply are as they
\* should be, if they were.
Powered(w, v) ==
    /\ Frame(w, v, {"boost", "supply", "key"}, {})
    /\ v.ok => /\ w.ok
               /\ board.topology # "Fixed" => v.chip.boost = TRUE
               /\ w.chip.key = "Locked" => v.chip.key = "Locked"
               /\ w.chip.supply = "Off" => v.chip.supply = "Off"

\* The boost of a board with a switch is configured with the supply off, and the key
\* locked again.
LEMMA SwitchedPowerSpec ==
    ASSUME NEW w, IsWorld(w), Switched,
           NEW v \in ({w} && [supply |-> "Off"] && Unlock && [boost |-> TRUE]) ++ Lock
    PROVE  Powered(w, v)
<1> DEFINE F == {"boost", "supply", "key"}
           W == {w}
           A == W && [supply |-> "Off"]
           B == A && Unlock
           C == B && [boost |-> TRUE]
           X == C ++ Lock
<1>1. Framed(w, W, F, {})
  BY FramedOne
<1> HIDE DEF W
<1>2. Framed(w, A, F, {}) /\ Sure(A, "supply", "Off")
  BY <1>1, Ones, Framing, Surely, Open DEF Fields
<1> HIDE DEF A
<1>3. Framed(w, B, F, {}) /\ Sure(B, "supply", "Off") /\ Sure(B, "key", "Unlocked")
  BY <1>2, Ones, Framing, StillSure, Surely, Open DEF Fields
<1> HIDE DEF B
<1>4. Framed(w, C, F, {}) /\ Sure(C, "supply", "Off") /\ Sure(C, "boost", TRUE)
  BY <1>3, Ones, Framing, StillSure, Surely DEF Fields
<1> HIDE DEF C
<1>5. Framed(w, X, F, {}) /\ Sure(X, "supply", "Off") /\ Sure(X, "boost", TRUE)
      /\ Sure(X, "key", "Locked")
  BY <1>4, Ones, Framing, StillSure, Surely, Open DEF Fields
<1>6. v \in X
  BY DEF X, C, B, A, W
<1> QED
  BY <1>5, <1>6 DEF Framed, Sure, Powered

\* The boost is configured on every topology that has one.
LEMMA ConfigurePowerSpec ==
    ASSUME NEW w, IsWorld(w), board.topology \in {"Fixed", "Internal", "Switched"},
           NEW v \in ConfigurePower(w)
    PROVE  Powered(w, v)
<1> DEFINE idle == {[u EXCEPT !.ok = u.ok /\ ~u.chip.power] : u \in Read(w)}
<1>1. ASSUME NEW u \in idle
      PROVE  Frame(w, u, {}, {}) /\ IsWorld(u) /\ (u.ok => w.ok)
  <2>1. PICK s \in Read(w) : u = [s EXCEPT !.ok = s.ok /\ ~s.chip.power]
    BY <1>1
  <2>2. Frame(w, s, {}, {}) /\ IsWorld(s) /\ (s.ok => w.ok)
    BY ReadSpec, FrameWorld
  <2> QED
    BY <2>1, <2>2 DEF Frame, IsWorld
<1>2. CASE board.topology = "Fixed"
  <2>1. v = w
    BY <1>2 DEF ConfigurePower, Internal, Switched
  <2> QED
    BY <1>2, <2>1, FrameSelf DEF Powered
<1>3. CASE Internal
  <2> DEFINE F == {"boost"}
             X == idle && [boost |-> TRUE]
             Y == X && Nothing
  <2>1. v \in Y
    BY <1>3 DEF ConfigurePower, Internal, Switched
  <2>2. Framed(w, idle, F, {})
    BY <1>1, FrameTrans, FrameSelf DEF Framed, Frame
  <2>3. "boost" \notin Protected
    BY <1>3 DEF Protected
  <2> HIDE DEF idle
  <2>4. Framed(w, X, F, {}) /\ Sure(X, "boost", TRUE)
    BY <2>2, <2>3, Ones, Framing, Surely
  <2> HIDE DEF X
  <2>5. Framed(w, Y, F, {}) /\ Sure(Y, "boost", TRUE)
    BY <2>4, FramingNothing, StillSureNothing DEF Fields
  <2> QED
    BY <2>1, <2>5 DEF Framed, Sure, Powered, Frame, Fields
<1>4. CASE Switched
  <2> DEFINE X == Onward(idle, LAMBDA u :
                ({u} && [supply |-> "Off"] && Unlock && [boost |-> TRUE]) ++ Lock)
  <2>1. v \in X && Nothing
    BY <1>4 DEF ConfigurePower, Switched, Internal
  <2>2. ASSUME NEW u \in X PROVE Powered(w, u) /\ IsWorld(u)
    <3>1. PICK s \in idle :
            \/ s.ok /\ u \in ({s} && [supply |-> "Off"] && Unlock && [boost |-> TRUE]) ++ Lock
            \/ ~s.ok /\ u = s
      BY <2>2 DEF Onward
    <3>2. Frame(w, s, {}, {}) /\ IsWorld(s) /\ (s.ok => w.ok)
      BY <1>1
    <3>3. (s.ok /\ Powered(s, u)) \/ (~s.ok /\ u = s)
      BY <1>4, <3>1, <3>2, SwitchedPowerSpec
    <3> QED
      BY <3>2, <3>3 DEF Powered, Frame, Fields
  <2> HIDE DEF X
  <2>3. \A u \in X : IsWorld(u)
    BY <2>2
  <2>4. Shaped(Nothing)
    BY DEF Shaped, Nothing
  <2>5. PICK u \in X : Wrote(u, v, Nothing) \/ v = u
    BY <2>1, <2>3, <2>4, Ordered
  <2>6. Powered(w, u)
    BY <2>2
  <2>7. CASE Wrote(u, v, Nothing)
    <3>1. Frame(u, v, {}, {}) /\ (v.ok => u.ok)
      BY <2>7 DEF Wrote, Frame, Nothing
    <3> QED
      BY <2>6, <3>1 DEF Powered, Frame, Fields
  <2> QED
    BY <2>5, <2>6, <2>7
<1> QED
  BY <1>2, <1>3, <1>4 DEF Internal, Switched

\* The same, after the two writes that precede it.
LEMMA ConfigureHardwareSpec ==
    ASSUME NEW w, IsWorld(w), board.topology \in {"Fixed", "Internal", "Switched"},
           NEW v \in ConfigureHardware(w)
    PROVE  Powered(w, v)
<1> DEFINE W == {w}
           X == W ++ Nothing
           Y == X ++ Nothing
<1>1. Framed(w, W, {}, {})
  BY FramedOne
<1> HIDE DEF W
<1>2. Framed(w, X, {}, {})
  BY <1>1, FramingNothing
<1> HIDE DEF X
<1>3. Framed(w, Y, {}, {})
  BY <1>2, FramingNothing
<1> HIDE DEF Y
<1>4. PICK u \in Y : v \in {[t EXCEPT !.ok = t.ok /\ u.ok] :
                               t \in ConfigurePower([u EXCEPT !.ok = TRUE])}
  BY DEF ConfigureHardware, Anyway, Y, X, W
<1>5. Frame(w, u, {}, {}) /\ IsWorld(u) /\ (u.ok => w.ok)
  BY <1>3, FrameWorld DEF Framed
<1> DEFINE b == [u EXCEPT !.ok = TRUE]
<1>6. IsWorld(b) /\ b.chip = u.chip /\ b.amp = u.amp
  BY <1>5 DEF IsWorld
<1>7. PICK t \in ConfigurePower(b) : v = [t EXCEPT !.ok = t.ok /\ u.ok]
  BY <1>4
<1> HIDE DEF b
<1>8. Powered(b, t) /\ IsWorld(t)
  BY <1>6, ConfigurePowerSpec, FrameWorld DEF Powered
<1>9. IsWorld(v) /\ v.chip = t.chip /\ v.amp = t.amp /\ (v.ok => t.ok /\ u.ok)
  BY <1>7, <1>8 DEF IsWorld
<1> QED
  BY <1>5, <1>6, <1>8, <1>9 DEF Powered, Frame, Fields

\* What initialize leaves behind: an idle chip, configured as far as it goes.
Idle(c) ==
    /\ c.key = "Locked" /\ ~c.power /\ ~c.output /\ (Switched => c.supply = "Off")

Configured(c) ==
    /\ c.errata = TRUE /\ c.trim = TRUE /\ c.clock = TRUE /\ c.port = TRUE /\ c.pins = TRUE
    /\ board.topology # "Fixed" => c.boost = TRUE

Down(w, v) ==
    /\ IsWorld(v) /\ v.chip.mem = w.chip.mem /\ (v.chip.abused => w.chip.abused)
    /\ ~v.amp.initialized /\ ~v.amp.alive /\ ~v.amp.validated
    /\ w.amp.faulted => v.amp.faulted

\* Configuration leaves the amplifier down.
LEMMA DownFrame ==
    ASSUME NEW u, NEW v, NEW w, Down(w, u), NEW F, Frame(u, v, F, {}),
           F \subseteq Fields \ {"mem", "abused"}
    PROVE  Down(w, v)
BY DEF Down, Frame, Fields, Flags

\* The hardware that was initialized (initializeHardware of CS35L41Driver) is
\* configured, idle and muted, with its core off.
LEMMA InitializeHardwareSpec ==
    ASSUME NEW w, IsWorld(w), board.topology \in {"Fixed", "Internal", "Switched"},
           NEW v \in InitializeHardware(w)
    PROVE  /\ Down(w, v)
           /\ v.ok => /\ Configured(v.chip) /\ Idle(v.chip) /\ v.chip.core = "Off"
                      /\ v.chip.muted
<1> DEFINE cleared == [w EXCEPT !.amp.initialized = FALSE, !.amp.validated = FALSE,
                                !.amp.alive = FALSE, !.amp.present = FALSE]
           patched == Onward(ResetDevice(cleared), InitializeErrata)
           plled == Onward(patched, ApplyPLL)
           clocked == Onward(plled, ApplyASP)
           wired == Onward(clocked, ApplyGPIO)
           Still(c) == c.core = "Off" /\ c.muted = TRUE /\ c.power = FALSE /\ c.output = FALSE
                       /\ c.supply = "Off" /\ c.key = "Locked"
<1>1. /\ IsWorld(cleared) /\ cleared.chip = w.chip
      /\ cleared.amp.faulted = w.amp.faulted
      /\ ~cleared.amp.initialized /\ ~cleared.amp.alive /\ ~cleared.amp.validated
  BY DEF IsWorld, Flags
<1> HIDE DEF cleared
<1>2. ASSUME NEW u \in ResetDevice(cleared)
      PROVE  Down(w, u) /\ (u.ok => Still(u.chip))
  <2>1. Isolated(cleared, u) /\ (u.ok => Bare(u.chip))
    BY <1>1, ResetDeviceSpec
  <2> QED
    BY <1>1, <2>1 DEF Isolated, Down, Frame, Fields, Flags, Bare
<1>3. ASSUME NEW u \in patched
      PROVE  /\ Down(w, u)
             /\ u.ok => Still(u.chip) /\ u.chip.errata = TRUE /\ u.chip.trim = TRUE
  <2>1. PICK s \in ResetDevice(cleared) : (s.ok /\ u \in InitializeErrata(s)) \/ (~s.ok /\ u = s)
    BY <1>3 DEF Onward
  <2>2. Down(w, s) /\ (s.ok => Still(s.chip)) /\ IsWorld(s)
    BY <1>2 DEF Down
  <2>3. CASE s.ok /\ u \in InitializeErrata(s)
    <3>1. /\ Frame(s, u, {"key", "errata", "trim", "core"}, {"faulted"})
          /\ u.chip.core \in {s.chip.core, "Off"} /\ (s.amp.faulted => u.amp.faulted)
          /\ u.ok => /\ u.chip.errata = TRUE /\ u.chip.trim = TRUE
                     /\ u.chip.key = "Locked"
      BY <2>2, <2>3, InitializeErrataSpec
    <3>2. Down(w, u)
      BY <2>2, <3>1 DEF Down, Frame, Fields, Flags
    <3> QED
      BY <2>2, <2>3, <3>1, <3>2 DEF Frame, Fields
  <2> QED
    BY <2>1, <2>2, <2>3
<1> HIDE DEF patched
<1>4. ASSUME NEW u \in plled
      PROVE  /\ Down(w, u)
             /\ u.ok => /\ Still(u.chip) /\ u.chip.errata = TRUE /\ u.chip.trim = TRUE
                        /\ u.chip.clock = TRUE
  <2>1. PICK s \in patched : (s.ok /\ u \in ApplyPLL(s)) \/ (~s.ok /\ u = s)
    BY <1>4 DEF Onward
  <2>2. /\ Down(w, s) /\ IsWorld(s)
        /\ s.ok => Still(s.chip) /\ s.chip.errata = TRUE /\ s.chip.trim = TRUE
    BY <1>3 DEF Down
  <2>3. CASE s.ok /\ u \in ApplyPLL(s)
    <3>1. Frame(s, u, {"clock"}, {}) /\ (u.ok => u.chip.clock = TRUE)
      BY <2>2, <2>3, ApplyPLLSpec
    <3>2. Down(w, u)
      BY <2>2, <3>1, DownFrame DEF Fields
    <3> QED
      BY <2>2, <2>3, <3>1, <3>2 DEF Frame, Fields
  <2> QED
    BY <2>1, <2>2, <2>3
<1> HIDE DEF plled
<1>5. ASSUME NEW u \in clocked
      PROVE  /\ Down(w, u)
             /\ u.ok => /\ Still(u.chip) /\ u.chip.errata = TRUE /\ u.chip.trim = TRUE
                        /\ u.chip.clock = TRUE /\ u.chip.port = TRUE
  <2>1. PICK s \in plled : (s.ok /\ u \in ApplyASP(s)) \/ (~s.ok /\ u = s)
    BY <1>5 DEF Onward
  <2>2. /\ Down(w, s) /\ IsWorld(s)
        /\ s.ok => /\ Still(s.chip) /\ s.chip.errata = TRUE /\ s.chip.trim = TRUE
                   /\ s.chip.clock = TRUE
    BY <1>4 DEF Down
  <2>3. CASE s.ok /\ u \in ApplyASP(s)
    <3>1. Frame(s, u, {"port", "route"}, {}) /\ (u.ok => u.chip.port = TRUE)
      BY <2>2, <2>3, ApplyASPSpec
    <3>2. Down(w, u)
      BY <2>2, <3>1, DownFrame DEF Fields
    <3> QED
      BY <2>2, <2>3, <3>1, <3>2 DEF Frame, Fields
  <2> QED
    BY <2>1, <2>2, <2>3
<1> HIDE DEF clocked
<1>6. ASSUME NEW u \in wired
      PROVE  /\ Down(w, u)
             /\ u.ok => /\ Still(u.chip) /\ u.chip.errata = TRUE /\ u.chip.trim = TRUE
                        /\ u.chip.clock = TRUE /\ u.chip.port = TRUE /\ u.chip.pins = TRUE
  <2>1. PICK s \in clocked : (s.ok /\ u \in ApplyGPIO(s)) \/ (~s.ok /\ u = s)
    BY <1>6 DEF Onward
  <2>2. /\ Down(w, s) /\ IsWorld(s)
        /\ s.ok => /\ Still(s.chip) /\ s.chip.errata = TRUE /\ s.chip.trim = TRUE
                   /\ s.chip.clock = TRUE /\ s.chip.port = TRUE
    BY <1>5 DEF Down
  <2>3. CASE s.ok /\ u \in ApplyGPIO(s)
    <3>1. Frame(s, u, {"pins"}, {}) /\ (u.ok => u.chip.pins = TRUE)
      BY <2>2, <2>3, ApplyGPIOSpec
    <3>2. Down(w, u)
      BY <2>2, <3>1, DownFrame DEF Fields
    <3> QED
      BY <2>2, <2>3, <3>1, <3>2 DEF Frame, Fields
  <2> QED
    BY <2>1, <2>2, <2>3
<1> HIDE DEF wired
<1>7. PICK s \in wired : (s.ok /\ v \in ConfigureHardware(s)) \/ (~s.ok /\ v = s)
  BY DEF InitializeHardware, Onward, wired, clocked, plled, patched, cleared
<1>8. /\ Down(w, s) /\ IsWorld(s)
      /\ s.ok => /\ Still(s.chip) /\ s.chip.errata = TRUE /\ s.chip.trim = TRUE
                 /\ s.chip.clock = TRUE /\ s.chip.port = TRUE /\ s.chip.pins = TRUE
  BY <1>6 DEF Down
<1>9. CASE s.ok /\ v \in ConfigureHardware(s)
  <2>1. Powered(s, v)
    BY <1>8, <1>9, ConfigureHardwareSpec
  <2>2. Down(w, v)
    BY <1>8, <2>1, DownFrame DEF Powered, Fields
  <2>3. v.ok => Configured(v.chip) /\ Idle(v.chip) /\ v.chip.core = "Off" /\ v.chip.muted
    BY <1>8, <1>9, <2>1 DEF Powered, Frame, Fields, Configured, Idle
  <2> QED
    BY <2>2, <2>3
<1> QED
  BY <1>7, <1>8, <1>9

-----------------------------------------------------------------------------
\* A block of memory is written while the core is stopped.
Stored(w, v) ==
    /\ Frame(w, v, {"mem", "abused"}, {}) /\ (v.chip.abused => w.chip.abused)
    /\ v.chip.mem[Calibration] = "Other" => w.chip.mem[Calibration] = "Other"

\* None of the blocks but those of B has changed.
Others(w, v, B) == \A d \in Blocks \ B : v.chip.mem[d] = w.chip.mem[d]

\* Two stores in turn.
LEMMA StoredTrans ==
    ASSUME NEW u, NEW v, NEW w, Stored(w, u), Stored(u, v)
    PROVE  Stored(w, v)
BY DEF Stored, Frame

\* What changes nothing stores nothing.
LEMMA StoredFrame ==
    ASSUME NEW w, NEW v, Frame(w, v, {}, {})
    PROVE  Stored(w, v) /\ Others(w, v, {})
BY DEF Stored, Others, Frame, Fields

\* The memory after a block was written: that block, and the calibration that may go
\* with it, are all that changed.
LEMMA LoadedSpec ==
    ASSUME NEW c, DOMAIN c.mem = Memories, NEW b, NEW x
    PROVE  LET r == Loaded(c, b, x)
           IN  /\ Shaped(r) /\ DOMAIN r = {"mem", "abused"} /\ DOMAIN r \cap Protected = {}
               /\ \A d \in Memories \ {b, Calibration} : r.mem[d] = c.mem[d]
               /\ b \in Memories => r.mem[b] = x
               /\ b # Calibration => r.mem[Calibration] \in {c.mem[Calibration], "Old"}
               /\ c.core = "Off" => (r.abused => c.abused)
<1> DEFINE r == Loaded(c, b, x)
<1>1. /\ DOMAIN r = {"mem", "abused"} /\ r.abused = (c.abused \/ c.core = "On")
      /\ r.mem = [d \in Memories |-> IF d = b THEN x
                   ELSE IF d = Calibration /\ b = "XM2" THEN "Old" ELSE c.mem[d]]
  BY DEF Loaded
<1> HIDE DEF r
<1>2. DOMAIN r.mem = Memories /\ DOMAIN r \cap Protected = {} /\ Shaped(r)
  BY <1>1 DEF Protected, Shaped, Fields
<1>3. \A d \in Memories \ {b, Calibration} : r.mem[d] = c.mem[d]
  BY <1>1
<1>4. b \in Memories => r.mem[b] = x
  BY <1>1
<1>5. b # Calibration => r.mem[Calibration] \in {c.mem[Calibration], "Old"}
  BY <1>1 DEF Memories
<1>6. c.core = "Off" => (r.abused => c.abused)
  BY <1>1
<1> QED
  BY <1>1, <1>2, <1>3, <1>4, <1>5, <1>6 DEF r

\* A block written under a stopped core, by a transfer that may fail.
LEMMA LoadSpec ==
    ASSUME NEW w, IsWorld(w), w.chip.core = "Off", NEW b \in Memories, NEW x,
           NEW c, c.mem = w.chip.mem, c.core = "Off", c.abused = w.chip.abused,
           b = Calibration => x # "Other",
           NEW v \in Write(w, Loaded(c, b, x))
    PROVE  /\ Stored(w, v) /\ Others(w, v, {b})
           /\ v.ok => w.ok /\ v.chip.mem[b] = x
<1> DEFINE r == Loaded(c, b, x)
<1>1. IsChip(w.chip) /\ DOMAIN c.mem = Memories
  BY DEF IsWorld, IsChip
<1>2. /\ Shaped(r) /\ DOMAIN r = {"mem", "abused"} /\ DOMAIN r \cap Protected = {}
      /\ \A d \in Memories \ {b, Calibration} : r.mem[d] = c.mem[d]
      /\ r.mem[b] = x
      /\ b # Calibration => r.mem[Calibration] \in {c.mem[Calibration], "Old"}
      /\ r.abused => c.abused
  BY <1>1, LoadedSpec
<1> HIDE DEF r
<1>3. Wrote(w, v, r)
  BY <1>2, WriteSpec DEF r
<1>4. Frame(w, v, {"mem", "abused"}, {}) /\ (v.ok => w.ok)
  BY <1>2, <1>3 DEF Wrote, Frame
<1>5. v.chip.mem = w.chip.mem \/ v.chip.mem = r.mem
  BY <1>2, <1>3 DEF Wrote
<1>6. v.chip.abused => w.chip.abused
  <2>1. v.chip.abused = w.chip.abused \/ v.chip.abused = r.abused
    BY <1>2, <1>3 DEF Wrote
  <2> QED
    BY <1>2, <2>1
<1>7. v.ok => v.chip.mem = r.mem
  BY <1>2, <1>3 DEF Wrote, Effective
<1>8. Others(w, v, {b})
  BY <1>2, <1>5 DEF Others, Memories, Blocks, Calibration
<1>9. r.mem[Calibration] = "Other" => w.chip.mem[Calibration] = "Other"
  BY <1>2
<1> QED
  BY <1>2, <1>4, <1>5, <1>6, <1>7, <1>8, <1>9 DEF Stored

\* Where the upload is.
Positioned ==
    \/ up.region = 1 /\ up.tx = 1
    \/ up.region = 2 /\ up.tx \in {1, 2}
    \/ up.region = 3 /\ up.tx = 1

\* The region and the block of each position of the upload.
LEMMA Position ==
    ASSUME Positioned
    PROVE  /\ Region \in {<<"PM">>, <<"XM1", "XM2">>, <<"Tuning">>}
           /\ Block \in Blocks
           /\ up.region = 1 => Block = "PM" /\ Region = <<"PM">> /\ ~Readable
           /\ up.region = 2 => Region = <<"XM1", "XM2">> /\ Readable
           /\ up.region = 2 /\ up.tx = 1 => Block = "XM1"
           /\ up.region = 2 /\ up.tx = 2 => Block = "XM2"
           /\ up.region = 3 => Block = "Tuning" /\ Region = <<"Tuning">> /\ Readable
<1>1. CASE up.region = 1 /\ up.tx = 1
  <2>1. Region = <<"PM">>
    BY <1>1 DEF Region, Regions
  <2>2. Block = "PM"
    BY <1>1, <2>1 DEF Block
  <2> QED
    BY <1>1, <2>1, <2>2 DEF Readable, Blocks
<1>2. CASE up.region = 2 /\ up.tx \in {1, 2}
  <2>1. Region = <<"XM1", "XM2">>
    BY <1>2 DEF Region, Regions
  <2>2. (up.tx = 1 => Block = "XM1") /\ (up.tx = 2 => Block = "XM2")
    BY <1>2, <2>1 DEF Block
  <2>3. Readable
    BY <2>1 DEF Readable
  <2> QED
    BY <1>2, <2>1, <2>2, <2>3 DEF Blocks
<1>3. CASE up.region = 3 /\ up.tx = 1
  <2>1. Region = <<"Tuning">>
    BY <1>3 DEF Region, Regions
  <2>2. Block = "Tuning"
    BY <1>3, <2>1 DEF Block
  <2>3. Readable
    BY <2>1 DEF Readable
  <2> QED
    BY <1>3, <2>1, <2>2, <2>3 DEF Blocks
<1> QED
  BY <1>1, <1>2, <1>3 DEF Positioned

\* What a transfer that fails leaves of c.
LEMMA FailsSpec ==
    ASSUME NEW w, IsWorld(w), NEW v \in Fails(w)
    PROVE  Frame(w, v, {}, {}) /\ ~v.ok
BY DEF Fails, IsWorld, Frame

\* A bulk write touches its block only, and one that cannot be read back is right
\* where it succeeded.
LEMMA BulkWriteSpec ==
    ASSUME NEW w, IsWorld(w), w.chip.core = "Off", Positioned, NEW v \in BulkWrite(w, "New")
    PROVE  /\ Stored(w, v) /\ Others(w, v, {Block})
           /\ v.ok /\ ~Readable => v.chip.mem[Block] = "New"
<1> DEFINE bad == [w EXCEPT !.chip = Effect(w.chip, Loaded(w.chip, Block, "Bad"))]
<1>1. Block \in Memories /\ Block # Calibration
  BY Position DEF Memories, Blocks, Calibration
<1>2. CASE v \in Write(w, Loaded(w.chip, Block, "New"))
  BY <1>1, <1>2, LoadSpec
<1>3. IsWorld(bad) /\ Stored(w, bad) /\ Others(w, bad, {Block})
  <2> DEFINE r == Loaded(w.chip, Block, "Bad")
             c == Effect(w.chip, r)
  <2>1. IsChip(w.chip) /\ DOMAIN w.chip.mem = Memories
    BY DEF IsWorld, IsChip
  <2>2. /\ Shaped(r) /\ DOMAIN r = {"mem", "abused"}
        /\ \A d \in Memories \ {Block, Calibration} : r.mem[d] = w.chip.mem[d]
        /\ r.mem[Calibration] \in {w.chip.mem[Calibration], "Old"}
        /\ r.abused => w.chip.abused
    BY <1>1, <2>1, LoadedSpec
  <2> HIDE DEF r
  <2>3. /\ IsChip(c) /\ \A f \in Fields \ {"mem", "abused"} : c[f] = w.chip[f]
        /\ c.mem = w.chip.mem \/ c.mem = r.mem
        /\ c.abused = w.chip.abused \/ c.abused = r.abused
    BY <2>1, <2>2, EffectSpec
  <2>4. bad = [w EXCEPT !.chip = c]
    BY DEF r
  <2> HIDE DEF c, bad
  <2>5. IsWorld(bad) /\ bad.chip = c /\ bad.amp = w.amp
    BY <2>3, <2>4 DEF IsWorld
  <2>6. Stored(w, bad)
    BY <2>2, <2>3, <2>5 DEF Stored, Frame
  <2>7. Others(w, bad, {Block})
    BY <2>2, <2>3, <2>5 DEF Others, Memories, Blocks, Calibration
  <2> QED
    BY <2>5, <2>6, <2>7
<1>4. ASSUME NEW u \in Fails(bad)
      PROVE  Stored(w, u) /\ Others(w, u, {Block}) /\ ~u.ok /\ IsWorld(u)
  <2> HIDE DEF bad
  <2>1. Frame(bad, u, {}, {}) /\ ~u.ok
    BY <1>3, <1>4, FailsSpec
  <2>2. Stored(w, u)
    BY <1>3, <2>1, StoredFrame, StoredTrans
  <2>3. u.chip.mem = bad.chip.mem
    BY <2>1 DEF Frame, Fields
  <2>4. Others(w, u, {Block})
    BY <1>3, <2>3 DEF Others
  <2> QED
    BY <2>1, <2>2, <2>4, FrameWorld
<1>5. CASE v \in Fails(bad)
  BY <1>4, <1>5
<1>6. ASSUME Readable, NEW u \in Fails(bad), v = [u EXCEPT !.ok = TRUE, !.down = FALSE]
      PROVE  Stored(w, v) /\ Others(w, v, {Block})
  <2>1. Stored(w, u) /\ Others(w, u, {Block}) /\ IsWorld(u)
    BY <1>4, <1>6
  <2>2. IsWorld(v) /\ v.chip = u.chip /\ v.amp = u.amp
    BY <1>6, <2>1 DEF IsWorld
  <2> QED
    BY <2>1, <2>2 DEF Stored, Others, Frame
<1> HIDE DEF bad
<1>7. \/ v \in Write(w, Loaded(w.chip, Block, "New"))
      \/ v \in Fails(bad)
      \/ Readable /\ \E u \in Fails(bad) : v = [u EXCEPT !.ok = TRUE, !.down = FALSE]
  BY DEF BulkWrite, bad
<1> QED
  BY <1>2, <1>5, <1>6, <1>7

\* The same of a write that is tried once more.
LEMMA WriteBlockSpec ==
    ASSUME NEW w, IsWorld(w), w.chip.core = "Off", Positioned, NEW v \in WriteBlock(w)
    PROVE  /\ Stored(w, v) /\ Others(w, v, {Block})
           /\ v.ok /\ ~Readable => v.chip.mem[Block] = "New"
<1>1. PICK u \in BulkWrite(w, "New") :
        (u.ok /\ v = u) \/ (~u.ok /\ v \in BulkWrite([u EXCEPT !.ok = TRUE], "New"))
  BY DEF WriteBlock
<1>2. /\ Stored(w, u) /\ Others(w, u, {Block}) /\ IsWorld(u)
      /\ u.ok /\ ~Readable => u.chip.mem[Block] = "New"
  BY BulkWriteSpec, FrameWorld DEF Stored
<1>3. CASE ~u.ok /\ v \in BulkWrite([u EXCEPT !.ok = TRUE], "New")
  <2> DEFINE b == [u EXCEPT !.ok = TRUE]
  <2>1. IsWorld(b) /\ b.chip = u.chip /\ b.amp = u.amp
    BY <1>2 DEF IsWorld
  <2>2. b.chip.core = "Off"
    BY <1>2, <2>1 DEF Stored, Frame, Fields
  <2>3. v \in BulkWrite(b, "New")
    BY <1>3
  <2> HIDE DEF b
  <2>4. /\ Stored(b, v) /\ Others(b, v, {Block})
        /\ v.ok /\ ~Readable => v.chip.mem[Block] = "New"
    BY <2>1, <2>2, <2>3, BulkWriteSpec
  <2>5. Stored(w, b) /\ Others(w, b, {Block})
    BY <1>2, <2>1 DEF Stored, Others, Frame
  <2> QED
    BY <2>4, <2>5, StoredTrans DEF Others
<1> QED
  BY <1>1, <1>2, <1>3

\* A block that was verified is right.
LEMMA VerifyBlockSpec ==
    ASSUME NEW w, IsWorld(w), NEW v \in VerifyBlock(w)
    PROVE  Frame(w, v, {}, {}) /\ (v.ok => w.ok /\ v.chip.mem[Block] = "New")
<1>1. PICK u \in Read(w) : v = [u EXCEPT !.ok = u.ok /\ u.chip.mem[Block] = "New"]
  BY DEF VerifyBlock
<1>2. Frame(w, u, {}, {}) /\ IsWorld(u) /\ (u.ok => w.ok)
  BY ReadSpec, FrameWorld
<1>3. IsWorld(v) /\ v.chip = u.chip /\ v.amp = u.amp
      /\ v.ok = (u.ok /\ u.chip.mem[Block] = "New")
  BY <1>1, <1>2 DEF IsWorld
<1> QED
  BY <1>2, <1>3 DEF Frame

\* A block that is put back, under a stopped core.
LEMMA RestoredSpec ==
    ASSUME NEW w, w.chip.core = "Off", NEW ws, \A u \in ws : Stored(w, u), NEW b \in Blocks,
           NEW v \in Restored(ws, b)
    PROVE  Stored(w, v)
<1>1. PICK u \in ws : v \in Write(u, Loaded(u.chip, b, up.backup[b]))
  BY DEF Restored
<1>2. Stored(w, u) /\ IsWorld(u) /\ u.chip.core = "Off"
  BY FrameWorld DEF Stored, Frame, Fields
<1>3. b \in Memories /\ b # Calibration
  BY DEF Memories, Blocks, Calibration
<1>4. Stored(u, v)
  BY <1>1, <1>2, <1>3, LoadSpec
<1> QED
  BY <1>2, <1>4, StoredTrans

\* A region that is put back (WMFWUploader.hpp) leaves the upload failed.
LEMMA RestoreRegionSpec ==
    ASSUME NEW w, IsWorld(w), w.chip.core = "Off", Positioned, NEW v \in RestoreRegion(w)
    PROVE  Stored(w, v) /\ v.ok = FALSE
<1> DEFINE first == IF Readable THEN Restored({w}, Region[1]) ELSE {w}
           all == IF Len(Region) = 2 THEN Restored(first, Region[2]) ELSE first
<1>1. Region[1] \in Blocks /\ (Len(Region) = 2 => Region[2] \in Blocks)
  BY Position DEF Blocks
<1>2. Stored(w, w)
  BY FrameSelf, StoredFrame
<1>3. \A u \in first : Stored(w, u)
  BY <1>1, <1>2, RestoredSpec
<1> HIDE DEF first
<1>4. \A u \in all : Stored(w, u)
  BY <1>1, <1>3, RestoredSpec
<1>5. PICK u \in all : v = [u EXCEPT !.ok = FALSE]
  BY DEF RestoreRegion, first
<1>6. Stored(w, u) /\ IsWorld(u)
  BY <1>4, FrameWorld DEF Stored
<1>7. IsWorld(v) /\ v.chip = u.chip /\ v.amp = u.amp /\ v.ok = FALSE
  BY <1>5, <1>6 DEF IsWorld
<1> QED
  BY <1>6, <1>7 DEF Stored, Frame

\* A transaction that succeeds has written its block and no other.
LEMMA TransactionSpec ==
    ASSUME NEW w, IsWorld(w), w.chip.core = "Off", Positioned, NEW v \in Transaction(w)
    PROVE  /\ Stored(w, v)
           /\ v.ok => w.ok /\ Others(w, v, {Block}) /\ v.chip.mem[Block] = "New"
<1> DEFINE saved == IF Readable /\ up.tx = 1 THEN Read(w) ELSE {w}
           Verified(u) == IF Readable THEN VerifyBlock(u) ELSE {u}
           tried(s) == Onward(WriteBlock(s), Verified)
           Sent(s) == UNION {IF u.ok THEN {u} ELSE RestoreRegion(u) : u \in tried(s)}
<1>1. PICK s \in saved : (s.ok /\ v \in Sent(s)) \/ (~s.ok /\ v = s)
  BY DEF Transaction, Onward
<1>2. Frame(w, s, {}, {}) /\ (s.ok => w.ok) /\ IsWorld(s)
  BY ReadSpec, FrameSelf, FrameWorld
<1>3. s.chip.core = "Off" /\ s.chip.mem = w.chip.mem /\ Stored(w, s)
  BY <1>2, StoredFrame DEF Frame, Fields
<1>4. CASE s.ok /\ v \in Sent(s)
  <2>1. PICK u \in tried(s) : (u.ok /\ v = u) \/ (~u.ok /\ v \in RestoreRegion(u))
    BY <1>4
  <2>2. PICK t \in WriteBlock(s) : (t.ok /\ u \in Verified(t)) \/ (~t.ok /\ u = t)
    BY <2>1 DEF Onward
  <2>3. /\ Stored(s, t) /\ Others(s, t, {Block}) /\ IsWorld(t)
        /\ t.ok /\ ~Readable => t.chip.mem[Block] = "New"
    BY <1>2, <1>3, WriteBlockSpec, FrameWorld DEF Stored
  <2>4. Frame(t, u, {}, {}) /\ (u.ok => u.chip.mem[Block] = "New")
    <3>1. CASE t.ok /\ Readable
      BY <2>2, <2>3, <3>1, VerifyBlockSpec
    <3>2. CASE u = t /\ (t.ok => ~Readable)
      BY <2>3, <3>2, FrameSelf
    <3> QED
      BY <2>2, <3>1, <3>2
  <2>5. Stored(t, u) /\ u.chip.mem = t.chip.mem
    BY <2>4, StoredFrame DEF Frame, Fields
  <2>6. Stored(s, u) /\ Stored(w, u)
    BY <1>3, <2>3, <2>5, StoredTrans
  <2>7. Others(w, u, {Block})
    BY <1>3, <2>3, <2>5 DEF Others
  <2>8. CASE ~u.ok /\ v \in RestoreRegion(u)
    <3>1. IsWorld(u) /\ u.chip.core = "Off"
      BY <1>3, <2>6, FrameWorld DEF Stored, Frame, Fields
    <3>2. Stored(u, v) /\ ~v.ok
      BY <2>8, <3>1, RestoreRegionSpec
    <3> QED
      BY <2>6, <3>2, StoredTrans
  <2> QED
    BY <1>2, <1>4, <2>1, <2>4, <2>6, <2>7, <2>8
<1> QED
  BY <1>1, <1>3, <1>4

-----------------------------------------------------------------------------
Records == {<<>>, <<"Any">>, <<"Other", "Mine">>, <<"Other">>, <<"Bad">>}

\* The calibration in the memory is that of this chip, if the table has one.
Calibrated(mem) ==
    /\ mem[Calibration] # "Other"
    /\ \A i \in DOMAIN board.records :
          board.records[i] = "Mine" => mem[Calibration] = "Mine"
    /\ board.records = <<"Any">> => mem[Calibration] = "Any"

\* A record that is selected is never another chip's, and is this chip's if
\* there is one; and where none is selected there is none for this chip.
LEMMA SelectRecordSpec ==
    ASSUME board.records \in Records, board.records # <<"Bad">>
    PROVE  /\ SelectRecord # 0 =>
                LET x == board.records[SelectRecord]
                IN  /\ x # "Other" /\ (board.records = <<"Any">> => x = "Any")
                    /\ \A i \in DOMAIN board.records : board.records[i] = "Mine" => x = "Mine"
           /\ SelectRecord = 0 =>
                /\ \A i \in DOMAIN board.records : board.records[i] # "Mine"
                /\ board.records # <<"Any">>
<1> DEFINE own == {i \in 1 .. RecordCount : board.records[i] = "Mine"}
<1>1. CASE board.records = <<>>
  <2>1. RecordCount = 0 /\ DOMAIN board.records = {}
    BY <1>1 DEF RecordCount
  <2>2. own = {}
    BY <2>1
  <2>3. SelectRecord = 0
    BY <2>1, <2>2 DEF SelectRecord
  <2> QED
    BY <1>1, <2>1, <2>3
<1>2. CASE board.records = <<"Any">>
  <2>1. RecordCount = 1 /\ DOMAIN board.records = {1} /\ board.records[1] = "Any"
    BY <1>2 DEF RecordCount
  <2>2. own = {}
    BY <2>1
  <2>3. SelectRecord = 1
    BY <2>1, <2>2 DEF SelectRecord
  <2> QED
    BY <2>1, <2>3
<1>3. CASE board.records = <<"Other", "Mine">>
  <2>1. /\ RecordCount = 2 /\ DOMAIN board.records = {1, 2}
        /\ board.records[1] = "Other" /\ board.records[2] = "Mine"
    BY <1>3 DEF RecordCount
  <2>2. own = {2}
    BY <2>1
  <2>3. SelectRecord = CHOOSE i \in own : \A j \in own : i <= j
    BY <2>2 DEF SelectRecord
  <2>4. SelectRecord \in own
    BY <2>2, <2>3
  <2> QED
    BY <1>3, <2>1, <2>2, <2>4
<1>4. CASE board.records = <<"Other">>
  <2>1. RecordCount = 1 /\ DOMAIN board.records = {1} /\ board.records[1] = "Other"
    BY <1>4 DEF RecordCount
  <2>2. own = {}
    BY <2>1
  <2>3. SelectRecord = 0
    BY <2>1, <2>2 DEF SelectRecord
  <2> QED
    BY <1>4, <2>1, <2>3
<1> QED
  BY <1>1, <1>2, <1>3, <1>4 DEF Records

\* The identity is read, if it is needed.
LEMMA ReadSiliconUidSpec ==
    ASSUME NEW w, IsWorld(w), NEW v \in ReadSiliconUid(w)
    PROVE  Frame(w, v, {}, {}) /\ (v.ok => w.ok)
BY ReadSpec, FrameSelf DEF ReadSiliconUid

\* A write of the calibration that succeeded has put x there.
Carries(u, x) == u.ok => u.chip.mem[Calibration] = x

\* A record that is written is there, and no other.
LEMMA LoadCalibration ==
    ASSUME NEW t, IsWorld(t), NEW s, s.chip.core = "Off", NEW x, x # "Other",
           t.chip.core = "Off", t.chip.mem = s.chip.mem, t.chip.abused = s.chip.abused,
           NEW u \in Write(t, Loaded(s.chip, Calibration, x))
    PROVE  /\ Stored(t, u) /\ Others(t, u, {Calibration})
           /\ Carries(u, x)
<1> DEFINE c == s.chip
           b == Calibration
<1>1. b \in Memories /\ c.mem = t.chip.mem /\ c.core = "Off" /\ c.abused = t.chip.abused
  BY DEF Memories
<1>2. u \in Write(t, Loaded(c, b, x))
  OBVIOUS
<1> HIDE DEF b, c
<1>3. /\ Stored(t, u) /\ Others(t, u, {b})
      /\ u.ok => u.chip.mem[b] = x
  BY <1>1, <1>2, LoadSpec
<1> QED
  BY <1>3 DEF b, Carries

\* The calibration is applied, and the blocks stay as they are.
LEMMA ApplyCalibrationSpec ==
    ASSUME NEW w, IsWorld(w), w.chip.core = "Off", board.records \in Records,
           w.chip.mem[Calibration] # "Other", NEW v \in ApplyCalibration(w)
    PROVE  /\ Stored(w, v) /\ Others(w, v, {})
           /\ v.ok => w.ok /\ Calibrated(v.chip.mem)
<1> DEFINE value == board.records[SelectRecord]
           Applied(u) == {u} && Nothing && Loaded(u.chip, Calibration, value) && Nothing
<1>1. CASE board.records = <<"Bad">>
  <2>1. v = [w EXCEPT !.ok = FALSE]
    BY <1>1 DEF ApplyCalibration, SelectRecord, RecordCount
  <2>2. Frame(w, v, {}, {}) /\ ~v.ok
    BY <2>1 DEF Frame, IsWorld
  <2> QED
    BY <2>2, StoredFrame
<1>2. CASE board.records # <<"Bad">> /\ SelectRecord = 0
  <2>1. v \in ReadSiliconUid(w)
    BY <1>2 DEF ApplyCalibration
  <2>2. Frame(w, v, {}, {}) /\ (v.ok => w.ok)
    BY <2>1, ReadSiliconUidSpec
  <2>3. v.chip.mem = w.chip.mem
    BY <2>2 DEF Frame, Fields
  <2>4. Calibrated(v.chip.mem)
    BY <1>2, <2>3, SelectRecordSpec DEF Calibrated
  <2> QED
    BY <2>2, <2>4, StoredFrame
<1>3. CASE board.records # <<"Bad">> /\ SelectRecord # 0
  <2>1. v \in Onward(ReadSiliconUid(w), Applied)
    BY <1>3 DEF ApplyCalibration
  <2>2. PICK s \in ReadSiliconUid(w) : (s.ok /\ v \in Applied(s)) \/ (~s.ok /\ v = s)
    BY <2>1 DEF Onward
  <2>3. Frame(w, s, {}, {}) /\ (s.ok => w.ok) /\ IsWorld(s)
    BY ReadSiliconUidSpec, FrameWorld
  <2>4. CASE s.ok /\ v \in Applied(s)
    <3> DEFINE S == {s}
               A == S && Nothing
               r == Loaded(s.chip, Calibration, value)
               B == A && r
    <3>1. Framed(s, S, {}, {})
      BY <2>3, FramedOne
    <3> HIDE DEF S, value
    <3>2. Framed(s, A, {}, {})
      BY <3>1, FramingNothing
    <3> HIDE DEF A
    <3>3. value # "Other" /\ (s.chip.core = "Off") /\ s.chip.mem = w.chip.mem
      BY <1>3, <2>3, SelectRecordSpec DEF Frame, Fields, value
    <3>0. \A u \in B : \E t \in A :
            (t.ok /\ u \in Write(t, Loaded(s.chip, Calibration, value))) \/ (~t.ok /\ u = t)
      BY DEF &&, InOrder
    <3> HIDE DEF B, r, Applied
    <3>4. ASSUME NEW u \in B
          PROVE  /\ Stored(s, u) /\ Others(s, u, {}) /\ IsWorld(u)
                 /\ Carries(u, value)
      <4>1. PICK t \in A :
              (t.ok /\ u \in Write(t, Loaded(s.chip, Calibration, value))) \/ (~t.ok /\ u = t)
        BY <3>0
      <4>2. Frame(s, t, {}, {}) /\ IsWorld(t)
        BY <3>2, FrameWorld DEF Framed
      <4>3. /\ t.chip.core = "Off" /\ t.chip.mem = s.chip.mem
            /\ t.chip.abused = s.chip.abused
        BY <3>3, <4>2 DEF Frame, Fields
      <4>4. Stored(s, t) /\ Others(s, t, {})
        BY <4>2, StoredFrame
      <4>5. CASE t.ok /\ u \in Write(t, Loaded(s.chip, Calibration, value))
        <5>1. s.chip.core = "Off" /\ u \in Write(t, Loaded(s.chip, Calibration, value))
          BY <3>3, <4>5
        <5>2. /\ Stored(t, u) /\ Others(t, u, {Calibration})
              /\ Carries(u, value)
          BY <3>3, <4>2, <4>3, <5>1, LoadCalibration
        <5>3. Stored(s, u) /\ IsWorld(u)
          BY <4>4, <5>2, StoredTrans, FrameWorld DEF Stored
        <5>4. Others(s, u, {})
          BY <4>3, <5>2 DEF Others, Blocks, Calibration
        <5> QED
          BY <5>2, <5>3, <5>4
      <4> QED
        BY <4>1, <4>2, <4>4, <4>5 DEF Carries
    <3>5. v \in B && Nothing
      BY <2>4 DEF Applied, B, r, A, S, value
    <3>6. Shaped(Nothing) /\ \A u \in B : IsWorld(u)
      BY <3>4 DEF Shaped, Nothing
    <3>7. PICK u \in B : Wrote(u, v, Nothing) \/ (~u.ok /\ v = u)
      BY <3>5, <3>6, Ordered
    <3>8. Frame(u, v, {}, {}) /\ (v.ok => u.ok)
      BY <3>6, <3>7, FrameSelf DEF Wrote, Frame, Nothing
    <3>9. v.chip.mem = u.chip.mem
      BY <3>8 DEF Frame, Fields
    <3>10. Stored(s, v)
      BY <3>4, <3>8, StoredFrame, StoredTrans
    <3>11. Stored(w, v)
      BY <2>3, <3>10, StoredFrame, StoredTrans
    <3>12. Others(w, v, {})
      BY <3>3, <3>4, <3>9 DEF Others
    <3>13. v.ok => Calibrated(v.chip.mem)
      <4>1. v.ok => v.chip.mem[Calibration] = value
        BY <3>4, <3>8, <3>9 DEF Carries
      <4> QED
        BY <1>3, <4>1, SelectRecordSpec DEF Calibrated, value
    <3> QED
      BY <2>3, <2>4, <3>11, <3>12, <3>13
  <2>5. CASE ~s.ok /\ v = s
    BY <2>3, <2>5, StoredFrame
  <2> QED
    BY <2>2, <2>4, <2>5
<1> QED
  BY <1>1, <1>2, <1>3

\* What precedes the start of the core changes nothing the model shows.
LEMMA PrepareDSPSpec ==
    ASSUME NEW w, IsWorld(w), NEW v \in PrepareDSP(w)
    PROVE  Frame(w, v, {}, {})
<1> DEFINE W == {w}
           X == W && Nothing
           Y == X && Nothing
<1>1. Framed(w, W, {}, {})
  BY FramedOne
<1> HIDE DEF W
<1>2. Framed(w, X, {}, {})
  BY <1>1, FramingNothing
<1> HIDE DEF X
<1>3. Framed(w, Y, {}, {})
  BY <1>2, FramingNothing
<1> HIDE DEF Y
<1>4. Framed(w, Y && Nothing, {}, {})
  BY <1>3, FramingNothing
<1> QED
  BY <1>4 DEF PrepareDSP, Framed, Y, X, W

\* The start changes the core only.
LEMMA StartCoreSpec ==
    ASSUME NEW w, IsWorld(w), NEW v \in StartCore(w)
    PROVE  Frame(w, v, {"core"}, {})
<1> DEFINE W == {w}
           X == W && [core |-> "On"]
<1>1. Framed(w, W, {"core"}, {})
  BY FramedOne
<1> HIDE DEF W
<1>2. Framed(w, X, {"core"}, {})
  BY <1>1, Ones, Framing
<1> HIDE DEF X
<1>3. Framed(w, X && Nothing, {"core"}, {})
  BY <1>2, FramingNothing
<1> QED
  BY <1>3 DEF StartCore, Framed, X, W

\* The wait for the run state changes nothing.
LEMMA AwaitRunSpec ==
    ASSUME NEW w, IsWorld(w), NEW v \in AwaitRun(w)
    PROVE  Frame(w, v, {}, {})
<1> DEFINE X == Onward(Read(w), LAMBDA u : {u} \cup Fails(u))
<1>1. ASSUME NEW u \in X PROVE Frame(w, u, {}, {}) /\ IsWorld(u)
  <2>1. PICK s \in Read(w) : u = s \/ u \in Fails(s)
    BY <1>1 DEF Onward
  <2>2. Frame(w, s, {}, {}) /\ IsWorld(s)
    BY ReadSpec, FrameWorld
  <2>3. Frame(s, u, {}, {})
    BY <2>1, <2>2, FailsSpec, FrameSelf
  <2> QED
    BY <2>2, <2>3 DEF Frame
<1> HIDE DEF X
<1>2. PICK u \in X : v = u \/ v \in Pause(u)
  BY DEF AwaitRun, Onward, X
<1>3. Frame(u, v, {}, {})
  BY <1>1, <1>2, PauseSpec, FrameSelf
<1> QED
  BY <1>1, <1>3 DEF Frame

\* A boot that fails leaves no DSP that is alive.
LEMMA BringUpDSPSpec ==
    ASSUME NEW w, IsWorld(w), NEW v \in BringUpDSP(w)
    PROVE  /\ Frame(w, v, {"core"}, {"alive", "faulted"}) /\ (w.amp.faulted => v.amp.faulted)
           /\ v.amp.alive => w.amp.alive
           /\ v.ok => Frame(w, v, {"core"}, {})
<1> DEFINE X == Onward(PrepareDSP(w), StartCore)
           tried == Onward(X, AwaitRun)
<1>1. ASSUME NEW u \in X PROVE Frame(w, u, {"core"}, {}) /\ IsWorld(u)
  <2>1. PICK s \in PrepareDSP(w) : u = s \/ u \in StartCore(s)
    BY <1>1 DEF Onward
  <2>2. Frame(w, s, {}, {}) /\ IsWorld(s)
    BY PrepareDSPSpec, FrameWorld
  <2>3. Frame(s, u, {"core"}, {})
    BY <2>1, <2>2, StartCoreSpec, FrameSelf
  <2> QED
    BY <2>2, <2>3 DEF Frame
<1> HIDE DEF X
<1>2. ASSUME NEW u \in tried PROVE Frame(w, u, {"core"}, {}) /\ IsWorld(u)
  <2>1. PICK s \in X : u = s \/ u \in AwaitRun(s)
    BY <1>2 DEF Onward
  <2>2. Frame(s, u, {}, {})
    BY <1>1, <2>1, AwaitRunSpec, FrameSelf
  <2> QED
    BY <1>1, <2>2 DEF Frame
<1> HIDE DEF tried
<1>3. PICK u \in tried : v \in IF u.ok THEN {u}
        ELSE {[t EXCEPT !.ok = FALSE, !.amp.faulted = t.amp.faulted \/ ~t.ok] :
                 t \in StopDSP([u EXCEPT !.ok = TRUE])}
  BY DEF BringUpDSP, tried, X
<1>4. CASE u.ok
  <2>1. v = u
    BY <1>3, <1>4
  <2> QED
    BY <1>2, <2>1 DEF Frame, Flags
<1>5. CASE ~u.ok
  <2> DEFINE b == [u EXCEPT !.ok = TRUE]
  <2>1. IsWorld(b) /\ b.chip = u.chip /\ b.amp = u.amp
    BY <1>2 DEF IsWorld
  <2>2. PICK t \in StopDSP(b) :
          v = [t EXCEPT !.ok = FALSE, !.amp.faulted = t.amp.faulted \/ ~t.ok]
    BY <1>3, <1>5
  <2> HIDE DEF b
  <2>3. Frame(b, t, {"core"}, {"alive"}) /\ t.amp.alive = FALSE /\ IsWorld(t)
    BY <2>1, StopDSPSpec, FrameWorld
  <2>4. /\ IsWorld(v) /\ v.chip = t.chip /\ v.ok = FALSE
        /\ v.amp.faulted = (t.amp.faulted \/ ~t.ok)
        /\ \A g \in Flags \ {"faulted"} : v.amp[g] = t.amp[g]
    BY <2>2, <2>3 DEF IsWorld, Flags
  <2>5. Frame(w, v, {"core"}, {"alive", "faulted"})
    BY <1>2, <2>1, <2>3, <2>4 DEF Frame
  <2>6. v.amp.alive = FALSE
    BY <2>3, <2>4 DEF Flags
  <2>7. w.amp.faulted => v.amp.faulted
    BY <1>2, <2>1, <2>3, <2>4 DEF Frame, Flags
  <2> QED
    BY <2>4, <2>5, <2>6, <2>7
<1> QED
  BY <1>4, <1>5

\* A DSP that is found alive runs.
LEMMA VerifyDSPAliveSpec ==
    ASSUME NEW w, IsWorld(w), NEW v \in VerifyDSPAlive(w)
    PROVE  Frame(w, v, {}, {}) /\ (v.ok => w.ok /\ v.chip.core = "On")
<1>1. PICK u \in Read(w) : v = [u EXCEPT !.ok = u.ok /\ u.chip.core = "On"]
  BY DEF VerifyDSPAlive
<1>2. Frame(w, u, {}, {}) /\ IsWorld(u) /\ (u.ok => w.ok)
  BY ReadSpec, FrameWorld
<1>3. /\ IsWorld(v) /\ v.chip = u.chip /\ v.amp = u.amp
      /\ v.ok = (u.ok /\ u.chip.core = "On")
  BY <1>1, <1>2 DEF IsWorld
<1> QED
  BY <1>2, <1>3 DEF Frame

\* The image has not changed but for its calibration, and a DSP is alive only
\* if it runs a calibrated one.
Booted(w, v) ==
    /\ Frame(w, v, {"mem", "abused", "core"}, {"validated", "alive", "faulted"})
    /\ v.chip.abused => w.chip.abused
    /\ Others(w, v, {})
    /\ v.chip.mem[Calibration] # "Other"
    /\ w.amp.faulted => v.amp.faulted

\* What loadFirmware ends with: a DSP that is alive runs a calibrated image.
LEMMA StartFirmwareSpec ==
    ASSUME NEW w, IsWorld(w), w.chip.core = "Off", ~w.amp.alive, board.records \in Records,
           w.chip.mem[Calibration] # "Other", NEW v \in StartFirmware(w)
    PROVE  /\ Booted(w, v) /\ (v.amp.alive => v.ok)
           /\ v.ok => v.amp.alive /\ v.chip.core = "On" /\ Calibrated(v.chip.mem)
<1> DEFINE calibrated == UNION {IF u.ok THEN {[u EXCEPT !.amp.validated = TRUE]}
                                ELSE Regardless({u}, StopDSP) : u \in ApplyCalibration(w)}
           X == Onward(calibrated, BringUpDSP)
           booted == Onward(X, VerifyDSPAlive)
           P(u) == /\ Booted(w, u) /\ IsWorld(u) /\ ~u.amp.alive
                   /\ u.ok => Calibrated(u.chip.mem)
<1>1. ASSUME NEW u \in calibrated PROVE P(u)
  <2>1. PICK s \in ApplyCalibration(w) :
          \/ s.ok /\ u = [s EXCEPT !.amp.validated = TRUE]
          \/ ~s.ok /\ u \in Regardless({s}, StopDSP)
    BY <1>1
  <2>2. Stored(w, s) /\ Others(w, s, {}) /\ (s.ok => Calibrated(s.chip.mem)) /\ IsWorld(s)
    BY ApplyCalibrationSpec, FrameWorld DEF Stored
  <2>3. CASE s.ok /\ u = [s EXCEPT !.amp.validated = TRUE]
    <3>1. /\ IsWorld(u) /\ u.chip = s.chip /\ u.ok = s.ok
          /\ \A g \in Flags \ {"validated"} : u.amp[g] = s.amp[g]
      BY <2>2, <2>3 DEF IsWorld, Flags
    <3>2. Booted(w, u)
      BY <2>2, <3>1 DEF Stored, Booted, Frame, Flags, Others
    <3> QED
      BY <2>2, <3>1, <3>2 DEF Stored, Frame, Flags
  <2>4. CASE ~s.ok /\ u \in Regardless({s}, StopDSP)
    <3>1. Frame(s, u, {"core"}, {"alive"}) /\ u.amp.alive = FALSE /\ u.ok = s.ok
      BY <2>2, <2>4, HaltSpec
    <3>2. u.chip.mem = s.chip.mem /\ u.chip.abused = s.chip.abused
          /\ u.amp.faulted = s.amp.faulted
      BY <3>1 DEF Frame, Fields, Flags
    <3>3. Booted(w, u)
      BY <2>2, <3>1, <3>2 DEF Stored, Booted, Frame, Flags, Others
    <3> QED
      BY <2>4, <3>1, <3>3, FrameWorld
  <2> QED
    BY <2>1, <2>3, <2>4
<1> HIDE DEF calibrated
<1>2. ASSUME NEW u \in X PROVE P(u)
  <2>1. PICK s \in calibrated : (s.ok /\ u \in BringUpDSP(s)) \/ (~s.ok /\ u = s)
    BY <1>2 DEF Onward
  <2>2. P(s)
    BY <1>1
  <2>3. CASE s.ok /\ u \in BringUpDSP(s)
    <3>1. /\ Frame(s, u, {"core"}, {"alive", "faulted"}) /\ (s.amp.faulted => u.amp.faulted)
          /\ u.amp.alive => s.amp.alive
      BY <2>2, <2>3, BringUpDSPSpec
    <3>2. u.chip.mem = s.chip.mem /\ u.chip.abused = s.chip.abused
      BY <3>1 DEF Frame, Fields
    <3>3. Booted(w, u)
      BY <2>2, <3>1, <3>2 DEF Booted, Frame, Flags, Others
    <3> QED
      BY <2>2, <2>3, <3>1, <3>2, <3>3, FrameWorld
  <2> QED
    BY <2>1, <2>2, <2>3
<1> HIDE DEF X
<1>3. ASSUME NEW u \in booted PROVE P(u) /\ (u.ok => u.chip.core = "On")
  <2>1. PICK s \in X : (s.ok /\ u \in VerifyDSPAlive(s)) \/ (~s.ok /\ u = s)
    BY <1>3 DEF Onward
  <2>2. P(s)
    BY <1>2
  <2>3. CASE s.ok /\ u \in VerifyDSPAlive(s)
    <3>1. Frame(s, u, {}, {}) /\ (u.ok => u.chip.core = "On")
      BY <2>2, <2>3, VerifyDSPAliveSpec
    <3>2. u.chip.mem = s.chip.mem /\ u.chip.abused = s.chip.abused
          /\ u.amp.faulted = s.amp.faulted /\ u.amp.alive = s.amp.alive
      BY <3>1 DEF Frame, Fields, Flags
    <3>3. Booted(w, u)
      BY <2>2, <3>1, <3>2 DEF Booted, Frame, Flags, Others
    <3> QED
      BY <2>2, <2>3, <3>1, <3>2, <3>3, FrameWorld
  <2> QED
    BY <2>1, <2>2, <2>3
<1> HIDE DEF booted
<1> DEFINE Withdrawn(u) == [u EXCEPT !.amp.validated = FALSE, !.amp.alive = FALSE]
<1>4. PICK u \in booted :
        \/ u.ok /\ v = [u EXCEPT !.amp.alive = TRUE]
        \/ ~u.ok /\ v \in Regardless({Withdrawn(u)}, StopDSP)
        \/ ~u.ok /\ v = u
  BY DEF StartFirmware, booted, X, calibrated
<1>5. P(u) /\ (u.ok => u.chip.core = "On")
  BY <1>3
<1>6. CASE u.ok /\ v = [u EXCEPT !.amp.alive = TRUE]
  <2>1. /\ IsWorld(v) /\ v.chip = u.chip /\ v.ok = u.ok /\ v.amp.alive = TRUE
        /\ \A g \in Flags \ {"alive"} : v.amp[g] = u.amp[g]
    BY <1>5, <1>6 DEF IsWorld, Flags
  <2>2. Booted(w, v)
    BY <1>5, <2>1 DEF Booted, Frame, Flags, Others
  <2> QED
    BY <1>5, <1>6, <2>1, <2>2
<1>7. CASE ~u.ok /\ v \in Regardless({Withdrawn(u)}, StopDSP)
  <2> DEFINE a == Withdrawn(u)
  <2>1. /\ IsWorld(a) /\ a.chip = u.chip /\ a.ok = u.ok
        /\ \A g \in Flags \ {"alive", "validated"} : a.amp[g] = u.amp[g]
    BY <1>5 DEF IsWorld, Flags
  <2>2. v \in Regardless({a}, StopDSP)
    BY <1>7
  <2> HIDE DEF a
  <2>3. Frame(a, v, {"core"}, {"alive"}) /\ v.amp.alive = FALSE /\ v.ok = a.ok
    BY <2>1, <2>2, HaltSpec
  <2>4. v.chip.mem = u.chip.mem /\ v.chip.abused = u.chip.abused
        /\ v.amp.faulted = u.amp.faulted
    BY <2>1, <2>3 DEF Frame, Fields, Flags
  <2>5. Booted(w, v)
    BY <1>5, <2>1, <2>3, <2>4 DEF Booted, Frame, Flags, Others
  <2> QED
    BY <1>7, <2>1, <2>3, <2>5
<1>8. CASE ~u.ok /\ v = u
  BY <1>5, <1>8
<1> QED
  BY <1>4, <1>6, <1>7, <1>8

-----------------------------------------------------------------------------
\* What the routes may change, and what is known of them where they are set.
Wired(w, v) ==
    /\ Frame(w, v, {"muted", "route", "output", "key", "power", "boost"}, {})
    /\ v.chip.boost \in {w.chip.boost, TRUE}
    /\ v.ok => /\ w.ok /\ v.chip.key \in {w.chip.key, "Locked"}
               /\ ~Internal => v.chip.boost = TRUE

\* The routes are set and the output stays off.
LEMMA RoutedSpec ==
    ASSUME NEW w, IsWorld(w), NEW route, NEW v,
           v \in LET routed == {w} ++ [route |-> route] ++ [output |-> FALSE]
                     unpowered == IF Internal THEN routed ++ [power |-> FALSE]
                                  ELSE routed ++ Unlock ++ [power |-> FALSE]
                                              ++ [boost |-> TRUE] ++ Lock
                 IN  unpowered ++ Nothing ++ [muted |-> TRUE]
    PROVE  Wired(w, v)
<1> DEFINE F == {"muted", "route", "output", "key", "power", "boost"}
           W == {w}
           X == W ++ [route |-> route]
           Y == X ++ [output |-> FALSE]
           I == Y ++ [power |-> FALSE]
           E1 == Y ++ Unlock
           E2 == E1 ++ [power |-> FALSE]
           E3 == E2 ++ [boost |-> TRUE]
           E4 == E3 ++ Lock
           B == {w.chip.boost, TRUE}
           K == IF Internal THEN w.chip.key ELSE "Locked"
           U == IF Internal THEN I ELSE E4
           V == U ++ Nothing
           Z == V ++ [muted |-> TRUE]
<1>1. /\ Framed(w, W, F, {}) /\ Sure(W, "key", w.chip.key)
      /\ Within(W, "boost", B)
  BY FramedOne DEF Sure, Within
<1> HIDE DEF W
<1>2. /\ Framed(w, X, F, {}) /\ Sure(X, "key", w.chip.key)
      /\ Within(X, "boost", B)
  BY <1>1, Ones, Framing, StillSure, StillWithin DEF Fields
<1> HIDE DEF X
<1>3. /\ Framed(w, Y, F, {}) /\ Sure(Y, "key", w.chip.key)
      /\ Within(Y, "boost", B)
  BY <1>2, Ones, Framing, StillSure, StillWithin DEF Fields
<1> HIDE DEF Y
<1>4. /\ Framed(w, I, F, {}) /\ Sure(I, "key", w.chip.key)
      /\ Within(I, "boost", B)
  BY <1>3, Ones, Framing, StillSure, StillWithin DEF Fields
<1> HIDE DEF I
<1>5. /\ Framed(w, E1, F, {}) /\ Sure(E1, "key", "Unlocked")
      /\ Within(E1, "boost", B)
  BY <1>3, Ones, Framing, Surely, Open, StillWithin DEF Fields
<1> HIDE DEF E1
<1>6. /\ Framed(w, E2, F, {}) /\ Sure(E2, "key", "Unlocked")
      /\ Within(E2, "boost", B)
  BY <1>5, Ones, Framing, StillSure, StillWithin DEF Fields
<1> HIDE DEF E2
<1>7. /\ Framed(w, E3, F, {}) /\ Sure(E3, "boost", TRUE)
      /\ Within(E3, "boost", B)
  BY <1>6, Ones, Framing, Surely, StillWithin DEF Fields
<1> HIDE DEF E3
<1>8. /\ Framed(w, E4, F, {}) /\ Sure(E4, "boost", TRUE) /\ Sure(E4, "key", "Locked")
      /\ Within(E4, "boost", B)
  BY <1>7, Ones, Framing, StillSure, Surely, Open, StillWithin DEF Fields
<1> HIDE DEF E4
<1>9. /\ Framed(w, U, F, {}) /\ Sure(U, "key", K) /\ (~Internal => Sure(U, "boost", TRUE))
      /\ Within(U, "boost", B)
  BY <1>4, <1>8
<1>10. v \in Z
  BY DEF Z, V, U, I, E1, E2, E3, E4, X, Y, W
<1> HIDE DEF U, K
<1>11. /\ Framed(w, V, F, {}) /\ Sure(V, "key", K)
       /\ ~Internal => Sure(V, "boost", TRUE)
       /\ Within(V, "boost", B)
  BY <1>9, FramingNothing, StillSureNothing, StillWithinNothing DEF Fields
<1> HIDE DEF V
<1>12. Framed(w, Z, F, {}) /\ Sure(Z, "key", K) /\ Within(Z, "boost", B)
  BY <1>11, Ones, Framing, StillSure, StillWithin DEF Fields
<1>13. ~Internal => Sure(Z, "boost", TRUE)
  BY <1>11, Ones, StillSure DEF Fields
<1> QED
  BY <1>10, <1>12, <1>13 DEF Framed, Sure, Within, K, Wired

\* The amplifier is up with its routes set, or it is at fault and was stopped.
LEMMA PowerUpSpec ==
    ASSUME NEW w, IsWorld(w), NEW v \in PowerUp(w)
    PROVE  /\ Frame(w, v, {"muted", "route", "output", "key", "power", "boost", "supply", "core"},
                    {"alive", "validated", "active", "faulted"})
           /\ Paused(w, v) /\ (v.ok \/ v.amp.faulted)
           /\ w.amp.faulted => v.amp.faulted
           /\ v.ok => /\ Frame(w, v, {"muted", "route", "output", "key", "power", "boost"}, {})
                      /\ v.chip.key \in {w.chip.key, "Locked"}
                      /\ ~Internal => v.chip.boost = TRUE
                      /\ v.chip.boost \in {w.chip.boost, TRUE}
<1> DEFINE F == {"muted", "route", "output", "key", "power", "boost"}
           W == {w}
           X == W ++ [muted |-> TRUE]
           muted == X && Nothing
           route == IF w.amp.alive THEN "Dsp" ELSE "Bypass"
           Routed(u) == {u} ++ [route |-> route] ++ [output |-> FALSE]
           Unpowered(u) == IF Internal THEN Routed(u) ++ [power |-> FALSE]
                           ELSE Routed(u) ++ Unlock ++ [power |-> FALSE]
                                          ++ [boost |-> TRUE] ++ Lock
           Last(u) == Unpowered(u) ++ Nothing ++ [muted |-> TRUE]
           routed == Onward(muted, LAMBDA u : Last(u))
<1>1. Framed(w, W, F, {}) /\ Sure(W, "key", w.chip.key) /\ Sure(W, "boost", w.chip.boost)
  BY FramedOne DEF Sure
<1> HIDE DEF W
<1>2. Framed(w, X, F, {}) /\ Sure(X, "key", w.chip.key) /\ Sure(X, "boost", w.chip.boost)
  BY <1>1, Ones, Framing, StillSure DEF Fields
<1> HIDE DEF X
<1>3. /\ Framed(w, muted, F, {}) /\ Sure(muted, "key", w.chip.key)
      /\ Sure(muted, "boost", w.chip.boost)
  BY <1>2, FramingNothing, StillSureNothing DEF Fields
<1> HIDE DEF muted
<1>4. ASSUME NEW u \in routed
      PROVE  /\ Frame(w, u, F, {}) /\ IsWorld(u)
             /\ u.ok => u.chip.key \in {w.chip.key, "Locked"} /\ (~Internal => u.chip.boost = TRUE)
                        /\ u.chip.boost \in {w.chip.boost, TRUE}
  <2>1. PICK s \in muted : (s.ok /\ u \in Last(s)) \/ (~s.ok /\ u = s)
    BY <1>4 DEF Onward
  <2>2. /\ Frame(w, s, F, {}) /\ IsWorld(s)
        /\ s.ok => s.chip.key = w.chip.key /\ s.chip.boost = w.chip.boost
    BY <1>3, FrameWorld DEF Framed, Sure
  <2>3. CASE s.ok /\ u \in Last(s)
    <3> HIDE DEF route
    <3>1. u \in LET r == {s} ++ [route |-> route] ++ [output |-> FALSE]
                    p == IF Internal THEN r ++ [power |-> FALSE]
                         ELSE r ++ Unlock ++ [power |-> FALSE] ++ [boost |-> TRUE] ++ Lock
                IN  p ++ Nothing ++ [muted |-> TRUE]
      BY <2>3
    <3> HIDE DEF Last
    <3>2. Wired(s, u)
      BY <2>2, <3>1, RoutedSpec
    <3>3. Frame(w, u, F, {}) /\ IsWorld(u)
      BY <2>2, <3>2, FrameTrans, FrameWorld DEF Wired
    <3> QED
      BY <2>2, <2>3, <3>2, <3>3 DEF Wired
  <2> QED
    BY <2>1, <2>2, <2>3
<1> HIDE DEF routed
<1>5. PICK u \in routed :
        \/ u.ok /\ v = u
        \/ ~u.ok /\ v \in Regardless({[u EXCEPT !.amp.faulted = TRUE]}, StopPlayback)
  BY DEF PowerUp, routed, muted, X, W
<1>6. CASE u.ok /\ v = u
  <2>1. Paused(w, v) /\ (w.amp.faulted => v.amp.faulted)
    BY <1>4, <1>6 DEF Paused, Frame, Fields, Flags
  <2>2. Frame(w, v, {"muted", "route", "output", "key", "power", "boost", "supply", "core"},
              {"alive", "validated", "active", "faulted"})
    BY <1>4, <1>6 DEF Frame
  <2> QED
    BY <1>4, <1>6, <2>1, <2>2
<1>7. CASE ~u.ok /\ v \in Regardless({[u EXCEPT !.amp.faulted = TRUE]}, StopPlayback)
  <2> DEFINE a == [u EXCEPT !.amp.faulted = TRUE]
             b == [a EXCEPT !.ok = TRUE]
  <2>1. /\ IsWorld(a) /\ a.chip = u.chip /\ ~a.ok /\ a.amp.faulted = TRUE
        /\ \A g \in Flags \ {"faulted"} : a.amp[g] = u.amp[g]
    BY <1>4, <1>7 DEF IsWorld, Flags
  <2>2. v \in Regardless({a}, StopPlayback)
    BY <1>7
  <2> HIDE DEF a
  <2>3. IsWorld(b) /\ b.chip = a.chip /\ b.amp = a.amp
    BY <2>1 DEF IsWorld
  <2>4. PICK p \in {a} : v \in {[t EXCEPT !.ok = p.ok] : t \in StopPlayback([p EXCEPT !.ok = TRUE])}
    BY <2>2 DEF Regardless
  <2>5. PICK t \in StopPlayback(b) : v = [t EXCEPT !.ok = a.ok]
    BY <2>4
  <2> HIDE DEF b
  <2>6. /\ Frame(b, t, {"muted", "power", "output", "key", "supply", "core"},
                 {"alive", "validated", "active", "faulted"})
        /\ Paused(b, t) /\ (b.amp.faulted => t.amp.faulted) /\ IsWorld(t)
    BY <2>3, StopPlaybackSpec, FrameWorld
  <2>7. IsWorld(v) /\ v.chip = t.chip /\ v.amp = t.amp /\ v.ok = a.ok
    BY <2>5, <2>6 DEF IsWorld
  <2>0. Frame(w, u, F, {})
    BY <1>4
  <2>8. Frame(w, v, {"muted", "route", "output", "key", "power", "boost", "supply", "core"},
              {"alive", "validated", "active", "faulted"})
    <3>1. Frame(w, b, F, {"faulted"})
      BY <2>0, <2>1, <2>3 DEF Frame
    <3>2. Frame(b, v, {"muted", "power", "output", "key", "supply", "core"},
                {"alive", "validated", "active", "faulted"})
      BY <2>6, <2>7 DEF Frame
    <3> QED
      BY <3>1, <3>2 DEF Frame
  <2>9. Paused(w, v)
    <3>1. Paused(b, v)
      BY <2>1, <2>6, <2>7 DEF Paused
    <3>2. /\ b.chip.core = w.chip.core /\ b.amp.alive = w.amp.alive
          /\ b.amp.validated = w.amp.validated
      BY <2>0, <2>1, <2>3 DEF Frame, Fields, Flags
    <3> QED
      BY <3>1, <3>2 DEF Paused
  <2>10. v.amp.faulted /\ ~v.ok
    BY <2>1, <2>3, <2>6, <2>7
  <2> QED
    BY <2>8, <2>9, <2>10
<1> QED
  BY <1>5, <1>6, <1>7

\* An amplifier that is found idle is.
LEMMA VerifyIdleSpec ==
    ASSUME NEW w, IsWorld(w), NEW v \in VerifyIdle(w)
    PROVE  /\ Frame(w, v, {}, {})
           /\ v.ok => /\ w.ok /\ ~v.chip.power /\ ~v.chip.output /\ v.chip.muted
                      /\ v.amp.alive => v.chip.route = "Dsp"
<1> DEFINE idle(u) == /\ ~u.chip.power /\ ~u.chip.output /\ u.chip.muted /\ u.chip.port
                      /\ u.chip.route = IF u.amp.alive THEN "Dsp" ELSE "Bypass"
<1>1. PICK u \in Read(w) : v = [u EXCEPT !.ok = u.ok /\ idle(u)]
  BY DEF VerifyIdle
<1>2. Frame(w, u, {}, {}) /\ IsWorld(u) /\ (u.ok => w.ok)
  BY ReadSpec, FrameWorld
<1>3. IsWorld(v) /\ v.chip = u.chip /\ v.amp = u.amp /\ v.ok = (u.ok /\ idle(u))
  BY <1>1, <1>2 DEF IsWorld
<1>4. Frame(w, v, {}, {})
  BY <1>2, <1>3 DEF Frame
<1> QED
  BY <1>2, <1>3, <1>4

\* An amplifier that is ready is idle, its routes are those of its DSP, and
\* the DSP runs; any failure has left a fault or is the caller's to report.
LEMMA VerifyReadySpec ==
    ASSUME NEW w, IsWorld(w), NEW v \in VerifyReady(w)
    PROVE  /\ Frame(w, v, {"muted", "route", "output", "key", "power", "boost", "supply", "core"},
                    {"initialized", "alive", "validated", "active", "faulted"})
           /\ Paused(w, v) /\ (w.amp.faulted => v.amp.faulted)
           /\ v.ok => /\ Frame(w, v, {"muted", "route", "output", "key", "power", "boost"},
                               {"initialized"})
                      /\ v.chip.key \in {w.chip.key, "Locked"}
                      /\ ~Internal => v.chip.boost = TRUE
                      /\ v.chip.boost \in {w.chip.boost, TRUE}
                      /\ ~v.chip.power /\ ~v.chip.output /\ v.chip.muted
                      /\ v.amp.alive => v.chip.route = "Dsp"
<1> DEFINE F == {"muted", "route", "output", "key", "power", "boost", "supply", "core"}
           G == {"alive", "validated", "active", "faulted"}
           F1 == {"muted", "route", "output", "key", "power", "boost"}
           X == Onward(PowerUp(w), VerifyIdle)
           ready == Onward(X, VerifyDSPAlive)
           P(u) == /\ Frame(w, u, F, G) /\ IsWorld(u) /\ Paused(w, u)
                   /\ w.amp.faulted => u.amp.faulted
                   /\ u.ok => /\ Frame(w, u, F1, {}) /\ u.chip.key \in {w.chip.key, "Locked"}
                              /\ ~Internal => u.chip.boost = TRUE
                              /\ u.chip.boost \in {w.chip.boost, TRUE}
           Q(u) == /\ ~u.chip.power /\ ~u.chip.output /\ u.chip.muted
                   /\ u.amp.alive => u.chip.route = "Dsp"
<1>1. ASSUME NEW u, P(u), NEW t, Frame(u, t, {}, {}), t.ok => u.ok PROVE P(t)
  <2>1. /\ t.chip.core = u.chip.core /\ t.chip.key = u.chip.key /\ t.chip.boost = u.chip.boost
        /\ t.amp.alive = u.amp.alive /\ t.amp.validated = u.amp.validated
        /\ t.amp.faulted = u.amp.faulted /\ IsWorld(t)
    BY <1>1 DEF Frame, Fields, Flags
  <2>2. Frame(w, t, F, G)
    BY <1>1 DEF Frame
  <2>3. t.ok => Frame(w, t, F1, {})
    BY <1>1 DEF Frame
  <2>4. Paused(w, t)
    BY <1>1, <2>1 DEF Paused
  <2> QED
    BY <1>1, <2>1, <2>2, <2>3, <2>4
<1>2. ASSUME NEW u \in PowerUp(w) PROVE P(u)
  BY PowerUpSpec, FrameWorld
<1> HIDE DEF P
<1>3. ASSUME NEW u, P(u) PROVE IsWorld(u)
  BY <1>3 DEF P
<1>4. ASSUME NEW u \in X PROVE P(u) /\ (u.ok => Q(u))
  <2>1. PICK s \in PowerUp(w) : (s.ok /\ u \in VerifyIdle(s)) \/ (~s.ok /\ u = s)
    BY <1>4 DEF Onward
  <2>2. P(s) /\ IsWorld(s)
    BY <1>2, <1>3
  <2>3. CASE s.ok /\ u \in VerifyIdle(s)
    <3>1. Frame(s, u, {}, {}) /\ (u.ok => s.ok) /\ (u.ok => Q(u))
      BY <2>2, <2>3, VerifyIdleSpec
    <3> QED
      BY <1>1, <2>2, <3>1
  <2> QED
    BY <2>1, <2>2, <2>3
<1> HIDE DEF X
<1>5. ASSUME NEW u \in ready PROVE P(u) /\ (u.ok => Q(u))
  <2>1. PICK s \in X : (s.ok /\ u \in VerifyDSPAlive(s)) \/ (~s.ok /\ u = s)
    BY <1>5 DEF Onward
  <2>2. P(s) /\ (s.ok => Q(s)) /\ IsWorld(s)
    BY <1>3, <1>4
  <2>3. CASE s.ok /\ u \in VerifyDSPAlive(s)
    <3>1. Frame(s, u, {}, {}) /\ (u.ok => s.ok)
      BY <2>2, <2>3, VerifyDSPAliveSpec
    <3>2. P(u)
      BY <1>1, <2>2, <3>1
    <3>3. Q(s) => Q(u)
      BY <3>1 DEF Frame, Fields, Flags
    <3> QED
      BY <2>2, <2>3, <3>2, <3>3
  <2> QED
    BY <2>1, <2>2, <2>3
<1> HIDE DEF ready
<1>6. PICK u \in ready : v = [u EXCEPT !.amp.initialized = u.amp.initialized \/ u.ok]
  BY DEF VerifyReady, ready, X
<1>7. P(u) /\ (u.ok => Q(u)) /\ IsWorld(u)
  BY <1>3, <1>5
<1>8. /\ IsWorld(v) /\ v.chip = u.chip /\ v.ok = u.ok
      /\ \A g \in Flags \ {"initialized"} : v.amp[g] = u.amp[g]
  BY <1>6, <1>7 DEF IsWorld, Flags
<1>9. Frame(w, v, F, {"initialized", "alive", "validated", "active", "faulted"})
  BY <1>7, <1>8 DEF P, Frame
<1>10. Paused(w, v) /\ (w.amp.faulted => v.amp.faulted)
  BY <1>7, <1>8 DEF P, Paused, Flags
<1>11. v.ok => Frame(w, v, F1, {"initialized"})
  BY <1>7, <1>8 DEF P, Frame
<1>12. v.ok => Q(v)
  BY <1>7, <1>8 DEF Flags
<1> QED
  BY <1>7, <1>8, <1>9, <1>10, <1>11, <1>12 DEF P

\* A chip that was found is quiet and its core halted, if that is what a
\* shutdown reports; and its readiness is withdrawn in any case.
LEMMA ShutdownSpec ==
    ASSUME NEW w, IsWorld(w), NEW v \in Shutdown(w)
    PROVE  /\ Frame(w, v, {"muted", "power", "output", "key", "supply", "core"},
                    {"initialized", "alive", "validated", "active", "faulted"})
           /\ ~v.amp.initialized /\ ~v.amp.alive /\ ~v.amp.validated
           /\ v.ok /\ v.amp.present => v.chip.core = "Off" /\ Quiet(v.chip)
<1> DEFINE F == {"muted", "power", "output", "key", "supply", "core"}
           G == {"alive", "validated", "active", "faulted"}
           a == [w EXCEPT !.amp.initialized = FALSE, !.amp.validated = FALSE]
           b == [a EXCEPT !.ok = TRUE]
           silent == Anyway({a}, StopPlayback)
           stopped == Anyway(silent, StopDSP)
           ended == Anyway(stopped, SafeReset)
           Q(c) == ~c.power /\ ~c.output /\ (Switched => c.supply = "Off")
<1>1. /\ IsWorld(a) /\ a.chip = w.chip /\ ~a.amp.initialized /\ ~a.amp.validated
      /\ \A g \in Flags \ {"initialized", "validated"} : a.amp[g] = w.amp[g]
  BY DEF IsWorld, Flags
<1>2. \/ w.amp.present /\ \E u \in ended : v = [u EXCEPT !.amp.alive = FALSE]
      \/ ~w.amp.present /\ v = [a EXCEPT !.amp.alive = FALSE]
  BY DEF Shutdown
<1> HIDE DEF a
<1>3. ASSUME NEW u \in silent
      PROVE  Frame(a, u, F, G) /\ IsWorld(u) /\ ~u.amp.validated /\ (u.ok => Q(u.chip))
  <2>1. PICK p \in {a} : u \in {[t EXCEPT !.ok = t.ok /\ p.ok] : t \in StopPlayback([p EXCEPT !.ok = TRUE])}
    BY <1>3 DEF Anyway
  <2>2. PICK t \in StopPlayback(b) : u = [t EXCEPT !.ok = t.ok /\ a.ok]
    BY <2>1
  <2>3. IsWorld(b) /\ b.chip = a.chip /\ b.amp = a.amp
    BY <1>1 DEF IsWorld
  <2> HIDE DEF b
  <2>4. /\ Frame(b, t, F, G) /\ Paused(b, t) /\ IsWorld(t) /\ (t.ok => Q(t.chip))
    BY <2>3, StopPlaybackSpec, FrameWorld
  <2>5. IsWorld(u) /\ u.chip = t.chip /\ u.amp = t.amp /\ (u.ok => t.ok)
    BY <2>2, <2>4 DEF IsWorld
  <2>6. ~t.amp.validated
    BY <1>1, <2>3, <2>4 DEF Paused
  <2> QED
    BY <2>3, <2>4, <2>5, <2>6 DEF Frame
<1> HIDE DEF silent
<1>4. ASSUME NEW u \in stopped
      PROVE  /\ Frame(a, u, F, G) /\ IsWorld(u) /\ ~u.amp.validated
             /\ u.ok => Q(u.chip) /\ u.chip.core = "Off"
  <2>1. PICK p \in silent : u \in {[t EXCEPT !.ok = t.ok /\ p.ok] : t \in StopDSP([p EXCEPT !.ok = TRUE])}
    BY <1>4 DEF Anyway
  <2>2. Frame(a, p, F, G) /\ IsWorld(p) /\ ~p.amp.validated /\ (p.ok => Q(p.chip))
    BY <1>3
  <2> DEFINE q == [p EXCEPT !.ok = TRUE]
  <2>3. PICK t \in StopDSP(q) : u = [t EXCEPT !.ok = t.ok /\ p.ok]
    BY <2>1
  <2>4. IsWorld(q) /\ q.chip = p.chip /\ q.amp = p.amp
    BY <2>2 DEF IsWorld
  <2> HIDE DEF q
  <2>5. Frame(q, t, {"core"}, {"alive"}) /\ IsWorld(t) /\ (t.ok => t.chip.core = "Off")
    BY <2>4, StopDSPSpec, FrameWorld
  <2>6. IsWorld(u) /\ u.chip = t.chip /\ u.amp = t.amp /\ (u.ok => t.ok /\ p.ok)
    BY <2>3, <2>5 DEF IsWorld
  <2>7. Frame(a, u, F, G)
    BY <2>2, <2>4, <2>5, <2>6 DEF Frame
  <2>8. Q(p.chip) => Q(u.chip)
    BY <2>4, <2>5, <2>6 DEF Frame, Fields
  <2>9. ~u.amp.validated
    BY <2>2, <2>4, <2>5, <2>6 DEF Frame, Flags
  <2> QED
    BY <2>2, <2>5, <2>6, <2>7, <2>8, <2>9
<1> HIDE DEF stopped
<1>5. ASSUME NEW u \in ended
      PROVE  /\ Frame(a, u, F, G) /\ IsWorld(u) /\ ~u.amp.validated
             /\ u.ok => Q(u.chip) /\ u.chip.core = "Off"
  <2>1. PICK p \in stopped : u \in {[t EXCEPT !.ok = t.ok /\ p.ok] : t \in SafeReset([p EXCEPT !.ok = TRUE])}
    BY <1>5 DEF Anyway
  <2>2. /\ Frame(a, p, F, G) /\ IsWorld(p) /\ ~p.amp.validated
        /\ p.ok => Q(p.chip) /\ p.chip.core = "Off"
    BY <1>4
  <2> DEFINE q == [p EXCEPT !.ok = TRUE]
  <2>3. PICK t \in SafeReset(q) : u = [t EXCEPT !.ok = t.ok /\ p.ok]
    BY <2>1
  <2>4. IsWorld(q) /\ q.chip = p.chip /\ q.amp = p.amp
    BY <2>2 DEF IsWorld
  <2> HIDE DEF q
  <2>5. /\ Frame(q, t, {"supply", "key"}, {}) /\ IsWorld(t)
        /\ t.ok /\ Switched => t.chip.supply = "Off"
    BY <2>4, SafeResetSpec, FrameWorld
  <2>6. IsWorld(u) /\ u.chip = t.chip /\ u.amp = t.amp /\ (u.ok => t.ok /\ p.ok)
    BY <2>3, <2>5 DEF IsWorld
  <2>7. Frame(a, u, F, G)
    BY <2>2, <2>4, <2>5, <2>6 DEF Frame
  <2>8. u.chip.core = p.chip.core /\ u.chip.power = p.chip.power /\ u.chip.output = p.chip.output
        /\ u.amp.validated = p.amp.validated
    BY <2>4, <2>5, <2>6 DEF Frame, Fields, Flags
  <2> QED
    BY <2>2, <2>5, <2>6, <2>7, <2>8
<1> HIDE DEF ended
<1>6. ASSUME w.amp.present, NEW u \in ended, v = [u EXCEPT !.amp.alive = FALSE]
      PROVE  /\ Frame(a, v, F, G) /\ ~v.amp.validated /\ ~v.amp.alive
             /\ v.ok => Q(v.chip) /\ v.chip.core = "Off"
  <2>1. /\ Frame(a, u, F, G) /\ IsWorld(u) /\ ~u.amp.validated
        /\ u.ok => Q(u.chip) /\ u.chip.core = "Off"
    BY <1>5
  <2>2. /\ IsWorld(v) /\ v.chip = u.chip /\ v.ok = u.ok /\ v.amp.alive = FALSE
        /\ \A g \in Flags \ {"alive"} : v.amp[g] = u.amp[g]
    BY <1>6, <2>1 DEF IsWorld, Flags
  <2>3. Frame(a, v, F, G)
    BY <2>1, <2>2 DEF Frame
  <2> QED
    BY <2>1, <2>2, <2>3 DEF Flags
<1>7. ASSUME ~w.amp.present, v = [a EXCEPT !.amp.alive = FALSE]
      PROVE  /\ Frame(a, v, F, G) /\ ~v.amp.validated /\ ~v.amp.alive /\ ~v.amp.present
  <2>1. /\ IsWorld(v) /\ v.chip = a.chip /\ v.amp.alive = FALSE
        /\ \A g \in Flags \ {"alive"} : v.amp[g] = a.amp[g]
    BY <1>1, <1>7 DEF IsWorld, Flags
  <2> QED
    BY <1>1, <1>7, <2>1 DEF Frame, Flags
<1>8. /\ Frame(a, v, F, G) /\ ~v.amp.validated /\ ~v.amp.alive
      /\ v.ok /\ v.amp.present => Q(v.chip) /\ v.chip.core = "Off"
  BY <1>2, <1>6, <1>7
<1>9. Frame(w, v, F, {"initialized", "alive", "validated", "active", "faulted"})
  BY <1>1, <1>8 DEF Frame
<1>10. ~v.amp.initialized
  BY <1>1, <1>8 DEF Frame, Flags
<1> QED
  BY <1>8, <1>9, <1>10 DEF Quiet

-----------------------------------------------------------------------------
(* The invariant *)

Stages ==
    {"Detached", "Authorize", "Initialize", "Firmware", "Upload", "Boot", "Waiting",
     "Verify", "Ready", "Playing", "Suspended", "Failing", "Faulted"}

\* The hardware has been configured, and has not been shut down since.
Up == stage \in {"Firmware", "Upload", "Boot", "Waiting", "Verify", "Ready", "Playing"}

Shapes ==
    /\ IsChip(chip) /\ DOMAIN amp = Flags /\ stage \in Stages
    /\ DOMAIN board = {"binding", "controller", "codec", "topology", "records",
                       "permitted", "speaker", "defect"}
    /\ board.topology \in {"Fixed", "Internal", "Switched"} /\ board.records \in Records

\* The memory was never written under a running core, and the calibration of
\* another chip never gets there.
Memory == ~chip.abused /\ chip.mem[Calibration] # "Other"

\* While an image is uploaded and booted the core is stopped, and what the
\* upload has passed is what it should be.
InPlace ==
    /\ stage \in {"Upload", "Boot"} => chip.core = "Off" /\ ~amp.alive
    /\ stage = "Upload" =>
          /\ Positioned /\ DOMAIN up = {"region", "tx", "backup"}
          /\ up.region # 1 => chip.mem["PM"] = "New"
          /\ up.region = 3 \/ up.tx = 2 => chip.mem["XM1"] = "New"
          /\ up.region = 3 => chip.mem["XM2"] = "New"
    /\ stage = "Boot" => \A b \in Blocks : chip.mem[b] = "New"
    /\ stage = "Verify" => amp.alive
    /\ stage = "Suspended" => ~amp.alive /\ ~amp.initialized

\* An amplifier that is trusted runs its image ...
Runs == amp.alive /\ amp.validated =>
    chip.core = "On" /\ (\A b \in Blocks : chip.mem[b] = "New") /\ Calibrated(chip.mem)

\* ... and has been configured.
Set == amp.initialized /\ ~amp.faulted =>
    /\ Configured(chip) /\ chip.boost = TRUE /\ chip.route = "Dsp" /\ chip.key = "Locked"

Steady == Up /\ ~amp.faulted =>
    /\ Configured(chip) /\ chip.key = "Locked" /\ (chip.core = "On" => amp.alive)
    /\ stage # "Playing" => Quiet(chip)
    /\ stage = "Ready" => chip.muted

\* A clean shutdown is one, until the hardware is touched again.
Clean ==
    /\ Up => cleanup = "None"
    /\ stage \in {"Suspended", "Faulted", "Detached", "Authorize"} /\ cleanup = "Success"
       /\ amp.present => chip.core = "Off" /\ Quiet(chip)

IInv == Shapes /\ Memory /\ InPlace /\ Runs /\ Set /\ Steady /\ Clean

\* What the hooks begin with is a world, of the chip and the flags as they are.
LEMMA WorldSpec ==
    ASSUME Shapes
    PROVE  IsWorld(World) /\ World.chip = chip /\ World.amp = amp /\ World.ok = TRUE
BY DEF Shapes, World, IsWorld

Latch(u, w) ==
    /\ IsWorld(w) /\ w.chip = u.chip /\ w.ok = u.ok
    /\ \A g \in Flags \ {"faulted"} : w.amp[g] = u.amp[g]
    /\ w.amp.faulted = (u.amp.faulted \/ ~u.ok)

\* A hook that failed latches a fault and changes nothing else.
LEMMA LatchedSpec ==
    ASSUME NEW ws, NEW w \in Latched(ws), \A u \in ws : IsWorld(u)
    PROVE  \E u \in ws : Latch(u, w)
<1>1. PICK u \in ws : w = [u EXCEPT !.amp.faulted = u.amp.faulted \/ ~u.ok]
  BY DEF Latched
<1>2. IsWorld(u)
  OBVIOUS
<1>3. /\ IsWorld(w) /\ w.chip = u.chip /\ w.ok = u.ok
      /\ w.amp.faulted = (u.amp.faulted \/ ~u.ok)
  BY <1>1, <1>2 DEF IsWorld, Flags
<1>4. \A g \in Flags \ {"faulted"} : w.amp[g] = u.amp[g]
  BY <1>1, <1>2 DEF IsWorld, Flags
<1> QED
  BY <1>3, <1>4 DEF Latch

\* What no step of a hook may break.
Sound(w) ==
    /\ IsWorld(w) /\ ~w.chip.abused /\ w.chip.mem[Calibration] # "Other"
    /\ w.amp.alive /\ w.amp.validated =>
          /\ w.chip.core = "On" /\ \A b \in Blocks : w.chip.mem[b] = "New"
          /\ Calibrated(w.chip.mem)

\* A hook that failed has latched a fault.
LEMMA FailedInv ==
    ASSUME IInv, NEW w, Becomes(w), Sound(w), w.amp.faulted,
           stage' \in {"Failing", "Faulted"}, stage' = "Faulted" => cleanup' # "Success"
    PROVE  IInv'
<1>1. chip' = w.chip /\ amp' = w.amp /\ board' = board
  BY DEF Becomes
<1>2. Shapes'
  BY <1>1 DEF IInv, Shapes, Sound, IsWorld, Stages
<1>3. Memory' /\ Runs'
  BY <1>1 DEF Memory, Runs, Sound, Calibrated
<1>4. InPlace' /\ Set' /\ Steady' /\ Clean'
  BY <1>1 DEF InPlace, Set, Steady, Clean, Up
<1> QED
  BY <1>2, <1>3, <1>4 DEF IInv

\* A hook that succeeded, in the terms of what it leaves behind.
LEMMA SteadyInv ==
    ASSUME IInv, NEW w, Becomes(w), Sound(w),
           stage' \in {"Firmware", "Waiting", "Upload", "Boot", "Verify", "Ready", "Playing"},
           InPlace', cleanup' = "None",
           ~w.amp.faulted =>
              /\ Configured(w.chip) /\ w.chip.key = "Locked"
              /\ w.chip.core = "On" => w.amp.alive
              /\ stage' # "Playing" => Idle(w.chip)
              /\ stage' = "Ready" => w.chip.muted
              /\ w.amp.initialized => w.chip.boost = TRUE /\ w.chip.route = "Dsp"
    PROVE  IInv'
<1>1. chip' = w.chip /\ amp' = w.amp /\ board' = board
  BY DEF Becomes
<1>2. Shapes'
  BY <1>1 DEF IInv, Shapes, Sound, IsWorld, Stages
<1>3. Memory' /\ Runs'
  BY <1>1 DEF Memory, Runs, Sound, Calibrated
<1>4. Set'
  BY <1>1 DEF Set, Configured
<1>5. Steady'
  BY <1>1 DEF Steady, Configured, Idle, Quiet, Switched
<1>6. Clean'
  BY DEF Clean
<1> QED
  BY <1>2, <1>3, <1>4, <1>5, <1>6 DEF IInv

\* The amplifier was shut down.
LEMMA ShutInv ==
    ASSUME IInv, NEW w, Becomes(w), Sound(w), ~w.amp.initialized, ~w.amp.alive,
           stage' \in {"Suspended", "Detached", "Faulted"},
           cleanup' = IF w.ok THEN "Success" ELSE "Failed",
           w.ok /\ w.amp.present => w.chip.core = "Off" /\ Quiet(w.chip)
    PROVE  IInv'
<1>1. chip' = w.chip /\ amp' = w.amp /\ board' = board
  BY DEF Becomes
<1>2. Shapes'
  BY <1>1 DEF IInv, Shapes, Sound, IsWorld, Stages
<1>3. Memory' /\ Runs'
  BY <1>1 DEF Memory, Runs, Sound
<1>4. InPlace' /\ Set' /\ Steady'
  BY <1>1 DEF InPlace, Set, Steady, Up
<1>5. Clean'
  BY <1>1 DEF Clean, Quiet, Switched, Up
<1> QED
  BY <1>2, <1>3, <1>4, <1>5 DEF IInv

\* A state of the invariant is sound.
LEMMA SoundWorld ==
    ASSUME IInv PROVE Sound(World)
BY WorldSpec DEF IInv, Sound, Memory, Runs

\* A fault that is latched leaves the world sound.
LEMMA SoundLatch ==
    ASSUME NEW u, Sound(u), NEW w, Latch(u, w) PROVE Sound(w)
BY DEF Sound, Latch, Flags

\* A hook that leaves the memory, the core and the trust in it alone.
LEMMA SoundFrame ==
    ASSUME NEW u, Sound(u), NEW w, NEW F, NEW G, Frame(u, w, F, G), Paused(u, w),
           F \cap {"mem", "abused"} = {}
    PROVE  Sound(w)
<1>1. w.chip.mem = u.chip.mem /\ w.chip.abused = u.chip.abused /\ IsWorld(w)
  BY DEF Frame, Fields
<1>2. w.amp.alive /\ w.amp.validated =>
        u.amp.alive /\ u.amp.validated /\ w.chip.core = u.chip.core
  BY DEF Paused
<1> QED
  BY <1>1, <1>2 DEF Sound

-----------------------------------------------------------------------------
(* The routines that SpeakerBringUp adds *)

\* The DSP is halted before its image is looked at.
LEMMA HaltedSpec ==
    ASSUME NEW w, IsWorld(w), NEW v \in Halted(w)
    PROVE  /\ Frame(w, v, {"core"}, {"alive", "validated"})
           /\ ~v.amp.alive /\ v.amp.validated = FALSE
           /\ v.ok => w.ok /\ v.chip.core = "Off"
<1> DEFINE a == [w EXCEPT !.amp.validated = FALSE, !.amp.alive = FALSE]
<1>1. /\ IsWorld(a) /\ Frame(w, a, {}, {"alive", "validated"})
      /\ a.amp.validated = FALSE /\ a.chip = w.chip /\ a.ok = w.ok
  BY DEF IsWorld, Frame, Flags
<1>2. PICK u \in StopDSP(a) :
        v = [u EXCEPT !.ok = u.ok /\ <<"Parse", "Firmware">> # board.defect
                                  /\ Planned("Firmware")]
  BY DEF Halted
<1> HIDE DEF a
<1>3. /\ Frame(a, u, {"core"}, {"alive"}) /\ u.amp.alive = FALSE /\ IsWorld(u)
      /\ u.ok => a.ok /\ u.chip.core = "Off"
  BY <1>1, StopDSPSpec, FrameWorld
<1>4. IsWorld(v) /\ v.chip = u.chip /\ v.amp = u.amp /\ (v.ok => u.ok)
  BY <1>2, <1>3 DEF IsWorld
<1>5. u.amp.validated = FALSE
  BY <1>1, <1>3 DEF Frame, Flags
<1>6. Frame(w, v, {"core"}, {"alive", "validated"})
  BY <1>1, <1>3, <1>4 DEF Frame
<1> QED
  BY <1>1, <1>3, <1>4, <1>5, <1>6

\* One transaction: it has put its block in place and touched no other, or it
\* has failed; and the core is stopped all the while.
LEMMA TunedSpec ==
    ASSUME NEW w, IsWorld(w), w.chip.core = "Off", Positioned, NEW v \in Tuned(w)
    PROVE  /\ Frame(w, v, {"mem", "abused", "core"}, {"alive"})
           /\ v.chip.core = "Off" /\ (v.chip.abused => w.chip.abused)
           /\ v.chip.mem[Calibration] = "Other" => w.chip.mem[Calibration] = "Other"
           /\ v.amp.alive => w.amp.alive
           /\ v.ok => w.ok /\ Others(w, v, {Block}) /\ v.chip.mem[Block] = "New"
<1> DEFINE Sent(u, t) == /\ Stored(u, t)
                         /\ t.ok => u.ok /\ Others(u, t, {Block}) /\ t.chip.mem[Block] = "New"
           ready == {[u EXCEPT !.ok = u.ok /\ <<"Parse", "Tuning">> # board.defect
                                           /\ Planned("Tuning")] : u \in Read(w)}
           tuned == Onward(ready, Transaction)
<1>1. ASSUME NEW u, IsWorld(u), u.chip.core = "Off", NEW t \in Transaction(u)
      PROVE  Sent(u, t)
  BY <1>1, TransactionSpec
<1>2. ASSUME NEW t, Sent(w, t)
      PROVE  /\ Frame(w, t, {"mem", "abused", "core"}, {"alive"}) /\ IsWorld(t)
             /\ t.chip.core = "Off" /\ (t.chip.abused => w.chip.abused)
             /\ t.chip.mem[Calibration] = "Other" => w.chip.mem[Calibration] = "Other"
             /\ t.amp.alive = w.amp.alive
             /\ t.ok => w.ok /\ Others(w, t, {Block}) /\ t.chip.mem[Block] = "New"
  BY <1>2 DEF Stored, Frame, Fields, Flags
<1>3. CASE Image = "Firmware"
  <2>1. v \in Transaction(w)
    BY <1>3 DEF Tuned
  <2> QED
    BY <1>1, <1>2, <2>1
<1>4. CASE Image # "Firmware"
  <2>1. ASSUME NEW u \in ready PROVE Frame(w, u, {}, {}) /\ IsWorld(u) /\ (u.ok => w.ok)
    <3>1. PICK s \in Read(w) : u = [s EXCEPT !.ok = s.ok /\ <<"Parse", "Tuning">> # board.defect
                                                    /\ Planned("Tuning")]
      BY <2>1
    <3>2. Frame(w, s, {}, {}) /\ (s.ok => w.ok) /\ IsWorld(s)
      BY ReadSpec, FrameWorld
    <3>3. IsWorld(u) /\ u.chip = s.chip /\ u.amp = s.amp /\ (u.ok => s.ok)
      BY <3>1, <3>2 DEF IsWorld
    <3> QED
      BY <3>2, <3>3 DEF Frame
  <2>2. PICK t \in tuned : v \in IF t.ok THEN {t} ELSE Regardless({t}, StopDSP)
    BY <1>4 DEF Tuned
  <2> HIDE DEF ready
  <2>3. PICK u \in ready : (u.ok /\ t \in Transaction(u)) \/ (~u.ok /\ t = u)
    BY <2>2 DEF Onward
  <2>4. Frame(w, u, {}, {}) /\ IsWorld(u) /\ (u.ok => w.ok) /\ u.chip.core = "Off"
        /\ u.chip.mem = w.chip.mem
    BY <2>1 DEF Frame, Fields
  <2>5. Stored(w, u)
    BY <2>4, StoredFrame
  <2>6. Sent(w, t)
    <3>1. CASE u.ok /\ t \in Transaction(u)
      <4>1. Sent(u, t)
        BY <1>1, <2>4, <3>1
      <4> QED
        BY <2>4, <2>5, <4>1, StoredTrans DEF Others
    <3>2. CASE ~u.ok /\ t = u
      BY <2>5, <3>2
    <3> QED
      BY <2>3, <3>1, <3>2
  <2> HIDE DEF Sent, tuned
  <2>7. CASE t.ok /\ v = t
    BY <1>2, <2>6, <2>7
  <2>8. CASE ~t.ok /\ v \in Regardless({t}, StopDSP)
    <3>1. IsWorld(t) /\ t.chip.core = "Off"
      BY <1>2, <2>6
    <3>2. /\ Frame(t, v, {"core"}, {"alive"}) /\ v.amp.alive = FALSE
          /\ v.chip.core \in {t.chip.core, "Off"} /\ v.ok = t.ok
      BY <2>8, <3>1, HaltSpec
    <3>3. Frame(w, v, {"mem", "abused", "core"}, {"alive"})
      BY <1>2, <2>6, <3>2 DEF Frame
    <3>4. v.chip.mem = t.chip.mem /\ v.chip.abused = t.chip.abused
      BY <3>2 DEF Frame, Fields
    <3> QED
      BY <1>2, <2>6, <2>8, <3>1, <3>2, <3>3, <3>4
  <2> QED
    BY <2>2, <2>7, <2>8
<1> QED
  BY <1>3, <1>4

-----------------------------------------------------------------------------
(* The invariant is inductive: one lemma per action *)

\* While the hardware is identified, nothing of it changes.
LEMMA KeptInv ==
    ASSUME IInv, NEW w, Becomes(w), Frame(World, w, {}, {"faulted"}),
           ~w.amp.faulted => ~amp.faulted,
           stage \in {"Detached", "Authorize"}, cleanup' = cleanup,
           stage' \in {"Authorize", "Initialize", "Failing", "Faulted"}
    PROVE  IInv'
<1>1. chip' = w.chip /\ amp' = w.amp /\ board' = board /\ IsWorld(w)
  BY DEF Becomes, Frame
<1>2. World.chip = chip /\ World.amp = amp /\ Shapes
  BY WorldSpec DEF IInv
<1>3. /\ \A f \in Fields : w.chip[f] = chip[f]
      /\ \A g \in Flags \ {"faulted"} : w.amp[g] = amp[g]
  BY <1>2 DEF Frame
<1>4. Shapes'
  BY <1>1, <1>2 DEF Shapes, IsWorld, Stages
<1>5. /\ w.chip.mem = chip.mem /\ w.chip.abused = chip.abused /\ w.chip.core = chip.core
      /\ w.amp.alive = amp.alive /\ w.amp.validated = amp.validated
      /\ w.amp.initialized = amp.initialized /\ w.amp.present = amp.present
  BY <1>3 DEF Fields, Flags
<1>6. Memory' /\ Runs'
  BY <1>1, <1>5 DEF IInv, Memory, Runs, Calibrated
<1>7. Set'
  BY <1>1, <1>3, <1>5 DEF IInv, Set, Configured, Fields
<1>8. Clean'
  BY <1>1, <1>3, <1>5 DEF IInv, Clean, Up, Quiet, Switched, Fields
<1>9. InPlace' /\ Steady'
  BY DEF InPlace, Steady, Up
<1> QED
  BY <1>4, <1>6, <1>7, <1>8, <1>9 DEF IInv

\* An answer that does not come is a fault.
LEMMA IdentifyInv == ASSUME IInv, Identify PROVE IInv'
<1>1. PICK w \in Latched(Read(World)) : Step(w, "Authorize")
  BY DEF Identify
<1>2. IsWorld(World) /\ World.amp = amp
  BY WorldSpec DEF IInv
<1>3. \A u \in Read(World) : Frame(World, u, {}, {}) /\ IsWorld(u)
  BY <1>2, ReadSpec, FrameWorld
<1>4. PICK u \in Read(World) : Latch(u, w)
  BY <1>1, <1>3, LatchedSpec
<1>5. Frame(World, u, {}, {})
  BY <1>3
<1>6. Frame(World, w, {}, {"faulted"})
  BY <1>4, <1>5 DEF Frame, Latch
<1>7. ~w.amp.faulted => ~amp.faulted
  BY <1>2, <1>4, <1>5 DEF Frame, Latch, Flags
<1> QED
  BY <1>1, <1>6, <1>7, KeptInv DEF Identify, Step

\* The board is looked up.
LEMMA AuthorizeBoardInv == ASSUME IInv, AuthorizeBoard PROVE IInv'
<1> DEFINE w == [World EXCEPT !.ok = board.permitted]
<1>1. IsWorld(World) /\ World.amp = amp
  BY WorldSpec DEF IInv
<1>2. IsWorld(w) /\ w.chip = World.chip /\ w.amp = World.amp
  BY <1>1 DEF IsWorld
<1>3. Step(w, "Initialize") /\ stage = "Authorize"
  BY DEF AuthorizeBoard
<1> HIDE DEF w
<1>4. Frame(World, w, {}, {"faulted"})
  BY <1>2 DEF Frame
<1> QED
  BY <1>1, <1>2, <1>3, <1>4, KeptInv DEF Step

\* Reset, errata and configuration: the amplifier is up, or at fault.
LEMMA InitializeInv == ASSUME IInv, Initialize PROVE IInv'
<1>1. PICK w \in Latched(InitializeHardware(World)) :
        Becomes(w) /\ stage' = IF w.ok THEN "Firmware" ELSE "Failing"
  BY DEF Initialize
<1>2. /\ IsWorld(World) /\ World.chip = chip /\ World.amp = amp
      /\ board.topology \in {"Fixed", "Internal", "Switched"}
  BY WorldSpec DEF IInv, Shapes
<1>3. \A u \in InitializeHardware(World) :
        /\ Down(World, u) /\ IsWorld(u)
        /\ u.ok => /\ Configured(u.chip) /\ Idle(u.chip) /\ u.chip.core = "Off"
                   /\ u.chip.muted
  BY <1>2, InitializeHardwareSpec DEF Down
<1>4. PICK u \in InitializeHardware(World) : Latch(u, w)
  BY <1>1, <1>3, LatchedSpec
<1>5. Down(World, u)
  BY <1>3
<1>6. Sound(World)
  BY SoundWorld
<1>7. Sound(u)
  BY <1>5, <1>6 DEF Down, Sound
<1>8. Sound(w)
  BY <1>4, <1>7, SoundLatch
<1>9. CASE w.ok
  <2>1. stage' = "Firmware" /\ cleanup' = "None"
    BY <1>1, <1>9 DEF Initialize
  <2>2. InPlace'
    BY <2>1 DEF InPlace
  <2>3. ~w.amp.initialized /\ w.chip = u.chip /\ u.ok
    BY <1>4, <1>5, <1>9 DEF Down, Latch, Flags
  <2>4. /\ Configured(w.chip) /\ Idle(w.chip) /\ w.chip.core = "Off" /\ w.chip.key = "Locked"
    BY <1>3, <2>3 DEF Idle
  <2> QED
    BY <1>1, <1>8, <2>1, <2>2, <2>3, <2>4, SteadyInv
<1>10. CASE ~w.ok
  <2>1. w.amp.faulted /\ stage' = "Failing"
    BY <1>1, <1>4, <1>10 DEF Latch
  <2> QED
    BY <1>1, <1>8, <2>1, FailedInv
<1> QED
  BY <1>9, <1>10

\* What is known where the hardware is up, of a world that differs only in what
\* the firmware is concerned with.
LEMMA UpWorld ==
    ASSUME IInv, Up, stage # "Playing", NEW w, NEW F, NEW G, Frame(World, w, F, G),
           F \subseteq {"mem", "abused", "core"}, G \subseteq Flags \ {"initialized"},
           amp.faulted => w.amp.faulted
    PROVE  ~w.amp.faulted =>
              /\ Configured(w.chip) /\ w.chip.key = "Locked" /\ Idle(w.chip)
              /\ w.amp.initialized => w.chip.boost = TRUE /\ w.chip.route = "Dsp"
<1> HAVE ~w.amp.faulted
<1>1. World.chip = chip /\ World.amp = amp /\ Steady /\ Set
  BY WorldSpec DEF IInv
<1>2. \A f \in Fields \ {"mem", "abused", "core"} : w.chip[f] = chip[f]
  BY <1>1 DEF Frame
<1>3. w.amp.initialized = amp.initialized /\ ~amp.faulted
  BY <1>1 DEF Frame, Flags
<1>4. Configured(w.chip) /\ w.chip.key = "Locked" /\ Idle(w.chip)
  BY <1>1, <1>2, <1>3 DEF Steady, Configured, Idle, Quiet, Fields
<1>5. w.amp.initialized => w.chip.boost = TRUE /\ w.chip.route = "Dsp"
  BY <1>1, <1>2, <1>3 DEF Set, Fields
<1> QED
  BY <1>4, <1>5

\* The resources are looked up again, and nothing is trusted meanwhile.
LEMMA DiscoverFirmwareSpec ==
    ASSUME IInv
    PROVE  LET D == DiscoverFirmware
           IN  /\ Frame(World, D, {}, {"validated", "pending"}) /\ Sound(D)
               /\ D.amp.validated = FALSE /\ D.amp.faulted = amp.faulted
               /\ D.amp.pending = IdentityPending /\ (IdentityPending => D.ok)
<1> DEFINE D == DiscoverFirmware
<1>1. IsWorld(World) /\ World.chip = chip /\ World.amp = amp /\ World.ok = TRUE
  BY WorldSpec DEF IInv
<1>2. /\ IsWorld(D) /\ D.chip = World.chip
      /\ \A g \in Flags \ {"validated", "pending"} : D.amp[g] = World.amp[g]
      /\ D.amp.validated = FALSE /\ D.amp.pending = IdentityPending
      /\ IdentityPending => D.ok
  BY <1>1 DEF DiscoverFirmware, IsWorld, Flags
<1> HIDE DEF D
<1>3. Frame(World, D, {}, {"validated", "pending"})
  BY <1>2 DEF Frame
<1>4. Sound(D)
  BY <1>2, SoundWorld DEF Sound
<1>5. D.amp.faulted = amp.faulted
  BY <1>1, <1>2 DEF Flags
<1> QED
  BY <1>2, <1>3, <1>4, <1>5 DEF D

\* The amplifier waits for its identity, or its DSP is halted for the upload.
LEMMA LoadFirmwareInv == ASSUME IInv, LoadFirmware PROVE IInv'
<1> DEFINE D == DiscoverFirmware
           H == Onward({D}, Halted)
<1>1. /\ Frame(World, D, {}, {"validated", "pending"}) /\ Sound(D) /\ IsWorld(D)
      /\ D.amp.validated = FALSE /\ D.amp.faulted = amp.faulted
      /\ D.amp.pending = IdentityPending /\ (IdentityPending => D.ok)
  BY DiscoverFirmwareSpec, FrameWorld
<1>2. /\ World.chip = chip /\ World.amp = amp /\ stage = "Firmware" /\ cleanup = "None" /\ Up
      /\ up' = Begin(1, chip.mem)
      /\ Steady
  BY WorldSpec DEF IInv, LoadFirmware, Clean, Up
<1>3. CASE D.amp.pending /\ Step(D, "Waiting")
  <2>1. stage' = "Waiting" /\ Becomes(D) /\ cleanup' = "None"
    BY <1>1, <1>2, <1>3 DEF Step
  <2>2. InPlace'
    BY <2>1 DEF InPlace
  <2>3. ~D.amp.faulted /\ D.chip.core = "On" => D.amp.alive
    BY <1>1, <1>2 DEF Frame, Fields, Flags, Steady
  <2> HIDE DEF D
  <2>4. ~D.amp.faulted =>
           /\ Configured(D.chip) /\ D.chip.key = "Locked" /\ Idle(D.chip)
           /\ D.amp.initialized => D.chip.boost = TRUE /\ D.chip.route = "Dsp"
    <3>1. Frame(World, D, {"core"}, {"validated", "pending"})
      BY <1>1 DEF Frame
    <3> QED
      BY <1>1, <1>2, <3>1, UpWorld DEF Flags
  <2> QED
    BY <1>1, <2>1, <2>2, <2>3, <2>4, SteadyInv
<1>4. ASSUME NEW w \in Latched(H), Step(w, "Upload")
      PROVE  IInv'
  <2>1. ASSUME NEW u \in H
        PROVE  /\ Frame(World, u, {"core"}, {"alive", "validated", "pending"})
               /\ u.amp.validated = FALSE /\ (u.ok => u.chip.core = "Off" /\ ~u.amp.alive)
    <3>1. (D.ok /\ u \in Halted(D)) \/ (~D.ok /\ u = D)
      BY <2>1 DEF Onward
    <3> HIDE DEF D, H
    <3>2. CASE D.ok /\ u \in Halted(D)
      <4>1. /\ Frame(D, u, {"core"}, {"alive", "validated"})
            /\ ~u.amp.alive /\ u.amp.validated = FALSE
            /\ u.ok => D.ok /\ u.chip.core = "Off"
        BY <1>1, <3>2, HaltedSpec
      <4>2. Frame(World, u, {"core"}, {"alive", "validated", "pending"})
        BY <1>1, <4>1 DEF Frame
      <4> QED
        BY <4>1, <4>2
    <3>3. CASE ~D.ok /\ u = D
      BY <1>1, <3>3 DEF Frame
    <3> QED
      BY <3>1, <3>2, <3>3
  <2> HIDE DEF H
  <2>2. PICK u \in H : Latch(u, w)
    BY <1>4, <2>1, LatchedSpec, FrameWorld
  <2>3. /\ Frame(World, u, {"core"}, {"alive", "validated", "pending"})
        /\ u.amp.validated = FALSE /\ (u.ok => u.chip.core = "Off" /\ ~u.amp.alive)
    BY <2>1
  <2>4. Sound(u)
    BY <2>3, SoundWorld DEF Sound, Frame, Fields
  <2>5. Sound(w)
    BY <2>2, <2>4, SoundLatch
  <2>6. Becomes(w) /\ cleanup' = "None"
    BY <1>2, <1>4 DEF Step
  <2>7. CASE w.ok
    <3>1. stage' = "Upload"
      BY <1>4, <2>7 DEF Step
    <3>2. w.chip.core = "Off" /\ ~w.amp.alive
      BY <2>2, <2>3, <2>7 DEF Latch, Flags
    <3>3. chip' = w.chip /\ amp' = w.amp
      BY <2>6 DEF Becomes
    <3>4. up'.region = 1 /\ up'.tx = 1 /\ DOMAIN up' = {"region", "tx", "backup"}
      BY <1>2 DEF Begin
    <3>5. Positioned'
      BY <3>4 DEF Positioned
    <3>6. InPlace'
      BY <3>1, <3>2, <3>3, <3>4, <3>5 DEF InPlace
    <3>7. /\ Frame(World, w, {"core"}, {"alive", "validated", "pending", "faulted"})
          /\ amp.faulted => w.amp.faulted
      BY <1>2, <2>2, <2>3 DEF Frame, Latch, Flags
    <3>8. ~w.amp.faulted =>
             /\ Configured(w.chip) /\ w.chip.key = "Locked" /\ Idle(w.chip)
             /\ w.amp.initialized => w.chip.boost = TRUE /\ w.chip.route = "Dsp"
      BY <1>2, <3>7, UpWorld DEF Flags
    <3> QED
      BY <2>5, <2>6, <3>1, <3>2, <3>6, <3>8, SteadyInv
  <2>8. CASE ~w.ok
    <3>1. w.amp.faulted
      BY <2>2, <2>8 DEF Latch
    <3>2. stage' \in {"Failing", "Faulted"}
      BY <1>4, <2>8 DEF Step
    <3> QED
      BY <2>5, <2>6, <3>1, <3>2, FailedInv
  <2> QED
    BY <2>7, <2>8
<1> QED
  BY <1>3, <1>4 DEF LoadFirmware

\* The transaction has put its block in place, and the next one is as it says.
LEMMA UploadInv == ASSUME IInv, Upload PROVE IInv'
<1>1. PICK w \in Latched(Tuned(World)) :
        /\ Step(w, IF up.region = 3 THEN "Boot" ELSE "Upload")
        /\ up' = IF w.ok /\ up.region < 3 THEN Advanced(w.chip.mem) ELSE up
  BY DEF Upload
<1>2. /\ IsWorld(World) /\ World.chip = chip /\ World.amp = amp /\ stage = "Upload"
      /\ InPlace /\ Positioned /\ chip.core = "Off" /\ ~amp.alive /\ cleanup = "None" /\ Up
  BY WorldSpec DEF IInv, Upload, InPlace, Clean, Up
<1>3. \A u \in Tuned(World) :
        /\ Frame(World, u, {"mem", "abused", "core"}, {"alive"}) /\ IsWorld(u)
        /\ u.chip.core = "Off" /\ (u.chip.abused => chip.abused)
        /\ u.chip.mem[Calibration] = "Other" => chip.mem[Calibration] = "Other"
        /\ ~u.amp.alive
        /\ u.ok => Others(World, u, {Block}) /\ u.chip.mem[Block] = "New"
  BY <1>2, TunedSpec, FrameWorld
<1>4. PICK u \in Tuned(World) : Latch(u, w)
  BY <1>1, <1>3, LatchedSpec
<1>5. /\ Frame(World, u, {"mem", "abused", "core"}, {"alive"})
      /\ u.chip.core = "Off" /\ ~u.chip.abused /\ u.chip.mem[Calibration] # "Other"
      /\ ~u.amp.alive
      /\ u.ok => Others(World, u, {Block}) /\ u.chip.mem[Block] = "New"
  BY <1>3 DEF IInv, Memory
<1>6. Sound(w) /\ ~w.amp.alive
  BY <1>4, <1>5, SoundLatch DEF Sound, Frame, Latch, Flags
<1>7. Becomes(w) /\ cleanup' = "None" /\ chip' = w.chip /\ amp' = w.amp /\ w.chip = u.chip
      /\ w.ok = u.ok
  BY <1>1, <1>2, <1>4 DEF Step, Becomes, Latch
<1>8. CASE w.ok
  <2>1. /\ Frame(World, w, {"mem", "abused", "core"}, {"alive", "faulted"})
        /\ amp.faulted => w.amp.faulted
    BY <1>2, <1>4, <1>5 DEF Frame, Latch, Flags
  <2>2. ~w.amp.faulted =>
           /\ Configured(w.chip) /\ w.chip.key = "Locked" /\ Idle(w.chip)
           /\ w.amp.initialized => w.chip.boost = TRUE /\ w.chip.route = "Dsp"
    BY <1>2, <2>1, UpWorld DEF Flags
  <2>3. stage' = IF up.region = 3 THEN "Boot" ELSE "Upload"
    BY <1>1, <1>8 DEF Step
  <2>4. /\ \A d \in Blocks \ {Block} : w.chip.mem[d] = chip.mem[d]
        /\ w.chip.mem[Block] = "New" /\ chip'.core = "Off" /\ ~amp'.alive
    BY <1>2, <1>5, <1>6, <1>7, <1>8 DEF Others
  <2>5. InPlace'
    <3>1. CASE up.region = 1
      <4>1. Len(Region) = 1 /\ Block = "PM" /\ up.tx = 1
        BY <1>2, <3>1, Position DEF Positioned
      <4>2. up'.region = 2 /\ up'.tx = 1 /\ DOMAIN up' = {"region", "tx", "backup"}
        BY <1>1, <1>8, <3>1, <4>1 DEF Advanced, Begin
      <4>3. Positioned'
        BY <4>2 DEF Positioned
      <4> QED
        BY <1>7, <2>3, <2>4, <3>1, <4>1, <4>2, <4>3 DEF InPlace
    <3>2. CASE up.region = 2 /\ up.tx = 1
      <4>1. Len(Region) = 2 /\ Block = "XM1" /\ chip.mem["PM"] = "New"
        BY <1>2, <3>2, Position DEF InPlace
      <4>2. up' = [up EXCEPT !.tx = up.tx + 1] /\ DOMAIN up = {"region", "tx", "backup"}
        BY <1>1, <1>2, <1>8, <3>2, <4>1 DEF Advanced, InPlace
      <4>3. up'.region = 2 /\ up'.tx = 2 /\ DOMAIN up' = {"region", "tx", "backup"}
        BY <3>2, <4>2
      <4>4. Positioned'
        BY <4>3 DEF Positioned
      <4> QED
        BY <1>7, <2>3, <2>4, <3>2, <4>1, <4>3, <4>4 DEF InPlace, Blocks
    <3>3. CASE up.region = 2 /\ up.tx = 2
      <4>1. Len(Region) = 2 /\ Block = "XM2" /\ chip.mem["PM"] = "New"
            /\ chip.mem["XM1"] = "New"
        BY <1>2, <3>3, Position DEF InPlace
      <4>2. up'.region = 3 /\ up'.tx = 1 /\ DOMAIN up' = {"region", "tx", "backup"}
        BY <1>1, <1>8, <3>3, <4>1 DEF Advanced, Begin
      <4>3. Positioned'
        BY <4>2 DEF Positioned
      <4> QED
        BY <1>7, <2>3, <2>4, <3>3, <4>1, <4>2, <4>3 DEF InPlace, Blocks
    <3>4. CASE up.region = 3
      <4>1. Block = "Tuning" /\ chip.mem["PM"] = "New" /\ chip.mem["XM1"] = "New"
            /\ chip.mem["XM2"] = "New"
        BY <1>2, <3>4, Position DEF InPlace
      <4> QED
        BY <1>7, <2>3, <2>4, <3>4, <4>1 DEF InPlace, Blocks
    <3> QED
      BY <1>2, <3>1, <3>2, <3>3, <3>4 DEF Positioned
  <2> QED
    BY <1>6, <1>7, <2>2, <2>3, <2>4, <2>5, SteadyInv
<1>9. CASE ~w.ok
  <2>1. w.amp.faulted
    BY <1>4, <1>9 DEF Latch
  <2>2. stage' \in {"Failing", "Faulted"}
    BY <1>1, <1>9 DEF Step
  <2> QED
    BY <1>6, <1>7, <2>1, <2>2, FailedInv
<1> QED
  BY <1>8, <1>9

\* The DSP runs a complete and calibrated image, or there is a fault.
LEMMA BootInv == ASSUME IInv, Boot PROVE IInv'
<1>1. PICK w \in Latched(StartFirmware(World)) :
        Step([w EXCEPT !.ok = w.ok /\ ~w.amp.faulted], "Verify")
  BY DEF Boot
<1>2. /\ IsWorld(World) /\ World.chip = chip /\ World.amp = amp /\ stage = "Boot"
      /\ chip.core = "Off" /\ ~amp.alive /\ cleanup = "None" /\ Up
      /\ board.records \in Records /\ ~chip.abused /\ chip.mem[Calibration] # "Other"
      /\ \A b \in Blocks : chip.mem[b] = "New"
  BY WorldSpec DEF IInv, Boot, InPlace, Clean, Up, Memory, Shapes
<1>3. \A u \in StartFirmware(World) :
        /\ Booted(World, u) /\ IsWorld(u) /\ (u.amp.alive => u.ok)
        /\ u.ok => u.amp.alive /\ u.chip.core = "On" /\ Calibrated(u.chip.mem)
  BY <1>2, StartFirmwareSpec DEF Booted, Frame
<1>4. PICK u \in StartFirmware(World) : Latch(u, w)
  BY <1>1, <1>3, LatchedSpec
<1>5. /\ Booted(World, u) /\ (u.amp.alive => u.ok)
      /\ u.ok => u.amp.alive /\ u.chip.core = "On" /\ Calibrated(u.chip.mem)
  BY <1>3
<1>6. \A b \in Blocks : u.chip.mem[b] = "New"
  BY <1>2, <1>5 DEF Booted, Others
<1>7. Sound(w)
  <2>1. Sound(u)
    BY <1>2, <1>5, <1>6 DEF Sound, Booted, Frame
  <2> QED
    BY <1>4, <2>1, SoundLatch
<1> DEFINE z == [w EXCEPT !.ok = w.ok /\ ~w.amp.faulted]
<1>8. /\ IsWorld(z) /\ z.chip = w.chip /\ z.amp = w.amp /\ z.ok = (w.ok /\ ~w.amp.faulted)
      /\ Step(z, "Verify")
  BY <1>1, <1>4 DEF Latch, IsWorld
<1> HIDE DEF z
<1>9. Sound(z) /\ Becomes(z) /\ cleanup' = "None"
  BY <1>2, <1>7, <1>8 DEF Sound, Step
<1>10. CASE z.ok
  <2>1. stage' = "Verify" /\ chip' = z.chip /\ amp' = z.amp
    BY <1>8, <1>9, <1>10 DEF Step, Becomes
  <2>2. z.amp.alive
    BY <1>4, <1>5, <1>8, <1>10 DEF Latch, Flags
  <2>3. InPlace'
    BY <2>1, <2>2 DEF InPlace
  <2>4. /\ Frame(World, z, {"mem", "abused", "core"}, {"validated", "alive", "faulted"})
        /\ amp.faulted => z.amp.faulted
    <3>1. Frame(World, u, {"mem", "abused", "core"}, {"validated", "alive", "faulted"})
      BY <1>5 DEF Booted
    <3>2. Frame(World, z, {"mem", "abused", "core"}, {"validated", "alive", "faulted"})
      BY <1>4, <1>8, <3>1 DEF Frame, Latch
    <3> QED
      BY <1>2, <1>4, <1>5, <1>8, <3>2 DEF Booted, Latch
  <2>5. ~z.amp.faulted =>
           /\ Configured(z.chip) /\ z.chip.key = "Locked" /\ Idle(z.chip)
           /\ z.amp.initialized => z.chip.boost = TRUE /\ z.chip.route = "Dsp"
    BY <1>2, <2>4, UpWorld DEF Flags
  <2> QED
    BY <1>9, <2>1, <2>2, <2>3, <2>5, SteadyInv
<1>11. CASE ~z.ok
  <2>1. z.amp.faulted
    BY <1>4, <1>8, <1>11 DEF Latch
  <2>2. stage' \in {"Failing", "Faulted"}
    BY <1>8, <1>11 DEF Step
  <2> QED
    BY <1>9, <2>1, <2>2, FailedInv
<1> QED
  BY <1>10, <1>11

\* The amplifier is ready, with its routes those of its DSP.
LEMMA VerifyInv == ASSUME IInv, Verify PROVE IInv'
<1>1. PICK w \in Latched(VerifyReady(World)) : Step(w, "Ready")
  BY DEF Verify
<1>2. /\ IsWorld(World) /\ World.chip = chip /\ World.amp = amp /\ stage = "Verify"
      /\ amp.alive /\ cleanup = "None" /\ Up /\ Steady
  BY WorldSpec DEF IInv, Verify, InPlace, Clean, Up
<1>3. \A u \in VerifyReady(World) :
        /\ Frame(World, u, {"muted", "route", "output", "key", "power", "boost", "supply", "core"},
                 {"initialized", "alive", "validated", "active", "faulted"})
        /\ IsWorld(u)
        /\ Paused(World, u) /\ (amp.faulted => u.amp.faulted)
        /\ u.ok => /\ Frame(World, u, {"muted", "route", "output", "key", "power", "boost"},
                            {"initialized"})
                   /\ u.chip.key \in {chip.key, "Locked"}
                   /\ ~Internal => u.chip.boost = TRUE
                   /\ u.chip.boost \in {chip.boost, TRUE}
                   /\ ~u.chip.power /\ ~u.chip.output /\ u.chip.muted
                   /\ u.amp.alive => u.chip.route = "Dsp"
  BY <1>2, VerifyReadySpec, FrameWorld
<1>4. PICK u \in VerifyReady(World) : Latch(u, w)
  BY <1>1, <1>3, LatchedSpec
<1>5. Sound(w)
  <2>1. Sound(u)
    <3>1. /\ Frame(World, u, {"muted", "route", "output", "key", "power", "boost", "supply", "core"},
                   {"initialized", "alive", "validated", "active", "faulted"})
          /\ Paused(World, u)
      BY <1>3
    <3> QED
      BY <3>1, SoundWorld, SoundFrame
  <2> QED
    BY <1>4, <2>1, SoundLatch
<1>6. Becomes(w) /\ cleanup' = "None" /\ w.chip = u.chip /\ w.ok = u.ok
  BY <1>1, <1>2, <1>4 DEF Step, Latch
<1>7. CASE w.ok
  <2>1. stage' = "Ready"
    BY <1>1, <1>7 DEF Step
  <2>2. InPlace'
    BY <2>1 DEF InPlace
  <2>3. /\ Frame(World, u, {"muted", "route", "output", "key", "power", "boost"}, {"initialized"})
        /\ u.chip.key \in {chip.key, "Locked"}
        /\ ~Internal => u.chip.boost = TRUE
        /\ u.chip.boost \in {chip.boost, TRUE}
        /\ ~u.chip.power /\ ~u.chip.output /\ u.chip.muted
        /\ u.amp.alive => u.chip.route = "Dsp"
    BY <1>3, <1>6, <1>7
  <2>4. /\ \A f \in {"errata", "trim", "clock", "port", "pins", "supply", "core"} :
              u.chip[f] = chip[f]
        /\ u.amp.alive = amp.alive /\ u.amp.faulted = amp.faulted
    BY <1>2, <2>3 DEF Frame, Fields, Flags
  <2>5. w.amp.alive /\ (~w.amp.faulted => ~amp.faulted)
    BY <1>2, <1>4, <2>4 DEF Latch, Flags
  <2>6. ~amp.faulted => Configured(chip) /\ chip.key = "Locked" /\ Quiet(chip)
    BY <1>2 DEF Steady
  <2>7. ~amp.faulted => Configured(u.chip) /\ u.chip.boost = TRUE
    <3>1. HAVE ~amp.faulted
    <3>2. board.topology # "Fixed" => chip.boost = TRUE
      BY <2>6, <3>1 DEF Configured
    <3>3. u.chip.boost = TRUE
      BY <2>3, <3>2 DEF Internal
    <3> QED
      BY <2>4, <2>6, <3>1, <3>3 DEF Configured
  <2>8. ~amp.faulted => u.chip.key = "Locked" /\ Idle(u.chip)
    BY <2>3, <2>4, <2>6 DEF Idle, Quiet
  <2>9. u.chip.route = "Dsp"
    BY <1>2, <2>3, <2>4
  <2> QED
    BY <1>5, <1>6, <2>1, <2>2, <2>3, <2>5, <2>7, <2>8, <2>9, SteadyInv
<1>8. CASE ~w.ok
  <2>1. w.amp.faulted
    BY <1>4, <1>8 DEF Latch
  <2>2. stage' \in {"Failing", "Faulted"}
    BY <1>1, <1>8 DEF Step
  <2> QED
    BY <1>5, <1>6, <2>1, <2>2, FailedInv
<1> QED
  BY <1>7, <1>8

\* A shutdown, from a world whose memory and trust are in order.
LEMMA ShutdownInv ==
    ASSUME IInv, NEW v, Sound(v), NEW w \in Latched(Shutdown(v)), Becomes(w),
           stage' \in {"Suspended", "Detached", "Faulted"},
           cleanup' = IF w.ok THEN "Success" ELSE "Failed"
    PROVE  IInv'
<1>1. IsWorld(v)
  BY DEF Sound
<1>2. \A u \in Shutdown(v) :
        /\ Frame(v, u, {"muted", "power", "output", "key", "supply", "core"},
                 {"initialized", "alive", "validated", "active", "faulted"})
        /\ IsWorld(u) /\ ~u.amp.initialized /\ ~u.amp.alive /\ ~u.amp.validated
        /\ u.ok /\ u.amp.present => u.chip.core = "Off" /\ Quiet(u.chip)
  BY <1>1, ShutdownSpec, FrameWorld
<1>3. PICK u \in Shutdown(v) : Latch(u, w)
  BY <1>2, LatchedSpec
<1>4. /\ Frame(v, u, {"muted", "power", "output", "key", "supply", "core"},
               {"initialized", "alive", "validated", "active", "faulted"})
      /\ IsWorld(u) /\ ~u.amp.initialized /\ ~u.amp.alive /\ ~u.amp.validated
      /\ u.ok /\ u.amp.present => u.chip.core = "Off" /\ Quiet(u.chip)
  BY <1>2
<1>5. u.chip.mem = v.chip.mem /\ u.chip.abused = v.chip.abused
  BY <1>4 DEF Frame, Fields
<1>6. Sound(u)
  BY <1>4, <1>5 DEF Sound
<1>7. Sound(w)
  BY <1>3, <1>6, SoundLatch
<1>8. /\ ~w.amp.initialized /\ ~w.amp.alive /\ w.chip = u.chip /\ w.ok = u.ok
      /\ w.amp.present = u.amp.present
  BY <1>3, <1>4 DEF Latch, Flags
<1>9. w.ok /\ w.amp.present => w.chip.core = "Off" /\ Quiet(w.chip)
  BY <1>4, <1>8
<1> QED
  BY <1>7, <1>8, <1>9, ShutInv

\* What failed is shut down.
LEMMA FailInv == ASSUME IInv, Fail PROVE IInv'
BY SoundWorld, ShutdownInv DEF Fail

\* What is suspended or detached is shut down.
LEMMA LeaveToInv ==
    ASSUME IInv, NEW next \in {"Suspended", "Detached"}, LeaveTo(next)
    PROVE  IInv'
BY SoundWorld, ShutdownInv DEF LeaveTo

\* What waited for its identity is detached, goes on waiting, or fails.
LEMMA RetryBringUpInv == ASSUME IInv, RetryBringUp PROVE IInv'
<1> DEFINE D == DiscoverFirmware
           E == [D EXCEPT !.amp.pending = FALSE, !.ok = FALSE]
<1>1. Sound(D) /\ stage = "Waiting" /\ cleanup = "None"
  BY DiscoverFirmwareSpec DEF RetryBringUp, IInv, Clean, Up
<1>2. ASSUME NEW w \in Latched(Shutdown(D)), Becomes(w),
             cleanup' = IF w.ok THEN "Success" ELSE "Failed",
             stage' = IF w.ok THEN "Detached" ELSE "Faulted"
      PROVE  IInv'
  <2> HIDE DEF D
  <2> QED
    BY <1>1, <1>2, ShutdownInv
<1>3. ASSUME NEW w \in Latched({E}), Step(w, "Waiting")
      PROVE  IInv'
  <2>1. /\ IsWorld(E) /\ E.chip = D.chip /\ E.ok = FALSE
        /\ \A g \in Flags \ {"pending"} : E.amp[g] = D.amp[g]
    BY <1>1 DEF Sound, IsWorld, Flags
  <2> HIDE DEF D, E
  <2>2. Sound(E)
    BY <1>1, <2>1 DEF Sound, Flags
  <2>3. \A u \in {E} : IsWorld(u)
    BY <2>1
  <2>4. PICK u \in {E} : Latch(u, w)
    BY <1>3, <2>3, LatchedSpec
  <2>5. Latch(E, w)
    BY <2>4
  <2>6. Sound(w) /\ w.amp.faulted /\ ~w.ok
    BY <2>1, <2>2, <2>5, SoundLatch DEF Latch
  <2>7. Becomes(w) /\ stage' \in {"Failing", "Faulted"} /\ cleanup' = "None"
    BY <1>1, <1>3, <2>6 DEF Step
  <2> QED
    BY <2>6, <2>7, FailedInv
<1> QED
  BY <1>2, <1>3 DEF RetryBringUp

\* Playback starts, or there is a fault.
LEMMA StartInv == ASSUME IInv, Start PROVE IInv'
<1> DEFINE prepared == [World EXCEPT !.chip.power = TRUE, !.chip.output = TRUE,
                                     !.chip.supply = "On"]
           A == {prepared}
           B == A && [muted |-> FALSE]
           C == B && Nothing
           F == {"power", "output", "supply", "muted"}
<1>1. /\ IsWorld(World) /\ World.chip = chip /\ World.amp = amp /\ stage = "Ready"
      /\ ~amp.faulted /\ cleanup = "None" /\ Steady /\ Set
  BY WorldSpec DEF IInv, Start, Clean, Up
<1>2. IsWorld(prepared) /\ Frame(World, prepared, F, {})
  BY <1>1 DEF IsWorld, IsChip, Fields, Frame
<1>3. PICK w \in Latched(C) : Step([w EXCEPT !.amp.active = w.ok], "Playing")
  BY DEF Start
<1> HIDE DEF prepared
<1>4. Framed(prepared, A, F, {})
  BY <1>2, FramedOne
<1> HIDE DEF A
<1>5. Framed(prepared, B, F, {})
  BY <1>4, Ones, Framing
<1> HIDE DEF B
<1>6. Framed(prepared, C, F, {})
  BY <1>5, FramingNothing
<1> HIDE DEF C
<1>7. \A u \in C : Frame(World, u, F, {}) /\ IsWorld(u)
  BY <1>2, <1>6, FrameTrans, FrameWorld DEF Framed
<1>8. PICK u \in C : Latch(u, w)
  BY <1>3, <1>7, LatchedSpec
<1> DEFINE z == [w EXCEPT !.amp.active = w.ok]
<1>9. /\ IsWorld(z) /\ z.chip = w.chip /\ z.ok = w.ok
      /\ \A g \in Flags \ {"active"} : z.amp[g] = w.amp[g]
  BY <1>8 DEF Latch, IsWorld, Flags
<1>10. Step(z, "Playing")
  BY <1>3
<1> HIDE DEF z
<1>11. Frame(World, z, F, {"active", "faulted"})
  BY <1>7, <1>8, <1>9 DEF Frame, Latch
<1>12. \A f \in Fields \ F : z.chip[f] = chip[f]
  BY <1>1, <1>11 DEF Frame
<1>13. /\ z.amp.alive = amp.alive /\ z.amp.validated = amp.validated
       /\ z.amp.initialized = amp.initialized /\ (z.ok \/ z.amp.faulted)
  BY <1>1, <1>8, <1>9, <1>11 DEF Frame, Flags, Latch
<1>14. z.chip.mem = chip.mem /\ z.chip.abused = chip.abused /\ z.chip.core = chip.core
  BY <1>12 DEF Fields
<1>15. Sound(z)
  BY <1>1, <1>9, <1>13, <1>14, SoundWorld DEF Sound
<1>16. Becomes(z) /\ cleanup' = "None"
  BY <1>1, <1>10 DEF Step
<1>17. CASE z.ok
  <2>1. stage' = "Playing"
    BY <1>10, <1>17 DEF Step
  <2>2. InPlace'
    BY <2>1 DEF InPlace
  <2>3. Configured(z.chip) /\ z.chip.key = "Locked" /\ (z.chip.core = "On" => z.amp.alive)
    BY <1>1, <1>12, <1>13, <1>14 DEF Steady, Up, Configured, Fields
  <2>4. z.amp.initialized => z.chip.boost = TRUE /\ z.chip.route = "Dsp"
    BY <1>1, <1>12, <1>13 DEF Set, Fields
  <2> QED
    BY <1>15, <1>16, <2>1, <2>2, <2>3, <2>4, SteadyInv
<1>18. CASE ~z.ok
  <2>1. z.amp.faulted /\ stage' \in {"Failing", "Faulted"}
    BY <1>10, <1>13, <1>18 DEF Step
  <2> QED
    BY <1>15, <1>16, <2>1, FailedInv
<1> QED
  BY <1>17, <1>18

\* Playback has been stopped, and the chip read back; or there is a fault.
LEMMA StopInv == ASSUME IInv, Stop PROVE IInv'
<1> DEFINE F == {"muted", "power", "output", "key", "supply", "core"}
           G == {"alive", "validated", "active", "faulted"}
<1>1. /\ IsWorld(World) /\ World.chip = chip /\ World.amp = amp /\ stage = "Playing"
      /\ cleanup = "None" /\ Steady /\ Set
  BY WorldSpec DEF IInv, Stop, Clean, Up
<1>2. PICK w \in Latched(StopPlayback(World)) : Step(w, "Ready")
  BY DEF Stop
<1>3. \A u \in StopPlayback(World) :
        /\ Frame(World, u, F, G) /\ IsWorld(u) /\ Paused(World, u)
        /\ u.ok => /\ u.amp.faulted => amp.faulted
                   /\ u.chip.key \in {chip.key, "Locked"}
                   /\ Switched => u.chip.supply = "Off"
                   /\ ~u.chip.power /\ ~u.chip.output /\ u.chip.muted
        /\ amp.faulted => u.amp.faulted
  BY <1>1, StopPlaybackSpec, FrameWorld
<1>4. PICK u \in StopPlayback(World) : Latch(u, w)
  BY <1>2, <1>3, LatchedSpec
<1>5. /\ Frame(World, u, F, G) /\ Paused(World, u)
      /\ u.ok => /\ u.chip.key \in {chip.key, "Locked"}
                 /\ Switched => u.chip.supply = "Off"
                 /\ ~u.chip.power /\ ~u.chip.output /\ u.chip.muted
      /\ amp.faulted => u.amp.faulted
  BY <1>3
<1>6. Sound(w)
  <2>1. Sound(u)
    BY <1>5, SoundWorld, SoundFrame
  <2> QED
    BY <1>4, <2>1, SoundLatch
<1>7. Becomes(w) /\ cleanup' = "None" /\ w.chip = u.chip /\ w.ok = u.ok
  BY <1>1, <1>2, <1>4 DEF Step, Latch
<1>8. CASE w.ok
  <2>1. stage' = "Ready"
    BY <1>2, <1>8 DEF Step
  <2>2. InPlace'
    BY <2>1 DEF InPlace
  <2>3. \A f \in Fields \ F : w.chip[f] = chip[f]
    BY <1>1, <1>5, <1>7 DEF Frame
  <2>4. /\ w.amp.initialized = amp.initialized /\ w.amp.alive = amp.alive
        /\ w.chip.core = chip.core /\ (~w.amp.faulted => ~amp.faulted)
    BY <1>1, <1>4, <1>5, <1>7, <1>8 DEF Frame, Latch, Flags, Paused
  <2>5. ~w.amp.faulted => Configured(w.chip) /\ (w.chip.core = "On" => w.amp.alive)
    BY <1>1, <2>3, <2>4 DEF Steady, Up, Configured, Fields
  <2>6. ~w.amp.faulted => w.chip.key = "Locked" /\ Idle(w.chip) /\ w.chip.muted
    BY <1>1, <1>5, <1>7, <1>8, <2>4 DEF Steady, Up, Idle
  <2>7. ~w.amp.faulted /\ w.amp.initialized => w.chip.boost = TRUE /\ w.chip.route = "Dsp"
    BY <1>1, <2>3, <2>4 DEF Set, Fields
  <2> QED
    BY <1>6, <1>7, <2>1, <2>2, <2>5, <2>6, <2>7, SteadyInv
<1>9. CASE ~w.ok
  <2>1. w.amp.faulted
    BY <1>4, <1>9 DEF Latch
  <2>2. stage' \in {"Failing", "Faulted"}
    BY <1>2, <1>9 DEF Step
  <2> QED
    BY <1>6, <1>7, <2>1, <2>2, FailedInv
<1> QED
  BY <1>8, <1>9

\* A protection fault is latched.
LEMMA HandleInterruptInv == ASSUME IInv, HandleInterrupt PROVE IInv'
<1> DEFINE w == [World EXCEPT !.amp.faulted = TRUE, !.faults = faults + 1, !.ok = FALSE]
<1>1. IsWorld(World) /\ Sound(World)
  BY WorldSpec, SoundWorld DEF IInv
<1>2. /\ IsWorld(w) /\ w.chip = World.chip /\ w.ok = FALSE /\ w.amp.faulted = TRUE
      /\ w.amp.alive = World.amp.alive /\ w.amp.validated = World.amp.validated
  BY <1>1 DEF IsWorld, Flags
<1>3. Step(w, stage)
  BY DEF HandleInterrupt
<1> HIDE DEF w
<1>4. Sound(w)
  BY <1>1, <1>2 DEF Sound
<1>5. Becomes(w) /\ stage' \in {"Failing", "Faulted"} /\ cleanup' = cleanup
  BY <1>2, <1>3 DEF Step
<1>6. cleanup = "None"
  BY DEF HandleInterrupt, IInv, Clean, Up
<1> QED
  BY <1>2, <1>4, <1>5, <1>6, FailedInv

\* A suspended amplifier is brought up again from the beginning.
LEMMA ResumeInv == ASSUME IInv, Resume PROVE IInv'
<1>1. /\ stage = "Suspended" /\ stage' = "Detached"
      /\ UNCHANGED <<board, chip, amp, down, faults, up, touched, cleanup>>
  BY DEF Resume
<1>2. Shapes' /\ Memory' /\ Runs' /\ Set'
  BY <1>1 DEF IInv, Shapes, Stages, IsChip, Memory, Runs, Calibrated, Set, Configured
<1>3. InPlace' /\ Steady'
  BY <1>1 DEF InPlace, Steady, Up
<1>4. Clean'
  BY <1>1 DEF IInv, Clean, Up, Quiet, Switched
<1> QED
  BY <1>2, <1>3, <1>4 DEF IInv

\* A suspended amplifier has nothing to lose with its power.
LEMMA PowerCutInv == ASSUME IInv, PowerCut PROVE IInv'
<1>1. /\ stage = "Suspended" /\ stage' = "Suspended" /\ amp' = amp /\ board' = board
      /\ chip' = [Fresh EXCEPT !.abused = chip.abused]
      /\ ~amp.alive /\ ~amp.initialized /\ cleanup' = cleanup
  BY DEF PowerCut, IInv, InPlace
<1>2. /\ IsChip(chip') /\ chip'.abused = chip.abused /\ chip'.mem[Calibration] = "Old"
      /\ chip'.core = "Off" /\ chip'.power = FALSE /\ chip'.output = FALSE
      /\ chip'.supply = "Off"
  BY <1>1 DEF Fresh, IsChip, Fields, Memories, Calibration
<1>3. Shapes'
  BY <1>1, <1>2 DEF IInv, Shapes, Stages
<1>4. Memory' /\ Runs' /\ Set'
  BY <1>1, <1>2 DEF IInv, Memory, Runs, Set
<1>5. InPlace' /\ Steady' /\ Clean'
  BY <1>1, <1>2 DEF InPlace, Steady, Clean, Up, Quiet
<1> QED
  BY <1>3, <1>4, <1>5 DEF IInv

\* The codec's identity is nobody's but the next look-up's.
LEMMA PublishInv == ASSUME IInv, Publish PROVE IInv'
<1>1. PICK id \in {"Board", "Other"} : board' = [board EXCEPT !.codec = id]
  BY DEF Publish
<1>2. UNCHANGED <<chip, amp, down, faults, up, stage, touched, cleanup>>
  BY DEF Publish
<1>3. /\ DOMAIN board' = DOMAIN board /\ board'.topology = board.topology
      /\ board'.records = board.records
  BY <1>1 DEF IInv, Shapes
<1>4. Shapes' /\ Memory' /\ InPlace'
  BY <1>2, <1>3 DEF IInv, Shapes, IsChip, Memory, InPlace, Positioned
<1>5. Runs' /\ Set'
  BY <1>2, <1>3 DEF IInv, Runs, Calibrated, Set, Configured
<1>6. Steady' /\ Clean'
  BY <1>2, <1>3 DEF IInv, Steady, Clean, Up, Configured, Quiet, Switched
<1> QED
  BY <1>4, <1>5, <1>6 DEF IInv

\* A step that changes nothing keeps the invariant.
LEMMA StutterInv == ASSUME IInv, UNCHANGED vars PROVE IInv'
BY DEF IInv, Shapes, IsChip, Memory, InPlace, Positioned, Runs, Calibrated, Set, Configured,
       Steady, Clean, Up, Quiet, Switched, vars

\* A chip that has lost its power, and one that another system left playing.
LEMMA InitInv == Init => IInv
<1> SUFFICES ASSUME Init PROVE IInv
  OBVIOUS
<1>1. chip \in {Fresh, Inherited} /\ stage = "Detached" /\ cleanup = "None" /\ board \in Boards
      /\ amp = [present |-> TRUE, initialized |-> FALSE, validated |-> FALSE,
                alive |-> FALSE, active |-> FALSE, faulted |-> FALSE, pending |-> FALSE]
  BY DEF Init
<1>2. /\ DOMAIN Fresh = Fields /\ DOMAIN Fresh.mem = Memories /\ Fresh.abused = FALSE
      /\ Fresh.mem[Calibration] = "Old"
  BY DEF Fresh, Fields, Memories, Calibration
<1>3. /\ DOMAIN Inherited = Fields /\ Inherited.mem = Fresh.mem /\ Inherited.abused = FALSE
  BY <1>2 DEF Inherited, Fields
<1>4. IsChip(chip) /\ ~chip.abused /\ chip.mem[Calibration] = "Old"
  BY <1>1, <1>2, <1>3 DEF IsChip
<1>5. /\ DOMAIN board = {"binding", "controller", "codec", "topology", "records",
                         "permitted", "speaker", "defect"}
      /\ board.topology \in {"Fixed", "Internal", "Switched"} /\ board.records \in Records
  BY <1>1 DEF Boards, Records
<1>6. Shapes
  BY <1>1, <1>4, <1>5 DEF Shapes, Stages, Flags
<1>7. Memory /\ Runs /\ Set
  BY <1>1, <1>4 DEF Memory, Runs, Set
<1>8. InPlace /\ Steady /\ Clean
  BY <1>1 DEF InPlace, Steady, Clean, Up
<1> QED
  BY <1>6, <1>7, <1>8 DEF IInv

-----------------------------------------------------------------------------
(* The theorems *)

\* Every hook, whatever fails in it, leaves the amplifier in order for the next:
\* the upload under a stopped core, trust only in what runs, a steady chip or a
\* latched fault, a shutdown that is one (AmplifierLifecycle.cpp with the hooks
\* of CS35L41Driver.cpp).
THEOREM BringUpInvariant == Spec => []IInv
<1>1. Init => IInv
  BY InitInv
<1>2. IInv /\ [Next]_vars => IInv'
  <2> SUFFICES ASSUME IInv, [Next]_vars PROVE IInv'
    OBVIOUS
  <2>1. CASE Identify
    BY <2>1, IdentifyInv
  <2>2. CASE AuthorizeBoard
    BY <2>2, AuthorizeBoardInv
  <2>3. CASE Initialize
    BY <2>3, InitializeInv
  <2>4. CASE LoadFirmware
    BY <2>4, LoadFirmwareInv
  <2>5. CASE Upload
    BY <2>5, UploadInv
  <2>6. CASE Boot
    BY <2>6, BootInv
  <2>7. CASE Verify
    BY <2>7, VerifyInv
  <2>8. CASE Fail
    BY <2>8, FailInv
  <2>9. CASE Start
    BY <2>9, StartInv
  <2>10. CASE Stop
    BY <2>10, StopInv
  <2>11. CASE HandleInterrupt
    BY <2>11, HandleInterruptInv
  <2>12. CASE Suspend
    BY <2>12, LeaveToInv DEF Suspend
  <2>13. CASE Detach
    BY <2>13, LeaveToInv DEF Detach
  <2>14. CASE Resume
    BY <2>14, ResumeInv
  <2>15. CASE PowerCut
    BY <2>15, PowerCutInv
  <2>16. CASE RetryBringUp
    BY <2>16, RetryBringUpInv
  <2>17. CASE Publish
    BY <2>17, PublishInv
  <2>18. CASE UNCHANGED vars
    BY <2>18, StutterInv
  <2> QED
    BY <2>1, <2>2, <2>3, <2>4, <2>5, <2>6, <2>7, <2>8, <2>9, <2>10, <2>11, <2>12, <2>13,
       <2>14, <2>15, <2>16, <2>17, <2>18 DEF Next
<1> QED
  BY <1>1, <1>2, PTL DEF Spec

\* The supply is off when the silicon is reset, and the core is stopped when its
\* memory is written, whatever failed before (CS35L41Hardware.cpp:38-42,
\* CS35L41Firmware.cpp:33-37).
THEOREM SiliconOrderHolds == Spec => []SiliconOrder
<1>1. IInv => SiliconOrder
  BY DEF IInv, Memory, SiliconOrder
<1> QED
  BY <1>1, BringUpInvariant, PTL

\* A DSP reported ready runs a complete and calibrated image, and an amplifier
\* that is initialized has been configured (CS35L41Firmware.cpp:18-236,
\* CS35L41Driver.cpp:130-153).
THEOREM ReadyIsTrueHolds == Spec => []ReadyIsTrue
<1>1. IInv => ReadyIsTrue
  BY DEF IInv, Runs, Calibrated, Set, Configured, ReadyIsTrue
<1> QED
  BY <1>1, BringUpInvariant, PTL

\* Whatever fails, the amplifier is quiet where it rests, or a fault or an
\* unclean shutdown is reported (CS35L41Driver.cpp:155-183,
\* CS35L41Playback.cpp:52-143).
THEOREM QuietOrReportedHolds == Spec => []QuietOrReported
<1>1. IInv => QuietOrReported
  BY DEF IInv, Steady, Clean, Up, QuietOrReported
<1> QED
  BY <1>1, BringUpInvariant, PTL
=============================================================================
