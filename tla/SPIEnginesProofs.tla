-------------------------- MODULE SPIEnginesProofs --------------------------
(***************************************************************************)
(* Proofs, for every set of devices, every length of a frame, every window *)
(* and every depth of the FIFO, that the SPI engines keep their types,     *)
(* lose no byte to an overrun and implement the contract of                *)
(* SPIController.hpp.                                                      *)
(*                                                                         *)
(* The inductive invariant IInv has four parts: the types (Types), where   *)
(* the engine is in a request (Flow), and what holds between an engine and *)
(* its hardware at each place of a frame, for the Intel engine (Fifos,     *)
(* Selects, Moving, Ending) and for the AMD engine (Commanding).           *)
(***************************************************************************)
EXTENDS SPIEngines, SequenceTheorems, TLAPS

\* The sequence from + 1, from + 2, ...
Counts(s, from) == s \in Seq(Nat) /\ \A i \in 1 .. Len(s) : s[i] = from + i

Selected == IF kind = "LPSS" THEN LPSSSelected ELSE AMDSelected

LPSSPlaces == {"Idle", "Begin", "Configure", "Program", "Assert", "Transfer",
               "Fill", "WaitIdle", "Stop", "Release", "Drain"}
AMDPlaces == {"Idle", "Begin", "Start", "Poll"}

\* The places of a frame before its device is selected, with its bytes on the
\* way, and at its end.
Before == {"Idle", "Begin", "Configure", "Program", "Assert", "Start"}
Middle == {"Transfer", "Fill", "WaitIdle"}
After == {"Stop", "Release", "Drain"}

Results == {"Success"} \cup Contract!Errors

Registers == [ready: BOOLEAN, enabled: BOOLEAN, native: BOOLEAN,
              mux: Devices \cup {"None"}, err: BOOLEAN, overrun: BOOLEAN,
              tx: Seq(Nat), rx: Seq(Nat)]

Command == [cs: Devices \cup {"None"}, fifo: [Positions -> 0 .. 2 * MaxBytes],
            opcode: Nat, tx: Nat, rx: Nat, busy: BOOLEAN, done: Nat]

FrameTypes ==
    /\ kind \in {"LPSS", "AMD"}
    /\ eng \in [initialized: BOOLEAN, online: BOOLEAN, touched: BOOLEAN]
    /\ pc \in IF kind = "LPSS" THEN LPSSPlaces ELSE AMDPlaces
    /\ request \in Requests \cup {NoRequest} /\ left \in 0 .. 2
    /\ ret \in Results /\ result \in Results
    /\ polls \in 0 .. 4 * MaxBytes + PollSlack
    /\ framed \in BOOLEAN /\ gone \in BOOLEAN /\ faults \in 0 .. MaxFaults
    /\ stuck \in SUBSET Devices
    /\ got \in Seq(Nat) /\ Len(got) <= 2 * MaxBytes
    /\ Counts(wire, 0) /\ Len(wire) <= 2 * MaxBytes
    /\ buffer \in Seq(Nat) /\ Len(buffer) <= MaxBytes

LPSSTypes ==
    /\ sent \in 0 .. 2 * MaxBytes /\ status \in Status
    /\ lines \in [External -> BOOLEAN] /\ asserted \in BOOLEAN
    /\ lp \in Registers

Types == FrameTypes /\ LPSSTypes /\ am \in Command

Flow ==
    /\ pc = "Idle" => request = NoRequest /\ left = 0
    /\ pc # "Idle" => request \in Requests /\ left \in 1 .. request.frames
    /\ pc \in Before => ~framed /\ wire = <<>> /\ got = <<>> /\ result = "Success"

\* The FIFOs never hold more than the receiver can take.
Fifos == Len(lp.tx) + Len(lp.rx) <= FifoDepth /\ ~lp.overrun

\* What is selected besides the device of the frame was so when it began, and
\* that device is so by the select it has.
Selects ==
    /\ LPSSSelected \subseteq stuck \cup IF pc \in Before THEN {} ELSE {request.dev}
    /\ asserted => pc \notin Before /\ request.dev \in External
    /\ pc \in {"Program", "Assert"} =>
          /\ ~lp.native
          /\ lp.mux = IF request.dev \in External THEN "None" ELSE request.dev
    /\ framed => (asserted <=> request.dev \in External)
    /\ ~asserted /\ request.dev \in External \cap LPSSSelected
          => request.dev \in stuck

\* The bytes of a frame are in lp.tx, on the wire, in lp.rx and in got, in
\* this order and each in one place; an enabled function that is not in a
\* frame would send what was left in lp.tx.
Moving ==
    /\ lp.enabled /\ ~gone =>
          /\ pc \in {"Assert", "Stop"} \cup Middle
          /\ Counts(lp.tx, Len(wire)) /\ Len(wire) + Len(lp.tx) = sent
          /\ lp.tx # <<>> => framed /\ request.dev \in LPSSSelected
    /\ pc \in {"Assert"} \cup Middle /\ ~gone => lp.enabled
    /\ pc \in {"Program", "Assert"} /\ ~gone => lp.tx = <<>> /\ lp.rx = <<>>
    /\ pc \in Before => sent = 0
    /\ pc \in Middle =>
          /\ framed /\ request.dev \in LPSSSelected
          /\ sent <= Length /\ Len(got) <= Length
          /\ pc = "WaitIdle" <=> Len(got) = Length
    /\ pc \in Middle /\ ~gone =>
          /\ Counts(got, 0) /\ Counts(lp.rx, Len(got))
          /\ Len(got) + Len(lp.rx) = Len(wire) /\ sent - Len(got) <= Outstanding
          /\ pc = "Fill" /\ status.rx => lp.rx # <<>>

\* A frame on its way to success has moved all its bytes, and lets its select
\* go; one that does not ends offline.
Ending ==
    pc \in After =>
       /\ result = "Success" =>
             /\ framed /\ Len(wire) = Length
             /\ Counts(got, 0) /\ Len(got) = Length
             /\ pc = "Stop" => lp.tx = <<>>
       /\ pc # "Stop" /\ (eng.online \/ result = "Success") => ~lp.native
       /\ pc = "Drain" /\ asserted /\ (eng.online \/ result = "Success")
             => ~lines[request.dev]

\* The FIFO of a running command: its bytes, then the answers so far.
Commanding ==
    /\ pc \in {"Idle", "Begin"} => AMDSelected \subseteq stuck
    /\ am.busy => am.cs \in Devices /\ am.tx + am.rx < 2 * MaxBytes
    /\ pc = "Start" => ~am.busy
    /\ pc \in {"Start", "Poll"} => polls >= 1
    /\ pc = "Poll" /\ ~framed => gone /\ ~am.busy
    /\ pc = "Poll" /\ framed =>
          /\ am.cs = request.dev /\ am.opcode = 1
          /\ am.tx = request.tx - 1 /\ am.rx = request.rx
          /\ Len(wire) = am.done /\ am.done <= Length
          /\ ~am.busy => am.done = Length
          /\ \A i \in 1 .. request.tx - 1 : am.fifo[i] = i + 1
          /\ \A i \in request.tx .. am.done - 1 : am.fifo[i] = i + 1

IInv ==
    /\ Types /\ Flow /\ Fifos
    /\ kind = "LPSS" => Selects /\ Moving /\ Ending
    /\ kind = "AMD" => Commanding

-----------------------------------------------------------------------------
(* Numbered sequences *)

LEMMA CountsEmpty ==
  ASSUME NEW k \in Nat
  PROVE  Counts(<<>>, k) /\ Len(<<>>) = 0
BY DEF Counts

LEMMA CountsAppend ==
  ASSUME NEW k \in Nat, NEW s, Counts(s, k), NEW e, e = k + Len(s) + 1
  PROVE  Counts(Append(s, e), k) /\ Len(Append(s, e)) = Len(s) + 1
<1>1. s \in Seq(Nat) /\ Len(s) \in Nat /\ e \in Nat
  BY DEF Counts
<1>2. /\ Append(s, e) \in Seq(Nat) /\ Len(Append(s, e)) = Len(s) + 1
      /\ \A i \in 1 .. Len(s) : Append(s, e)[i] = s[i]
      /\ Append(s, e)[Len(s) + 1] = e
  BY <1>1, AppendProperties
<1> QED BY <1>1, <1>2 DEF Counts

LEMMA CountsTail ==
  ASSUME NEW k \in Nat, NEW s, Counts(s, k), s # <<>>
  PROVE  Head(s) = k + 1 /\ Counts(Tail(s), k + 1) /\ Len(Tail(s)) = Len(s) - 1
<1>1. s \in Seq(Nat) /\ Len(s) \in Nat \ {0}
  BY EmptySeq DEF Counts
<1>2. /\ Tail(s) \in Seq(Nat) /\ Len(Tail(s)) = Len(s) - 1
      /\ \A i \in 1 .. Len(Tail(s)) : Tail(s)[i] = s[i + 1]
  BY <1>1, HeadTailProperties
<1>3. Head(s) = s[1]
  BY <1>1
<1> QED BY <1>1, <1>2, <1>3 DEF Counts

LEMMA NumberedCounts ==
  ASSUME NEW n \in Nat, NEW k \in Nat
  PROVE  Counts(Contract!Numbered(n, k), k) /\ Len(Contract!Numbered(n, k)) = n
<1> DEFINE s == Contract!Numbered(n, k)
<1>1. s \in [1 .. n -> Nat]
  BY DEF Contract!Numbered
<1>2. s \in Seq(Nat)
  BY <1>1, SeqDef
<1>3. DOMAIN s = 1 .. Len(s) /\ DOMAIN s = 1 .. n /\ Len(s) \in Nat
  BY <1>1, <1>2, LenProperties
<1>4. \A i \in 1 .. n : s[i] = k + i
  BY DEF Contract!Numbered
<1> HIDE DEF s
<1>5. ASSUME NEW l \in Nat, 1 .. l = 1 .. n PROVE l = n
  <2>1. l \in 1 .. n \/ l = 0
    BY <1>5
  <2>2. n \in 1 .. l \/ n = 0
    BY <1>5
  <2> QED BY <2>1, <2>2
<1>6. Len(s) = n
  BY <1>3, <1>5
<1>7. Counts(s, k)
  BY <1>2, <1>4, <1>6 DEF Counts
<1> QED BY <1>6, <1>7 DEF s

LEMMA CountsIsNumbered ==
  ASSUME NEW k \in Nat, NEW s, Counts(s, k)
  PROVE  s = Contract!Numbered(Len(s), k)
<1> DEFINE t == Contract!Numbered(Len(s), k)
<1>1. s \in Seq(Nat) /\ Len(s) \in Nat
  BY DEF Counts
<1>2. Counts(t, k) /\ Len(t) = Len(s)
  BY <1>1, NumberedCounts
<1>3. t \in Seq(Nat) /\ \A i \in 1 .. Len(s) : s[i] = t[i]
  BY <1>2 DEF Counts
<1> HIDE DEF t
<1>4. s = t
  BY <1>1, <1>2, <1>3, SeqEqual
<1> QED BY <1>4 DEF t

LEMMA CountsSubSeq ==
  ASSUME NEW s, Counts(s, 0), NEW m \in 0 .. Len(s)
  PROVE  SubSeq(s, m + 1, Len(s)) = Contract!Numbered(Len(s) - m, m)
<1> DEFINE t == SubSeq(s, m + 1, Len(s))
<1>1. s \in Seq(Nat) /\ Len(s) \in Nat /\ \A i \in 1 .. Len(s) : s[i] \in Nat /\ s[i] = i
  BY DEF Counts
<1>2. m + 1 \in Int /\ Len(s) \in Int /\ \A i \in (m + 1) .. Len(s) : s[i] \in Nat
  BY <1>1
<1>3. /\ t \in Seq(Nat) /\ Len(t) = IF m + 1 <= Len(s) THEN Len(s) - (m + 1) + 1 ELSE 0
      /\ \A i \in 1 .. Len(s) - (m + 1) + 1 : t[i] = s[(m + 1) + i - 1]
  BY ONLY <1>2, SubSeqProperties
<1> HIDE DEF t
<1>4. Len(t) = Len(s) - m
  BY <1>1, <1>3
<1>5. \A i \in 1 .. Len(t) : t[i] = m + i
  BY <1>1, <1>3, <1>4
<1>6. Counts(t, m)
  BY <1>3, <1>5 DEF Counts
<1>7. t = Contract!Numbered(Len(t), m)
  BY <1>6, CountsIsNumbered
<1> QED BY <1>4, <1>7 DEF t

-----------------------------------------------------------------------------
(* How the engines' selects appear to the contract *)

Step == [Contract!Next]_Contract!vars

LEMMA SelectedStays ==
  ASSUME lp'.native = lp.native, lp'.mux = lp.mux, lines' = lines
  PROVE  LPSSSelected' = LPSSSelected
BY DEF LPSSSelected

LEMMA Hidden ==
  ASSUME UNCHANGED <<kind, request, left, ret, buffer, stuck, framed, wire>>,
         eng'.online = eng.online, Selected' = Selected
  PROVE  Step
BY DEF Step, Contract!vars, Selected

LEMMA Releasing ==
  ASSUME UNCHANGED <<kind, request, left, ret, buffer, stuck, framed, wire>>,
         eng'.online => eng.online \/ request = NoRequest,
         Selected' \subseteq Selected
  PROVE  Step
BY DEF Step, Contract!Next, Contract!Release, Selected, NoRequest, Contract!NoRequest

LEMMA NothingMoved ==
  ASSUME UNCHANGED <<kind, lpss, am>>
  PROVE  LPSSSelected' = LPSSSelected /\ AMDSelected' = AMDSelected
         /\ Selected' = Selected
<1>1. LPSSSelected' = LPSSSelected
  BY SelectedStays DEF lpss
<1> QED BY <1>1 DEF AMDSelected, Selected

LEMMA ARequest ==
  ASSUME NEW r \in Requests
  PROVE  /\ r.dev \in Devices /\ r.tx \in 1 .. MaxBytes /\ r.rx \in 0 .. MaxBytes
         /\ r.frames \in 1 .. 2 /\ r # NoRequest
         /\ r.tx + r.rx \in 1 .. 2 * MaxBytes
BY FramesAssumption DEF Requests, NoRequest

\* A frame that ends leaves the engine between two frames, or at rest.
LEMMA FrameEnds ==
  ASSUME Types, Flow, pc # "Idle", NEW r \in Results, NEW active \in SUBSET Devices,
         EndFrame(r, active), UNCHANGED <<kind, gone>>,
         eng' \in [initialized: BOOLEAN, online: BOOLEAN, touched: BOOLEAN],
         faults' \in 0 .. MaxFaults,
         buffer' \in Seq(Nat), Len(buffer') <= MaxBytes
  PROVE  FrameTypes' /\ Flow' /\ pc' \in {"Idle", "Begin"} /\ framed' = FALSE
<1>1. request \in Requests /\ left \in 1 .. request.frames /\ request.frames \in 1 .. 2
  BY ARequest DEF Flow
<1>2. left' = left - 1 /\ left' \in 0 .. request.frames /\ left' \in 0 .. 2
  BY <1>1 DEF EndFrame
<1>3. /\ pc' = IF left' = 0 THEN "Idle" ELSE "Begin"
      /\ request' = IF left' = 0 THEN NoRequest ELSE request
      /\ result' = "Success" /\ polls' = 0 /\ got' = <<>>
      /\ framed' = FALSE /\ wire' = <<>> /\ stuck' = active
      /\ ret' \in Results
  BY DEF EndFrame, Types, FrameTypes
<1>4. pc' \in {"Idle", "Begin"}
  BY <1>3
<1>5. Flow'
  BY <1>1, <1>2, <1>3 DEF Flow, Before
<1>6. Counts(wire', 0) /\ Len(wire') = 0 /\ got' \in Seq(Nat) /\ Len(got') = 0
  BY <1>3, CountsEmpty DEF Counts
<1>7. 0 \in 0 .. 4 * MaxBytes + PollSlack /\ "Success" \in Results
  BY FramesAssumption DEF Results
<1>8. FrameTypes'
  <2>1. kind' \in {"LPSS", "AMD"} /\ pc' \in IF kind' = "LPSS" THEN LPSSPlaces ELSE AMDPlaces
    BY <1>4 DEF Types, FrameTypes, LPSSPlaces, AMDPlaces
  <2>2. request' \in Requests \cup {NoRequest} /\ framed' \in BOOLEAN /\ gone' \in BOOLEAN
    BY <1>1, <1>3 DEF Types, FrameTypes
  <2>3. Len(got') <= 2 * MaxBytes /\ Len(wire') <= 2 * MaxBytes
    BY <1>6, FramesAssumption
  <2> QED BY <1>2, <1>3, <1>6, <1>7, <2>1, <2>2, <2>3 DEF FrameTypes
<1> QED BY <1>3, <1>4, <1>5, <1>8

\* Its end is the end the contract allows.
LEMMA FrameEndsWell ==
  ASSUME Types, Flow, pc # "Idle", NEW r \in Results, EndFrame(r, Selected),
         Selected' = Selected, eng'.online => eng.online,
         r = "Success" => /\ Contract!Complete
                          /\ buffer' = Contract!Numbered(request.rx, request.tx),
         r # "Success" => /\ request.dev \in Selected \ stuck => ~eng'.online
                          /\ buffer' = buffer
  PROVE  Step
<1>1. request # Contract!NoRequest
  BY ARequest DEF Flow, NoRequest, Contract!NoRequest
<1>2. request' = IF left' = 0 THEN Contract!NoRequest ELSE request
  BY DEF EndFrame, NoRequest, Contract!NoRequest
<1>3. Contract!EndFrame
  BY <1>1, <1>2 DEF Contract!EndFrame, EndFrame, Results, Selected
<1> QED BY <1>3 DEF Step, Contract!Next

\* What a frame that has just ended, or not begun, leaves of the invariant.
LEMMA LPSSAtRest ==
  ASSUME kind' = "LPSS", Types', Flow', Fifos', pc' \in {"Idle", "Begin"}, framed' = FALSE,
         LPSSSelected' \subseteq stuck', asserted' = FALSE, sent' = 0,
         lp'.enabled => gone'
  PROVE  IInv'
<1>1. Selects'
  BY DEF Selects, Before
<1>2. Moving'
  BY DEF Moving, Before, Middle
<1>3. Ending'
  BY DEF Ending, After
<1> QED BY <1>1, <1>2, <1>3 DEF IInv

\* What it found there.
LEMMA LPSSRests ==
  ASSUME IInv, kind = "LPSS", pc \in {"Idle", "Begin"}
  PROVE  /\ LPSSSelected \subseteq stuck /\ asserted = FALSE /\ sent = 0
         /\ framed = FALSE /\ (lp.enabled => gone)
<1>1. pc \in Before /\ pc \notin {"Assert", "Stop"} \cup Middle
  BY DEF Before, Middle
<1> QED BY <1>1 DEF IInv, Types, FrameTypes, LPSSTypes, Flow, Selects, Moving

-----------------------------------------------------------------------------
(* The caller, and the function that leaves *)

LEMMA AskStep ==
  ASSUME IInv, Ask, UNCHANGED <<lpss, am>>
  PROVE  IInv' /\ Step
<1>1. /\ pc = "Idle" /\ pc' = "Begin" /\ request' \in Requests
      /\ left' = request'.frames /\ ret' = "Success" /\ buffer' = <<>>
      /\ UNCHANGED <<kind, eng, result, polls, got, stuck, framed, wire, gone, faults>>
      /\ UNCHANGED <<lp, lines, asserted, sent, status, am>>
  BY DEF Ask, lpss
<1>2. request'.frames \in 1 .. 2
  BY <1>1, ARequest
<1>3. buffer' \in Seq(Nat) /\ Len(buffer') <= MaxBytes
  BY <1>1, EmptySeq, FramesAssumption
<1>4. Types'
  BY <1>1, <1>2, <1>3 DEF IInv, Types, FrameTypes, LPSSTypes, LPSSPlaces, AMDPlaces, Results
<1>5. Flow'
  BY <1>1, <1>2 DEF IInv, Flow, Before
<1>6. LPSSSelected' = LPSSSelected /\ AMDSelected' = AMDSelected /\ Selected' = Selected
  BY NothingMoved, <1>1 DEF lpss
<1>7. Fifos'
  BY <1>1 DEF IInv, Fifos
<1>8. kind = "LPSS" => IInv'
  BY <1>1, <1>4, <1>5, <1>6, <1>7, LPSSRests, LPSSAtRest
<1>9. kind = "AMD" => Commanding'
  BY <1>1, <1>6 DEF IInv, Commanding
<1>10. Contract!Ask
  BY <1>1, <1>6 DEF Contract!Ask, Selected, IInv, Flow, NoRequest, Contract!NoRequest
<1> QED BY <1>1, <1>4, <1>5, <1>7, <1>8, <1>9, <1>10 DEF IInv, Step, Contract!Next

LEMMA RefuseStep ==
  ASSUME IInv, Refuse, UNCHANGED <<lpss, am>>
  PROVE  IInv' /\ Step
<1>1. /\ pc = "Begin" /\ pc' = "Idle" /\ request' = NoRequest
      /\ left = request.frames /\ left' = 0 /\ ret' \in Contract!Errors
      /\ UNCHANGED <<kind, eng, result, polls, got, buffer, stuck, framed, wire, gone, faults>>
      /\ UNCHANGED <<lp, lines, asserted, sent, status, am>>
  BY DEF Refuse, lpss, Contract!Errors
<1>2. request \in Requests /\ request # NoRequest /\ ~framed
  BY <1>1, ARequest DEF IInv, Flow, Before
<1>3. Types'
  BY <1>1 DEF IInv, Types, FrameTypes, LPSSTypes, LPSSPlaces, AMDPlaces, Results
<1>4. Flow' /\ Fifos'
  BY <1>1 DEF IInv, Flow, Fifos, Before
<1>5. LPSSSelected' = LPSSSelected /\ AMDSelected' = AMDSelected /\ Selected' = Selected
  BY NothingMoved, <1>1 DEF lpss
<1>6. kind = "LPSS" => IInv'
  BY <1>1, <1>3, <1>4, <1>5, LPSSRests, LPSSAtRest
<1>7. kind = "AMD" => Commanding'
  BY <1>1, <1>5 DEF IInv, Commanding
<1>8. Contract!Refuse
  BY <1>1, <1>2, <1>5 DEF Contract!Refuse, Selected, NoRequest, Contract!NoRequest
<1> QED BY <1>1, <1>3, <1>4, <1>6, <1>7, <1>8 DEF IInv, Step, Contract!Next

LEMMA VanishStep ==
  ASSUME IInv, Vanish, UNCHANGED <<lpss, am>>
  PROVE  IInv' /\ Step
<1>1. /\ ~gone /\ gone' = TRUE /\ faults < MaxFaults /\ faults' = faults + 1
      /\ UNCHANGED <<kind, eng, pc, request, left, ret, result, polls, got, buffer, stuck, framed, wire>>
      /\ UNCHANGED <<lp, lines, asserted, sent, status, am>>
  BY DEF Vanish, Faulty, frame, lpss
<1>2. Types'
  BY <1>1, FramesAssumption DEF IInv, Types, FrameTypes, LPSSTypes
<1>3. Flow' /\ Fifos'
  BY <1>1 DEF IInv, Flow, Fifos
<1>4. LPSSSelected' = LPSSSelected /\ AMDSelected' = AMDSelected /\ Selected' = Selected
  BY NothingMoved, <1>1 DEF lpss
<1>5. Length' = Length
  BY <1>1 DEF Length
<1>6. kind = "LPSS" => Selects' /\ Moving' /\ Ending'
  BY <1>1, <1>4, <1>5 DEF IInv, Selects, Moving, Ending
<1>7. kind = "AMD" => Commanding'
  BY <1>1, <1>4, <1>5 DEF IInv, Commanding
<1>8. Step
  BY <1>1, <1>4, Hidden
<1> QED BY <1>1, <1>2, <1>3, <1>6, <1>7, <1>8 DEF IInv

-----------------------------------------------------------------------------
(* The Intel engine *)

LEMMA LPSSBeginStep ==
  ASSUME IInv, LPSSBegin, UNCHANGED am
  PROVE  IInv' /\ Step
<1>1. /\ kind = "LPSS" /\ pc = "Begin" /\ request \in Requests /\ ~framed
      /\ UNCHANGED <<kind, buffer, gone, faults, lp, lines, asserted, sent, status, am>>
  BY DEF LPSSBegin, Engine, lpss, IInv, Flow, Before, Goto
<1>2. /\ eng' \in [initialized: BOOLEAN, online: BOOLEAN, touched: BOOLEAN]
      /\ eng'.online => eng.online
  BY DEF LPSSBegin, Offline, IInv, Types, FrameTypes
<1>3. LPSSSelected' = LPSSSelected /\ Selected' = Selected /\ Selected = LPSSSelected
  BY <1>1, NothingMoved DEF lpss, Selected
<1>4. LPSSSelected \in SUBSET Devices /\ LPSSSelected \subseteq stuck
  BY <1>1 DEF LPSSSelected, IInv, Selects, Before
<1>5. CASE pc' = "Configure" /\ eng'.online = eng.online /\ polls' = 2 * Length + PollSlack
           /\ UNCHANGED <<request, left, ret, stuck, wire, result, got, framed>>
  <2>1. 2 * Length + PollSlack \in 0 .. 4 * MaxBytes + PollSlack
    BY <1>1, ARequest, FramesAssumption DEF Length
  <2>2. Types'
    BY <1>1, <1>2, <1>5, <2>1 DEF IInv, Types, FrameTypes, LPSSTypes, LPSSPlaces
  <2>3. Flow' /\ Fifos'
    BY <1>1, <1>5 DEF IInv, Flow, Fifos, Before
  <2>4. Selects' /\ Moving' /\ Ending'
    BY <1>1, <1>3, <1>5 DEF IInv, Selects, Moving, Ending, Before, Middle, After
  <2>5. Step
    BY <1>1, <1>3, <1>5, Hidden
  <2> QED BY <1>1, <2>2, <2>3, <2>4, <2>5 DEF IInv
<1>6. CASE \E r \in Contract!Errors : EndFrame(r, LPSSSelected)
  <2>1. PICK r \in Contract!Errors : EndFrame(r, LPSSSelected)
    BY <1>6
  <2>2. r \in Results /\ r # "Success"
    BY DEF Results, Contract!Errors
  <2>3. FrameTypes' /\ Flow' /\ pc' \in {"Idle", "Begin"} /\ framed' = FALSE
    BY <1>1, <1>2, <1>4, <2>1, <2>2, FrameEnds DEF IInv, Types, FrameTypes
  <2>4. Types' /\ Fifos'
    BY <1>1, <2>3 DEF IInv, Types, LPSSTypes, Fifos
  <2>5. stuck' = LPSSSelected
    BY <2>1 DEF EndFrame
  <2>6. IInv'
    BY <1>1, <1>3, <2>3, <2>4, <2>5, LPSSRests, LPSSAtRest
  <2>7. Step
    BY <1>1, <1>2, <1>3, <1>4, <2>1, <2>2, FrameEndsWell DEF IInv
  <2> QED BY <2>6, <2>7
<1>7. ASSUME pc' # "Configure" \/ ~(eng.online /\ HardwareReady)
      PROVE  \E r \in Contract!Errors : EndFrame(r, LPSSSelected)
  BY <1>7 DEF LPSSBegin, Goto, Declined, Contract!Errors
<1>8. ASSUME pc' = "Configure"
      PROVE  /\ eng'.online = eng.online /\ polls' = 2 * Length + PollSlack
             /\ UNCHANGED <<request, left, ret, stuck, wire, result, got, framed>>
  BY <1>8 DEF LPSSBegin, Goto, EndFrame, IInv, Types, FrameTypes
<1> QED BY <1>5, <1>6, <1>7, <1>8

LEMMA Sizes ==
  ASSUME Types
  PROVE  /\ lp.tx \in Seq(Nat) /\ Len(lp.tx) \in Nat /\ (Len(lp.tx) = 0 <=> lp.tx = <<>>)
         /\ lp.rx \in Seq(Nat) /\ Len(lp.rx) \in Nat /\ (Len(lp.rx) = 0 <=> lp.rx = <<>>)
         /\ Len(wire) \in Nat /\ Len(got) \in Nat
         /\ <<>> \in Seq(Nat) /\ Len(<<>>) = 0
BY SMTT(30), EmptySeq DEF Types, FrameTypes, LPSSTypes, Registers, Counts

LEMMA Fewer ==
  ASSUME NEW a \in Nat, NEW b \in Nat, NEW c \in Nat, NEW d \in Nat, NEW n \in Nat,
         a <= c, b <= d, c + d <= n
  PROVE  a + b <= n
OBVIOUS

LEMMA OneRead ==
  ASSUME NEW n \in Nat, NEW a \in Nat, NEW b, a # 0, b = a - 1
  PROVE  b \in Nat /\ n + 1 + b = n + a
OBVIOUS

LEMMA OneMoves ==
  ASSUME NEW n \in Nat, NEW a \in Nat, NEW b, NEW k, a # 0, b = a - 1, n + a = k
  PROVE  n < k /\ n + 1 + b = k
OBVIOUS

LEMMA OneForOne ==
  ASSUME NEW a \in Nat, NEW b \in Nat, NEW n \in Nat, NEW c, NEW d,
         a + b <= n, c = a - 1, d = b + 1
  PROVE  c + d <= n
OBVIOUS

LEMMA OneMore ==
  ASSUME NEW a \in Nat, NEW b \in Nat, NEW c, a + b = c
  PROVE  a + (b + 1) = c + 1 /\ b + 1 # 0
OBVIOUS

LEMMA InFlight ==
  ASSUME NEW a \in Nat, NEW b \in Nat, NEW n \in Nat, NEW m \in Nat, NEW k \in Int,
         NEW o \in Nat, NEW l \in Nat,
         n + b = m, m + a = k, k - n <= o, o <= l
  PROVE  a + b <= l
OBVIOUS

LEMMA InAFrame ==
  ASSUME IInv, pc # "Idle"
  PROVE  /\ request \in Requests /\ request.dev \in Devices /\ request # NoRequest
         /\ request.tx \in 1 .. MaxBytes /\ request.rx \in 0 .. MaxBytes
         /\ Length \in 1 .. 2 * MaxBytes /\ Length = request.tx + request.rx
BY ARequest DEF IInv, Flow, Length

LEMMA ConfigureStep ==
  ASSUME IInv, Configure, UNCHANGED am
  PROVE  IInv' /\ Step
<1> DEFINE dev == IF request.dev \in External THEN "None" ELSE request.dev
<1>1. /\ kind = "LPSS" /\ pc = "Configure" /\ asserted' = FALSE /\ sent' = 0
      /\ UNCHANGED <<kind, request, left, ret, buffer, stuck, wire, gone, am,
                     eng, polls, got, framed, lines, status>>
  BY DEF Configure, Engine, Goto
<1>2. dev \in Devices \cup {"None"}
  BY <1>1, InAFrame
<1>3. \/ /\ gone /\ pc' = "Stop" /\ result' = "NoDevice" /\ lp' = lp /\ faults' = faults
      \/ /\ pc' = "Program" /\ result' = result /\ faults' = faults
         /\ lp' = [lp EXCEPT !.enabled = FALSE, !.native = FALSE, !.tx = <<>>,
                             !.mux = dev, !.rx = <<>>, !.err = FALSE]
      \/ /\ pc' = "Stop" /\ result' = "IOError" /\ Faulty
         /\ lp' = [lp EXCEPT !.enabled = FALSE, !.native = FALSE, !.tx = <<>>, !.mux = dev]
  BY <1>1 DEF Configure, Goto
<1> HIDE DEF dev
<1>4. lp \in Registers /\ <<>> \in Seq(Nat)
  BY Sizes DEF IInv, Types, LPSSTypes
<1>5. /\ lp' \in Registers /\ lp'.overrun = lp.overrun
      /\ \/ gone /\ lp' = lp
         \/ ~lp'.enabled /\ ~lp'.native /\ lp'.mux = dev /\ lp'.tx = <<>>
      /\ lp'.rx = lp.rx \/ lp'.rx = <<>>
      /\ pc' = "Program" => /\ ~lp'.enabled /\ ~lp'.native /\ lp'.mux = dev
                            /\ lp'.tx = <<>> /\ lp'.rx = <<>>
  BY ZenonT(60), <1>2, <1>3, <1>4 DEF Registers
<1>6. Types'
  <2>1. faults' \in 0 .. MaxFaults
    BY <1>3, FramesAssumption DEF IInv, Types, FrameTypes, Faulty
  <2>2. result' \in Results /\ pc' \in LPSSPlaces
    BY <1>3 DEF IInv, Types, FrameTypes, Results, Contract!Errors, LPSSPlaces
  <2>3. FrameTypes'
    BY <1>1, <2>1, <2>2 DEF IInv, Types, FrameTypes
  <2>4. lp' \in Registers /\ 0 \in 0 .. 2 * MaxBytes
    BY <1>5, FramesAssumption
  <2>5. LPSSTypes' /\ am' \in Command
    BY <1>1, <2>4 DEF IInv, Types, LPSSTypes
  <2> QED BY <2>3, <2>5 DEF Types
<1>7. Flow'
  BY <1>1, <1>3 DEF IInv, Flow, Before
<1>8. Fifos'
  <2>1. /\ Len(lp'.tx) \in Nat /\ Len(lp'.tx) <= Len(lp.tx)
        /\ Len(lp'.rx) \in Nat /\ Len(lp'.rx) <= Len(lp.rx)
    BY <1>5, Sizes DEF IInv
  <2>2. Len(lp.tx) \in Nat /\ Len(lp.rx) \in Nat /\ FifoDepth \in Nat
    BY Sizes, LPSSAssumption DEF IInv
  <2>3. Len(lp'.tx) + Len(lp'.rx) <= FifoDepth
    BY <2>1, <2>2, Fewer DEF IInv, Fifos
  <2>4. ~lp'.overrun
    BY <1>5 DEF IInv, Fifos
  <2> QED BY <2>3, <2>4 DEF Fifos
<1>9. LPSSSelected' \subseteq LPSSSelected
  BY <1>1, <1>5 DEF LPSSSelected
<1>10. Selects' /\ Moving' /\ Ending'
  <2>1. Selects'
    BY <1>1, <1>3, <1>5, <1>9 DEF IInv, Selects, Before, dev, Flow
  <2>2. Moving'
    BY <1>1, <1>3, <1>5 DEF Moving, Before, Middle
  <2>3. Ending'
    BY <1>1, <1>3 DEF IInv, Ending, After
  <2> QED BY <2>1, <2>2, <2>3
<1>11. Step
  BY <1>1, <1>9, Releasing DEF Selected
<1> QED BY <1>1, <1>6, <1>7, <1>8, <1>10, <1>11 DEF IInv

LEMMA ProgramStep ==
  ASSUME IInv, Program, UNCHANGED am
  PROVE  IInv' /\ Step
<1>1. /\ kind = "LPSS" /\ pc = "Program"
      /\ UNCHANGED <<kind, request, left, ret, buffer, stuck, wire, gone, am,
                     eng, polls, got, framed, lines, asserted, sent, status>>
      /\ lp' = IF gone THEN lp ELSE [lp EXCEPT !.enabled = TRUE]
  BY DEF Program, Engine, Goto
<1>2. /\ \/ pc' = "Assert" /\ ~gone /\ result' = result
         \/ pc' = "Stop" /\ result' = "IOError"
      /\ faults' = faults \/ Faulty
  BY DEF Program, Goto
<1>3. /\ lp' \in Registers /\ lp'.native = lp.native /\ lp'.mux = lp.mux
      /\ lp'.tx = lp.tx /\ lp'.rx = lp.rx /\ lp'.overrun = lp.overrun
      /\ ~gone => lp'.enabled
  BY <1>1 DEF IInv, Types, LPSSTypes, Registers
<1>4. LPSSSelected' = LPSSSelected
  BY <1>1, <1>3, SelectedStays
<1>5. Types'
  BY SMTT(60), <1>1, <1>2, <1>3, FramesAssumption
     DEF IInv, Types, FrameTypes, LPSSTypes, LPSSPlaces, Faulty, Results, Contract!Errors
<1>6. Flow' /\ Fifos'
  BY <1>1, <1>2, <1>3 DEF IInv, Flow, Fifos, Before
<1>7. Selects'
  BY <1>1, <1>2, <1>3, <1>4 DEF IInv, Selects, Before
<1>8. Moving'
  <2>1. wire = <<>> /\ Len(wire) = 0 /\ sent = 0 /\ (~gone => lp.tx = <<>> /\ lp.rx = <<>>)
    BY <1>1, Sizes DEF IInv, Flow, Moving, Before
  <2>2. Counts(<<>>, 0) /\ Len(<<>>) = 0
    BY CountsEmpty
  <2> QED BY <1>1, <1>2, <1>3, <2>1, <2>2 DEF Moving, Before, Middle
<1>9. Ending'
  BY <1>1, <1>2 DEF IInv, Ending, After
<1>10. Step
  BY <1>1, <1>4, Hidden DEF Selected
<1> QED BY <1>1, <1>5, <1>6, <1>7, <1>8, <1>9, <1>10 DEF IInv

LEMMA AssertStep ==
  ASSUME IInv, Assert, UNCHANGED am
  PROVE  IInv' /\ Step
<1>1. /\ kind = "LPSS" /\ pc = "Assert"
      /\ asserted' = (request.dev \in External)
      /\ UNCHANGED <<kind, request, left, ret, buffer, stuck, wire, gone, am,
                     eng, polls, got, sent, status>>
  BY DEF Assert, Engine, Goto
<1>2. request \in Requests /\ request.dev \in Devices /\ Length \in 1 .. 2 * MaxBytes
      /\ Length' = Length /\ Contract!NoRequest # request
  BY <1>1, InAFrame DEF Length, NoRequest, Contract!NoRequest
<1>3. /\ ~framed /\ wire = <<>> /\ got = <<>> /\ sent = 0 /\ result = "Success"
      /\ ~lp.native /\ LPSSSelected \subseteq stuck
      /\ lp.mux = IF request.dev \in External THEN "None" ELSE request.dev
      /\ ~gone => lp.enabled /\ lp.tx = <<>> /\ lp.rx = <<>>
      /\ lp.enabled /\ ~gone => Counts(lp.tx, Len(wire))
  BY <1>1 DEF IInv, Flow, Selects, Moving, Before
<1>4. asserted' \in BOOLEAN /\ (asserted' <=> request.dev \in External)
  <2>1. (request.dev \in External) \in BOOLEAN
    BY SMT
  <2> QED BY <1>1, <2>1
<1>5. \E on \in BOOLEAN :
         /\ framed' = on
         /\ IF asserted' THEN lines' = [lines EXCEPT ![request.dev] = on] /\ lp' = lp
            ELSE lp' = [lp EXCEPT !.native = on] /\ lines' = lines
  BY <1>3 DEF Assert, IInv, Types, LPSSTypes, Registers
<1>6. /\ lp' \in Registers /\ lines' \in [External -> BOOLEAN] /\ framed' \in BOOLEAN
      /\ lp'.mux = lp.mux /\ lp'.enabled = lp.enabled /\ lp'.tx = lp.tx /\ lp'.rx = lp.rx
      /\ lp'.overrun = lp.overrun
  BY ZenonT(60), <1>4, <1>5 DEF IInv, Types, LPSSTypes, Registers
<1>7. /\ framed' => LPSSSelected' = LPSSSelected \cup {request.dev}
      /\ ~framed' => LPSSSelected' \subseteq LPSSSelected
  <2>1. CASE asserted'
    BY <1>2, <1>4, <1>5, <2>1 DEF LPSSSelected, IInv, Types, LPSSTypes
  <2>2. CASE ~asserted'
    BY <1>2, <1>3, <1>4, <1>5, <2>2 DEF LPSSSelected, IInv, Types, LPSSTypes, Registers
  <2> QED BY <1>4, <2>1, <2>2
<1>8. /\ \/ pc' = "Transfer" /\ ~gone /\ framed' /\ result' = result
         \/ pc' = "Stop" /\ result' \in {"IOError"}
      /\ faults' = faults \/ Faulty
  BY DEF Assert, Goto
<1>9. Types'
  <2>1. faults' \in 0 .. MaxFaults
    BY <1>8, FramesAssumption DEF IInv, Types, FrameTypes, Faulty
  <2>2. result' \in Results /\ pc' \in LPSSPlaces
    BY <1>3, <1>8 DEF Results, Contract!Errors, LPSSPlaces
  <2>3. FrameTypes'
    BY <1>1, <1>6, <2>1, <2>2 DEF IInv, Types, FrameTypes
  <2>4. LPSSTypes' /\ am' \in Command
    BY <1>1, <1>4, <1>6 DEF IInv, Types, LPSSTypes
  <2> QED BY <2>3, <2>4 DEF Types
<1>10. Flow' /\ Fifos'
  BY <1>1, <1>6, <1>8 DEF IInv, Flow, Fifos, Before
<1>11. Selects'
  BY <1>1, <1>3, <1>4, <1>7, <1>8 DEF Selects, Before
<1>12. Moving'
  <2>1. Len(got) = 0 /\ Len(wire) = 0 /\ Counts(<<>>, 0) /\ Len(<<>>) = 0
    BY <1>3, CountsEmpty
  <2>2. Outstanding \in Nat /\ 0 <= Outstanding
    BY LPSSAssumption
  <2>3. pc' = "Stop" \/ (pc' = "Transfer" /\ ~gone /\ request.dev \in LPSSSelected')
    BY <1>7, <1>8
  <2> QED BY <1>1, <1>2, <1>3, <1>6, <1>8, <2>1, <2>2, <2>3 DEF Moving, Before, Middle
<1>13. Ending'
  BY <1>1, <1>8 DEF Ending, After
<1>14. Step
  <2>1. Selected = LPSSSelected /\ Selected' = LPSSSelected'
    BY <1>1 DEF Selected
  <2>2. CASE framed'
    <3>1. Contract!Select
      BY <1>1, <1>2, <1>3, <1>6, <1>7, <2>1, <2>2 DEF Contract!Select, Selected
    <3> QED BY <3>1 DEF Step, Contract!Next
  <2>3. CASE ~framed'
    BY <1>1, <1>3, <1>5, <1>7, <2>1, <2>3, Releasing DEF IInv, Types, FrameTypes
  <2> QED BY <2>2, <2>3
<1> QED BY <1>1, <1>9, <1>10, <1>11, <1>12, <1>13, <1>14 DEF IInv

LEMMA NothingWrong ==
  ASSUME Wrong = {}
  PROVE  polls # 0 /\ ~gone
BY DEF Wrong

\* What a poll finds wrong is an error.
LEMMA WrongIsError ==
  ASSUME NEW r \in Wrong
  PROVE  r \in Contract!Errors /\ r \in Results /\ r # "Success"
BY DEF Wrong, Contract!Errors, Results

Read == [rx |-> lp.rx # <<>>, tx |-> Len(lp.tx) <= FifoDepth]

LEMMA StatusRead == Read \in Status /\ (Read.rx => lp.rx # <<>>)
<1> DEFINE some == lp.rx # <<>>
           room == Len(lp.tx) <= FifoDepth
<1>1. some \in BOOLEAN
  BY Zenon
<1>2. some => lp.rx # <<>>
  OBVIOUS
<1>3. room \in BOOLEAN
  BY SMT
<1>4. Read = [rx |-> some, tx |-> room]
  BY DEF Read
<1> HIDE DEF some, room
<1> QED BY <1>1, <1>2, <1>3, <1>4 DEF Status

LEMMA PollStep ==
  ASSUME IInv, Poll, UNCHANGED am
  PROVE  IInv' /\ Step
<1>1. /\ kind = "LPSS" /\ pc = "Transfer"
      /\ UNCHANGED <<kind, request, left, ret, buffer, stuck, wire, gone, am,
                     eng, framed, faults, lp, lines, asserted, sent, got>>
  BY DEF Poll, Engine, Goto
<1>2. \/ pc' = "Stop" /\ result' \in Wrong /\ polls' = polls /\ status' = status
      \/ pc' = "Fill" /\ Wrong = {} /\ polls' = polls - 1 /\ result' = result
         /\ status' = Read
  BY DEF Poll, Goto, Spend, Read
<1>3. Types'
  <2>1. polls' \in 0 .. 4 * MaxBytes + PollSlack
    BY <1>2, NothingWrong, FramesAssumption DEF IInv, Types, FrameTypes
  <2>2. status' \in Status /\ result' \in Results
    BY <1>2, StatusRead, WrongIsError DEF IInv, Types, FrameTypes, LPSSTypes
  <2> QED BY <1>1, <1>2, <2>1, <2>2 DEF IInv, Types, FrameTypes, LPSSTypes, LPSSPlaces
<1>4. Flow' /\ Fifos'
  BY <1>1, <1>2 DEF IInv, Flow, Fifos, Before
<1>5. LPSSSelected' = LPSSSelected /\ Length' = Length
  BY <1>1, SelectedStays DEF Length
<1>6. Selects'
  BY <1>1, <1>2, <1>5 DEF IInv, Selects, Before
<1>7. Moving'
  BY <1>1, <1>2, <1>5, StatusRead DEF IInv, Moving, Before, Middle
<1>8. Ending'
  BY <1>1, <1>2, WrongIsError DEF Ending, After
<1>9. Step
  BY <1>1, <1>5, Hidden DEF Selected
<1> QED BY <1>1, <1>3, <1>4, <1>6, <1>7, <1>8, <1>9 DEF IInv

LEMMA WaitIdleStep ==
  ASSUME IInv, WaitIdle, UNCHANGED am
  PROVE  IInv' /\ Step
<1>1. /\ kind = "LPSS" /\ pc = "WaitIdle"
      /\ UNCHANGED <<kind, request, left, ret, buffer, stuck, wire, gone, am,
                     eng, framed, faults, lp, lines, asserted, sent, status, got>>
  BY DEF WaitIdle, Engine, Goto, lpss
<1>2. \/ pc' = "Stop" /\ result' \in Wrong /\ polls' = polls
      \/ /\ Wrong = {} /\ polls' = polls - 1
         /\ \/ pc' = "Stop" /\ result' \in {"Success", "Timeout"}
            \/ pc' = "WaitIdle" /\ result' = result
  BY DEF WaitIdle, Goto, Spend
<1>3. Types'
  <2>1. polls' \in 0 .. 4 * MaxBytes + PollSlack
    BY <1>2, NothingWrong, FramesAssumption DEF IInv, Types, FrameTypes
  <2>2. result' \in Results
    BY <1>2, WrongIsError DEF IInv, Types, FrameTypes, Results, Contract!Errors
  <2> QED BY <1>1, <1>2, <2>1, <2>2 DEF IInv, Types, FrameTypes, LPSSTypes, LPSSPlaces
<1>4. Flow' /\ Fifos'
  BY <1>1, <1>2 DEF IInv, Flow, Fifos, Before
<1>5. LPSSSelected' = LPSSSelected /\ Length' = Length
  BY <1>1, SelectedStays DEF Length
<1>6. Selects'
  BY <1>1, <1>2, <1>5 DEF IInv, Selects, Before
<1>7. Moving'
  BY <1>1, <1>2, <1>5 DEF IInv, Moving, Before, Middle
<1>8. Ending'
  <2>1. ASSUME result' = "Success", pc' = "Stop"
        PROVE  /\ framed /\ Len(wire) = Length /\ lp.tx = <<>>
               /\ Counts(got, 0) /\ Len(got) = Length
    <3>1. ~gone
      BY <1>2, <2>1, NothingWrong, WrongIsError
    <3>2. /\ framed /\ lp.enabled /\ sent <= Length /\ Len(got) = Length /\ Counts(got, 0)
          /\ Len(wire) + Len(lp.tx) = sent /\ Len(got) + Len(lp.rx) = Len(wire)
      BY <1>1, <3>1 DEF IInv, Moving, Middle
    <3>3. Len(lp.tx) = 0 /\ Len(wire) = Length
      <4> DEFINE x == Len(lp.tx)
                 y == Len(lp.rx)
      <4>1. x \in Nat /\ y \in Nat /\ Len(wire) \in Nat /\ sent \in Nat /\ Length \in Nat
        BY <1>1, Sizes, InAFrame DEF IInv, Types, LPSSTypes
      <4>2. Len(wire) + x = sent /\ Len(got) + y = Len(wire)
        BY <3>2
      <4> HIDE DEF x, y
      <4>3. x = 0 /\ Len(wire) = Length
        BY <3>2, <4>1, <4>2
      <4> QED BY <4>3 DEF x
    <3> QED BY <3>2, <3>3, Sizes DEF IInv
  <2> QED BY <1>1, <1>2, <1>5, <2>1 DEF Ending, After
<1>9. Step
  BY <1>1, <1>5, Hidden DEF Selected
<1> QED BY <1>1, <1>3, <1>4, <1>6, <1>7, <1>8, <1>9 DEF IInv

LEMMA StopStep ==
  ASSUME IInv, Stop, UNCHANGED am
  PROVE  IInv' /\ Step
<1>1. /\ kind = "LPSS" /\ pc = "Stop" /\ pc' = "Release"
      /\ UNCHANGED <<kind, request, left, ret, buffer, stuck, wire, gone, am,
                     polls, framed, got, lines, asserted, sent, status>>
  BY DEF Stop, Engine, Goto
<1>2. \/ /\ ~gone /\ eng' = eng /\ faults' = faults /\ result' = result
         /\ lp' = [lp EXCEPT !.enabled = FALSE, !.tx = <<>>, !.native = FALSE]
      \/ /\ ~gone /\ Faulty /\ lp' = [lp EXCEPT !.enabled = FALSE, !.tx = <<>>]
         /\ Offline /\ result' = First(result, "IOError")
      \/ /\ gone /\ lp' = lp /\ faults' = faults
         /\ Offline /\ result' = First(result, "NoDevice")
  BY DEF Stop
<1>3. lp \in Registers /\ <<>> \in Seq(Nat)
  BY Sizes DEF IInv, Types, LPSSTypes
<1>4. /\ lp' \in Registers /\ lp'.overrun = lp.overrun /\ lp'.mux = lp.mux
      /\ lp'.rx = lp.rx /\ (lp'.tx = lp.tx \/ lp'.tx = <<>>)
      /\ lp'.native = lp.native \/ lp'.native = FALSE
      /\ lp'.enabled => gone
  BY <1>2, <1>3 DEF Registers
<1>5. /\ eng' \in [initialized: BOOLEAN, online: BOOLEAN, touched: BOOLEAN]
      /\ result' \in Results /\ (result' = "Success" => result = "Success")
      /\ eng'.online => eng.online
      /\ eng'.online \/ result' = "Success" => lp'.native = FALSE
  BY <1>2, <1>3 DEF IInv, Types, FrameTypes, Offline, First, Results, Contract!Errors, Registers
<1>6. Types'
  <2>1. faults' \in 0 .. MaxFaults
    BY <1>2, FramesAssumption DEF IInv, Types, FrameTypes, Faulty
  <2>2. FrameTypes'
    BY <1>1, <1>5, <2>1 DEF IInv, Types, FrameTypes, LPSSPlaces
  <2>3. LPSSTypes' /\ am' \in Command
    BY <1>1, <1>4 DEF IInv, Types, LPSSTypes
  <2> QED BY <2>2, <2>3 DEF Types
<1>7. Flow'
  BY <1>1 DEF IInv, Flow, Before
<1>8. Fifos'
  <2>1. /\ Len(lp'.tx) \in Nat /\ Len(lp'.tx) <= Len(lp.tx)
        /\ Len(lp'.rx) \in Nat /\ Len(lp'.rx) <= Len(lp.rx)
    BY <1>4, Sizes DEF IInv
  <2>2. Len(lp.tx) \in Nat /\ Len(lp.rx) \in Nat /\ FifoDepth \in Nat
    BY Sizes, LPSSAssumption DEF IInv
  <2>3. Len(lp'.tx) + Len(lp'.rx) <= FifoDepth
    BY <2>1, <2>2, Fewer DEF IInv, Fifos
  <2>4. ~lp'.overrun
    BY <1>4 DEF IInv, Fifos
  <2> QED BY <2>3, <2>4 DEF Fifos
<1>9. /\ LPSSSelected' \subseteq LPSSSelected
      /\ \A d \in External : d \in LPSSSelected' <=> d \in LPSSSelected
  BY <1>1, <1>4 DEF LPSSSelected
<1>10. Selects'
  BY <1>1, <1>9 DEF IInv, Selects, Before
<1>11. Moving'
  BY <1>1, <1>4 DEF Moving, Before, Middle
<1>12. Ending'
  BY <1>1, <1>5 DEF IInv, Ending, After, Length
<1>13. Step
  BY <1>1, <1>5, <1>9, Releasing DEF Selected
<1> QED BY <1>1, <1>6, <1>7, <1>8, <1>10, <1>11, <1>12, <1>13 DEF IInv

LEMMA ReleaseStep ==
  ASSUME IInv, Release, UNCHANGED am
  PROVE  IInv' /\ Step
<1>1. /\ kind = "LPSS" /\ pc = "Release" /\ pc' = "Drain"
      /\ UNCHANGED <<kind, request, left, ret, buffer, stuck, wire, gone, am,
                     polls, framed, got, lp, asserted, sent, status>>
  BY DEF Release, Engine, Goto
<1>2. \/ asserted /\ lines' = [lines EXCEPT ![request.dev] = FALSE] /\ eng' = eng
         /\ faults' = faults /\ result' = result
      \/ asserted /\ lines' = lines /\ Faulty /\ Offline /\ result' = First(result, "IOError")
      \/ ~asserted /\ lines' = lines /\ eng' = eng /\ faults' = faults /\ result' = result
  BY DEF Release
<1>3. asserted => request.dev \in External
  BY <1>1 DEF IInv, Selects
<1>4. /\ eng' \in [initialized: BOOLEAN, online: BOOLEAN, touched: BOOLEAN]
      /\ result' \in Results /\ (result' = "Success" => result = "Success")
      /\ eng'.online => eng.online
      /\ lines' \in [External -> BOOLEAN]
      /\ asserted /\ (eng'.online \/ result' = "Success") => lines'[request.dev] = FALSE
  BY <1>2, <1>3 DEF IInv, Types, FrameTypes, LPSSTypes, Offline, First, Results, Contract!Errors
<1>5. Types'
  <2>1. faults' \in 0 .. MaxFaults
    BY <1>2, FramesAssumption DEF IInv, Types, FrameTypes, Faulty
  <2>2. FrameTypes'
    BY <1>1, <1>4, <2>1 DEF IInv, Types, FrameTypes, LPSSPlaces
  <2>3. LPSSTypes' /\ am' \in Command
    BY <1>1, <1>4 DEF IInv, Types, LPSSTypes
  <2> QED BY <2>2, <2>3 DEF Types
<1>6. Flow' /\ Fifos'
  BY <1>1 DEF IInv, Flow, Fifos, Before
<1>7. LPSSSelected' \subseteq LPSSSelected
  BY <1>1, <1>2, <1>3 DEF LPSSSelected, IInv, Types, LPSSTypes
<1>8. Selects'
  BY <1>1, <1>7 DEF IInv, Selects, Before
<1>9. Moving'
  BY <1>1 DEF IInv, Moving, Before, Middle
<1>10. Ending'
  BY <1>1, <1>4 DEF IInv, Ending, After, Length
<1>11. Step
  BY <1>1, <1>4, <1>7, Releasing DEF Selected
<1> QED BY <1>1, <1>5, <1>6, <1>8, <1>9, <1>10, <1>11 DEF IInv

\* A byte that is read continues got, and one that is written continues lp.tx.
LEMMA TransferStep ==
  ASSUME IInv, Transfer, UNCHANGED am
  PROVE  IInv' /\ Step
<1> DEFINE received == IF status.rx THEN Len(got) + 1 ELSE Len(got)
           puts == sent < Length /\ MaySend(received) /\ status.tx
<1>1. /\ kind = "LPSS" /\ pc = "Fill" /\ status' = Quiet
      /\ UNCHANGED <<kind, request, left, ret, buffer, stuck, wire, gone, am,
                     eng, framed, faults, lines, asserted, polls>>
  BY DEF Transfer, Engine, Goto
<1>2. /\ got' = IF ~status.rx THEN got ELSE Append(got, IF gone THEN 0 ELSE Head(lp.rx))
      /\ sent' = IF puts THEN sent + 1 ELSE sent
      /\ lp' = IF gone THEN lp
               ELSE [lp EXCEPT !.rx = IF status.rx THEN Tail(@) ELSE @,
                               !.tx = IF puts THEN Append(@, sent + 1) ELSE @]
      /\ \/ pc' = (IF received = Length THEN "WaitIdle" ELSE "Transfer") /\ result' = result
         \/ pc' = "Stop" /\ result' = "Timeout"
  BY DEF Transfer, Goto
<1>3. /\ framed /\ request.dev \in LPSSSelected
      /\ sent \in 0 .. Length /\ Len(got) \in 0 .. Length /\ Len(got) # Length
      /\ Len(wire) \in Nat /\ Length \in 1 .. 2 * MaxBytes /\ Length' = Length
      /\ got \in Seq(Nat) /\ lp \in Registers
  BY <1>1, InAFrame, Sizes DEF IInv, Types, FrameTypes, LPSSTypes, Moving, Middle, Length
<1>4. ~gone => /\ lp.enabled /\ Counts(lp.tx, Len(wire)) /\ Counts(got, 0)
               /\ Counts(lp.rx, Len(got)) /\ (status.rx => lp.rx # <<>>)
  BY <1>1 DEF IInv, Moving, Middle
<1>5. /\ puts \in BOOLEAN /\ received \in Nat /\ received <= Length
      /\ puts => sent < Length /\ sent - received < Outstanding
  <2>1. puts \in BOOLEAN
    <3>1. (sent < Length) \in BOOLEAN /\ MaySend(received) \in BOOLEAN
      BY SMT DEF MaySend
    <3>2. status.tx \in BOOLEAN
      BY DEF IInv, Types, LPSSTypes, Status
    <3> HIDE DEF received
    <3> QED BY <3>1, <3>2, Zenon
  <2>2. received \in Nat /\ received <= Length
    BY <1>3
  <2>3. puts => sent < Length /\ sent - received < Outstanding
    BY DEF MaySend
  <2> QED BY <2>1, <2>2, <2>3
<1>6. /\ got' \in Seq(Nat) /\ Len(got') = received
      /\ ~gone => Counts(got', 0)
  <2>1. CASE ~status.rx
    BY <1>2, <1>3, <1>4, <2>1
  <2>2. CASE status.rx /\ gone
    BY <1>2, <1>3, <2>2, AppendProperties
  <2>3. CASE status.rx /\ ~gone
    <3>1. Head(lp.rx) = Len(got) + 1
      BY <1>3, <1>4, <2>3, CountsTail
    <3>2. Counts(got', 0) /\ Len(got') = Len(got) + 1
      BY <1>2, <1>4, <2>3, <3>1, CountsAppend
    <3> QED BY <2>3, <3>2 DEF Counts
  <2> QED BY <2>1, <2>2, <2>3
<1> HIDE DEF received, puts
<1>7. ASSUME ~gone
      PROVE  /\ lp'.enabled = lp.enabled /\ lp'.native = lp.native /\ lp'.mux = lp.mux
             /\ lp'.overrun = lp.overrun /\ lp'.ready = lp.ready /\ lp'.err = lp.err
             /\ lp' \in [ready: BOOLEAN, enabled: BOOLEAN, native: BOOLEAN,
                         mux: Devices \cup {"None"}, err: BOOLEAN, overrun: BOOLEAN,
                         tx: {lp'.tx}, rx: {lp'.rx}]
             /\ lp'.rx = IF status.rx THEN Tail(lp.rx) ELSE lp.rx
             /\ lp'.tx = IF puts THEN Append(lp.tx, sent + 1) ELSE lp.tx
  BY <1>2, <1>3, <1>7 DEF Registers
<1>8. ASSUME ~gone
      PROVE  /\ Counts(lp'.rx, received) /\ received + Len(lp'.rx) = Len(wire)
             /\ Len(lp'.rx) \in Nat
  <2> DEFINE r == lp.rx
             s == lp'.rx
  <2>1. Counts(r, Len(got)) /\ Len(got) + Len(r) = Len(wire) /\ Len(r) \in Nat
    BY <1>1, <1>4, <1>8, Sizes DEF IInv, Moving, Middle
  <2>2. s = IF status.rx THEN Tail(r) ELSE r
    BY <1>7, <1>8
  <2>3. status.rx => r # <<>>
    BY <1>4, <1>8
  <2> HIDE DEF r, s
  <2>4. CASE status.rx
    <3>1. Counts(s, Len(got) + 1) /\ Len(s) = Len(r) - 1
      BY <1>3, <2>1, <2>2, <2>3, <2>4, CountsTail
    <3>2. received = Len(got) + 1 /\ Len(r) # 0 /\ r \in Seq(Nat)
      BY <2>1, <2>3, <2>4, EmptySeq DEF Counts, received
    <3>3. Counts(s, received) /\ received + Len(s) = Len(wire) /\ Len(s) \in Nat
      <4>1. Len(got) \in Nat /\ Len(r) \in Nat /\ Len(r) # 0 /\ Len(s) = Len(r) - 1
        BY <1>3, <2>1, <3>1, <3>2
      <4>2. Len(s) \in Nat /\ Len(got) + 1 + Len(s) = Len(got) + Len(r)
        BY <4>1, OneRead
      <4> QED BY <2>1, <3>1, <3>2, <4>2
    <3> QED BY <3>3 DEF s
  <2>5. CASE ~status.rx
    BY <1>3, <2>1, <2>2, <2>5 DEF received, s
  <2> QED BY <2>4, <2>5
<1>9. ASSUME ~gone
      PROVE  /\ Counts(lp'.tx, Len(wire)) /\ Len(wire) + Len(lp'.tx) = sent'
             /\ Len(lp'.tx) \in Nat
  <2> DEFINE r == lp.tx
             s == lp'.tx
  <2>1. Counts(r, Len(wire)) /\ Len(wire) + Len(r) = sent /\ Len(r) \in Nat
    BY <1>1, <1>4, <1>9, Sizes DEF IInv, Moving, Middle
  <2>2. s = IF puts THEN Append(r, sent + 1) ELSE r
    BY <1>7, <1>9
  <2> HIDE DEF r, s
  <2>3. CASE puts
    <3>1. sent + 1 = Len(wire) + Len(r) + 1 /\ sent' = sent + 1
      BY <1>2, <1>3, <2>1, <2>3
    <3>2. Counts(s, Len(wire)) /\ Len(s) = Len(r) + 1
      BY <1>3, <2>1, <2>2, <2>3, <3>1, CountsAppend
    <3> QED BY <1>3, <2>1, <3>1, <3>2 DEF s
  <2>4. CASE ~puts
    BY <1>2, <1>3, <2>1, <2>2, <2>4 DEF s
  <2> QED BY <2>3, <2>4
<1>10. /\ sent' \in 0 .. Length
       /\ ~gone => sent' - received <= Outstanding
  BY SMTT(30), <1>1, <1>2, <1>3, <1>5, LPSSAssumption DEF IInv, Moving, Middle, received
<1>11. lp' \in Registers
  BY <1>2, <1>3, <1>7, <1>8, <1>9 DEF Registers, Counts
<1>12. Types'
  <2>1. FrameTypes'
    BY SMTT(30), <1>1, <1>2, <1>3, <1>5, <1>6, FramesAssumption
       DEF IInv, Types, FrameTypes, LPSSPlaces, Results, Contract!Errors
  <2>2. sent' \in 0 .. 2 * MaxBytes /\ Quiet \in Status
    BY <1>3, <1>10, FramesAssumption DEF Quiet, Status
  <2>3. LPSSTypes' /\ am' \in Command
    BY <1>1, <1>11, <2>2 DEF IInv, Types, LPSSTypes
  <2> QED BY <2>1, <2>3 DEF Types
<1>13. Flow'
  BY <1>1, <1>2 DEF IInv, Flow, Before
<1>14. Fifos'
  <2>1. CASE gone
    BY <1>2, <2>1 DEF IInv, Fifos
  <2>2. CASE ~gone
    <3> DEFINE x == Len(lp'.tx)
               y == Len(lp'.rx)
    <3>1. x \in Nat /\ y \in Nat /\ received + y = Len(wire) /\ Len(wire) + x = sent'
      BY <1>8, <1>9, <2>2
    <3> HIDE DEF x, y
    <3>2. x + y <= FifoDepth
      <4>1. sent' - received <= Outstanding /\ sent' \in Int
        BY <1>10, <2>2
      <4>2. received \in Nat /\ Len(wire) \in Nat
        BY <1>3, <1>5
      <4>3. Outstanding <= FifoDepth /\ Outstanding \in Nat /\ FifoDepth \in Nat
        BY LPSSAssumption
      <4> QED BY <3>1, <4>1, <4>2, <4>3, InFlight
    <3>3. ~lp'.overrun
      BY <1>7, <2>2 DEF IInv, Fifos
    <3> QED BY <3>2, <3>3 DEF Fifos, x, y
  <2> QED BY <2>1, <2>2
<1>15. LPSSSelected' = LPSSSelected
  BY <1>1, <1>2, <1>7, SelectedStays
<1>16. Selects'
  <2>1. pc' \notin Before /\ pc \notin Before /\ pc' \notin {"Program", "Assert"}
    BY <1>1, <1>2 DEF Before
  <2> QED BY <1>1, <1>15, <2>1 DEF IInv, Selects
<1>17. Moving'
  <2>1. pc' \in {"Transfer", "WaitIdle", "Stop"} /\ (pc' = "WaitIdle" => received = Length)
        /\ (pc' = "Transfer" => received # Length)
    BY <1>2
  <2> QED BY SMTT(30), <1>1, <1>3, <1>4, <1>5, <1>6, <1>7, <1>8, <1>9, <1>10, <1>15, <2>1
          DEF Moving, Before, Middle
<1>18. Ending'
  BY <1>2 DEF Ending, After
<1>19. Step
  BY <1>1, <1>15, Hidden DEF Selected
<1> QED BY <1>1, <1>12, <1>13, <1>14, <1>16, <1>17, <1>18, <1>19 DEF IInv

\* A frame that succeeds has moved its bytes and released its device.
LEMMA DrainStep ==
  ASSUME IInv, Drain, UNCHANGED am
  PROVE  IInv' /\ Step
<1>1. /\ kind = "LPSS" /\ pc = "Drain" /\ request \in Requests
      /\ asserted' = FALSE /\ sent' = 0
      /\ UNCHANGED <<kind, gone, lines, status, am>>
  BY InAFrame DEF Drain, Engine, Finished
<1>2. \E r \in Results :
         /\ Finished(r) /\ (r = "Success" => result = "Success")
         /\ eng' = eng \/ (Offline /\ r # "Success")
  <2> DEFINE ok == result
             io == First(result, "IOError")
             no == First(result, "NoDevice")
  <2>1. /\ io \in Results /\ no \in Results /\ ok \in Results
        /\ io # "Success" /\ no # "Success" /\ ok = result
    BY DEF First, IInv, Types, FrameTypes, Results, Contract!Errors
  <2>2. \/ Finished(ok) /\ eng' = eng
        \/ Finished(io) /\ eng' = eng
        \/ Finished(no) /\ Offline
    BY DEF Drain
  <2> HIDE DEF ok, io, no
  <2>3. CASE Finished(ok) /\ eng' = eng
    <3>1. /\ Finished(ok) /\ (ok = "Success" => result = "Success")
          /\ eng' = eng \/ (Offline /\ ok # "Success")
      BY <2>1, <2>3
    <3> QED BY <2>1, <3>1
  <2>4. CASE Finished(io) /\ eng' = eng
    BY <2>1, <2>4
  <2>5. CASE Finished(no) /\ Offline
    BY <2>1, <2>5
  <2> QED BY <2>2, <2>3, <2>4, <2>5
<1>3. PICK r \in Results :
         /\ Finished(r) /\ (r = "Success" => result = "Success")
         /\ eng' = eng \/ (Offline /\ r # "Success")
  BY <1>2
<1>4. /\ eng' \in [initialized: BOOLEAN, online: BOOLEAN, touched: BOOLEAN]
      /\ eng'.online => eng.online
      /\ faults' \in 0 .. MaxFaults
  <2>1. faults' = faults \/ Faulty
    BY DEF Drain
  <2>2. faults' \in 0 .. MaxFaults
    BY <2>1, FramesAssumption DEF IInv, Types, FrameTypes, Faulty
  <2>3. /\ eng' \in [initialized: BOOLEAN, online: BOOLEAN, touched: BOOLEAN]
        /\ eng'.online => eng.online
    BY <1>3 DEF IInv, Types, FrameTypes, Offline
  <2> QED BY <2>2, <2>3
<1>5. /\ lp' \in Registers /\ lp'.enabled = lp.enabled /\ lp'.native = lp.native
      /\ lp'.mux = lp.mux /\ lp'.overrun = lp.overrun /\ lp'.tx = lp.tx
      /\ lp'.rx = lp.rx \/ lp'.rx = <<>>
  <2>1. lp \in Registers /\ <<>> \in Seq(Nat)
    BY Sizes DEF IInv, Types, LPSSTypes
  <2>2. \/ lp' = lp \/ lp' = [lp EXCEPT !.rx = <<>>, !.err = FALSE]
        \/ lp' = [lp EXCEPT !.err = FALSE]
    BY DEF Drain
  <2> QED BY <2>1, <2>2 DEF Registers
<1>6. LPSSSelected' = LPSSSelected /\ Selected = LPSSSelected /\ Selected' = Selected
  BY <1>1, <1>5, SelectedStays DEF Selected
<1>7. ASSUME eng.online \/ result = "Success",
             request.dev \in LPSSSelected
      PROVE  request.dev \in stuck /\ ~framed
  <2>1. ~lp.native /\ (asserted => ~lines[request.dev])
    BY <1>1, <1>7 DEF IInv, Ending, After
  <2>2. request.dev \in External /\ lines[request.dev]
    BY <1>7, <2>1 DEF LPSSSelected
  <2>3. ~asserted
    BY <2>1, <2>2
  <2> QED BY <1>1, <1>7, <2>2, <2>3 DEF IInv, Selects, Types, FrameTypes
<1>8. ASSUME r = "Success"
      PROVE  /\ Contract!Complete
             /\ buffer' = Contract!Numbered(request.rx, request.tx)
  <2>1. /\ framed /\ Len(wire) = Length /\ Len(got) = Length
        /\ Counts(got, 0) /\ Counts(wire, 0)
    BY <1>1, <1>3, <1>8 DEF IInv, Ending, After, Types, FrameTypes
  <2>2. wire = Contract!Numbered(Length, 0)
    BY <2>1, CountsIsNumbered
  <2>3. request.tx \in 0 .. Len(got) /\ Length - request.tx = request.rx
    BY <1>1, <2>1, InAFrame
  <2>4. SubSeq(got, request.tx + 1, Length) = Contract!Numbered(Length - request.tx, request.tx)
    BY <2>1, <2>3, CountsSubSeq
  <2>5. buffer' = SubSeq(got, request.tx + 1, Length)
    BY <1>3, <1>8 DEF Finished
  <2>6. request.dev \notin Selected
    BY <1>3, <1>6, <1>7, <1>8, <2>1
  <2> QED BY <2>1, <2>2, <2>3, <2>4, <2>5, <2>6 DEF Contract!Complete, Length, Selected
<1>9. r # "Success" => buffer' = buffer
  BY <1>3 DEF Finished
<1>10. buffer' \in Seq(Nat) /\ Len(buffer') <= MaxBytes
  <2>1. CASE r = "Success"
    <3>1. request.rx \in Nat /\ request.tx \in Nat /\ request.rx <= MaxBytes
      BY <1>1, InAFrame, FramesAssumption
    <3> QED BY <1>8, <2>1, <3>1, NumberedCounts DEF Counts
  <2>2. CASE r # "Success"
    BY <1>9, <2>2 DEF IInv, Types, FrameTypes
  <2> QED BY <2>1, <2>2
<1>11. EndFrame(r, LPSSSelected) /\ LPSSSelected \in SUBSET Devices
  BY <1>3 DEF Finished, LPSSSelected
<1>12. FrameTypes' /\ Flow' /\ pc' \in {"Idle", "Begin"} /\ framed' = FALSE
  BY <1>1, <1>4, <1>10, <1>11, FrameEnds DEF IInv
<1>13. Types'
  <2>1. 0 \in 0 .. 2 * MaxBytes
    BY FramesAssumption
  <2> QED BY <1>1, <1>5, <1>12, <2>1 DEF IInv, Types, LPSSTypes
<1>14. Fifos'
  <2>1. /\ Len(lp'.tx) \in Nat /\ Len(lp'.tx) <= Len(lp.tx)
        /\ Len(lp'.rx) \in Nat /\ Len(lp'.rx) <= Len(lp.rx)
    BY <1>5, Sizes DEF IInv
  <2>2. Len(lp.tx) \in Nat /\ Len(lp.rx) \in Nat /\ FifoDepth \in Nat
    BY Sizes, LPSSAssumption DEF IInv
  <2>3. Len(lp'.tx) + Len(lp'.rx) <= FifoDepth
    BY <2>1, <2>2, Fewer DEF IInv, Fifos
  <2>4. ~lp'.overrun
    BY <1>5 DEF IInv, Fifos
  <2> QED BY <2>3, <2>4 DEF Fifos
<1>15. stuck' = LPSSSelected
  BY <1>11 DEF EndFrame
<1>16. lp.enabled => gone
  BY <1>1 DEF IInv, Moving, Middle
<1>17. IInv'
  BY <1>1, <1>5, <1>6, <1>12, <1>13, <1>14, <1>15, <1>16, LPSSAtRest
<1>18. r # "Success" => (request.dev \in Selected \ stuck => ~eng'.online)
  BY <1>4, <1>6, <1>7
<1>19. Step
  BY <1>1, <1>4, <1>6, <1>8, <1>9, <1>11, <1>18, FrameEndsWell DEF IInv
<1> QED BY <1>17, <1>19

\* Between two requests the owner wakes the function or puts it away, and
\* selects nothing.
LEMMA LPSSOwnerStep ==
  ASSUME IInv, Owner, UNCHANGED am, gone' \in BOOLEAN,
         eng' \in [initialized: BOOLEAN, online: BOOLEAN, touched: BOOLEAN],
         lp' \in Registers, lp'.overrun => lp.overrun,
         lp'.tx \in {lp.tx, <<>>}, lp'.rx \in {lp.rx, <<>>},
         lp'.native => lp.native /\ lp'.mux = lp.mux,
         lp'.enabled => lp.enabled /\ gone' = gone
  PROVE  IInv' /\ Step
<1>1. /\ kind = "LPSS" /\ pc = "Idle"
      /\ UNCHANGED <<kind, pc, request, left, ret, result, polls, got, buffer,
                     stuck, framed, wire, faults, lines, asserted, sent, status, am>>
  BY DEF Owner, frame
<1>2. request = NoRequest /\ request = Contract!NoRequest
  BY <1>1 DEF IInv, Flow, NoRequest, Contract!NoRequest
<1>3. Types'
  BY <1>1 DEF IInv, Types, FrameTypes, LPSSTypes
<1>4. Flow'
  BY <1>1 DEF IInv, Flow
<1>5. Fifos'
  <2>1. /\ Len(lp'.tx) \in Nat /\ Len(lp'.tx) <= Len(lp.tx)
        /\ Len(lp'.rx) \in Nat /\ Len(lp'.rx) <= Len(lp.rx)
    BY Sizes DEF IInv
  <2>2. Len(lp.tx) \in Nat /\ Len(lp.rx) \in Nat /\ FifoDepth \in Nat
    BY Sizes, LPSSAssumption DEF IInv
  <2>3. Len(lp'.tx) + Len(lp'.rx) <= FifoDepth
    BY <2>1, <2>2, Fewer DEF IInv, Fifos
  <2> QED BY <2>3 DEF IInv, Fifos
<1>6. LPSSSelected' \subseteq LPSSSelected
  BY <1>1 DEF LPSSSelected, IInv, Types, LPSSTypes, Registers
<1>7. IInv'
  BY <1>1, <1>3, <1>4, <1>5, <1>6, LPSSRests, LPSSAtRest
<1>8. Step
  BY <1>1, <1>2, <1>6, Releasing DEF Selected
<1> QED BY <1>7, <1>8

LEMMA LPSSOwnerSteps ==
  ASSUME IInv, UNCHANGED am, LPSSSuspend \/ LPSSResume \/ LPSSShutdown \/ LPSSCycle
  PROVE  IInv' /\ Step
<1>1. lp \in Registers /\ <<>> \in Seq(Nat)
  BY Sizes DEF IInv, Types, LPSSTypes
<1>2. /\ eng \in [initialized: BOOLEAN, online: BOOLEAN, touched: BOOLEAN]
      /\ gone \in BOOLEAN
  BY DEF IInv, Types, FrameTypes
<1>3. /\ Quiesced \in Registers /\ Quiesced.overrun = lp.overrun
      /\ Quiesced.tx \in {lp.tx, <<>>} /\ Quiesced.rx \in {lp.rx, <<>>}
      /\ Quiesced.native => lp.native /\ Quiesced.mux = lp.mux
      /\ Quiesced.enabled => lp.enabled
  BY <1>1 DEF Quiesced, Registers
<1>4. CASE LPSSSuspend
  <2>1. eng' \in [initialized: BOOLEAN, online: BOOLEAN, touched: BOOLEAN]
    BY <1>2, <1>4 DEF LPSSSuspend, Offline
  <2> QED BY <1>2, <1>3, <1>4, <2>1, LPSSOwnerStep DEF LPSSSuspend
<1>5. CASE LPSSResume
  <2>1. eng' \in [initialized: BOOLEAN, online: BOOLEAN, touched: BOOLEAN]
    BY <1>2, <1>5 DEF LPSSResume
  <2>2. /\ lp' \in Registers /\ lp'.overrun = lp.overrun /\ lp'.tx = lp.tx /\ lp'.rx = lp.rx
        /\ lp'.native = lp.native /\ lp'.mux = lp.mux /\ lp'.enabled = lp.enabled
    BY <1>1, <1>5 DEF LPSSResume, Registers
  <2> QED BY <1>2, <1>5, <2>1, <2>2, LPSSOwnerStep DEF LPSSResume
<1>6. CASE LPSSShutdown
  <2>1. eng' \in [initialized: BOOLEAN, online: BOOLEAN, touched: BOOLEAN]
    BY <1>6 DEF LPSSShutdown
  <2>2. /\ lp' \in Registers /\ lp'.overrun = lp.overrun
        /\ lp'.tx \in {lp.tx, <<>>} /\ lp'.rx \in {lp.rx, <<>>}
        /\ lp'.native => lp.native /\ lp'.mux = lp.mux
        /\ lp'.enabled => lp.enabled
    <3>1. lp' \in {lp, Quiesced, [Quiesced EXCEPT !.ready = FALSE]}
      BY <1>6 DEF LPSSShutdown
    <3> HIDE DEF Quiesced
    <3> QED BY <1>1, <1>3, <3>1 DEF Registers
  <2> QED BY <1>2, <1>6, <2>1, <2>2, LPSSOwnerStep DEF LPSSShutdown
<1>7. CASE LPSSCycle
  <2>1. /\ lp' \in Registers /\ lp'.overrun = FALSE /\ lp'.tx = <<>> /\ lp'.rx = <<>>
        /\ lp'.native = FALSE /\ lp'.enabled = FALSE
    BY <1>1, <1>7 DEF LPSSCycle, Reset, Registers
  <2> QED BY <1>2, <1>7, <2>1, LPSSOwnerStep DEF LPSSCycle
<1> QED BY <1>4, <1>5, <1>6, <1>7

\* The shift register moves the byte that is next, to the device of the frame,
\* and the receiver has room for its answer.
LEMMA LPSSClockStep ==
  ASSUME IInv, LPSSClock, UNCHANGED am
  PROVE  IInv' /\ Step
<1>1. /\ kind = "LPSS" /\ ~gone /\ lp.enabled /\ lp.tx # <<>>
      /\ UNCHANGED <<kind, eng, pc, request, left, ret, result, polls, got, buffer,
                     stuck, framed, gone, faults, lines, asserted, sent, status, am>>
  BY DEF LPSSClock
<1>2. /\ pc \in {"Assert", "Stop"} \cup Middle
      /\ Counts(lp.tx, Len(wire)) /\ Len(wire) + Len(lp.tx) = sent
      /\ framed /\ request.dev \in LPSSSelected
      /\ pc # "Assert" /\ pc \notin Before
  <2>1. /\ pc \in {"Assert", "Stop"} \cup Middle
        /\ Counts(lp.tx, Len(wire)) /\ Len(wire) + Len(lp.tx) = sent
        /\ framed /\ request.dev \in LPSSSelected /\ pc # "Assert"
    BY <1>1 DEF IInv, Moving
  <2> QED BY <2>1 DEF Middle, Before
<1>3. request \in Requests /\ Length' = Length /\ Length \in 1 .. 2 * MaxBytes
  BY <1>1, <1>2, InAFrame DEF Length, Before
<1>4. /\ Len(wire) \in Nat /\ Head(lp.tx) = Len(wire) + 1
      /\ Counts(Tail(lp.tx), Len(wire) + 1) /\ Len(Tail(lp.tx)) = Len(lp.tx) - 1
  BY <1>1, <1>2, Sizes, CountsTail DEF IInv
<1>5. Len(lp.rx) # FifoDepth
  <2> DEFINE a == Len(lp.tx)
             b == Len(lp.rx)
  <2>1. a \in Nat /\ b \in Nat /\ a # 0 /\ FifoDepth \in Nat
    BY <1>1, Sizes, LPSSAssumption DEF IInv
  <2>2. a + b <= FifoDepth
    BY DEF IInv, Fifos
  <2> HIDE DEF a, b
  <2>3. b # FifoDepth
    BY <2>1, <2>2
  <2> QED BY <2>3 DEF b
<1>6. /\ wire' = Append(wire, Len(wire) + 1)
      /\ lp' = [lp EXCEPT !.tx = Tail(lp.tx), !.rx = Append(lp.rx, Len(wire) + 1),
                          !.overrun = lp.overrun \/ FALSE, !.err = lp.err \/ FALSE]
  BY <1>2, <1>4, <1>5 DEF LPSSClock
<1>7. /\ lp'.enabled = lp.enabled /\ lp'.native = lp.native /\ lp'.mux = lp.mux
      /\ lp'.tx = Tail(lp.tx) /\ lp'.rx = Append(lp.rx, Len(wire) + 1)
      /\ lp'.ready = lp.ready /\ lp'.overrun = lp.overrun /\ lp'.err = lp.err
      /\ lp \in Registers
  BY <1>6 DEF IInv, Types, LPSSTypes, Registers
<1>8. Counts(wire', 0) /\ Len(wire') = Len(wire) + 1
  <2>1. Counts(wire, 0) /\ Len(wire) + 1 = 0 + Len(wire) + 1
    BY <1>4 DEF IInv, Types, FrameTypes
  <2>2. Counts(Append(wire, Len(wire) + 1), 0) /\ Len(Append(wire, Len(wire) + 1)) = Len(wire) + 1
    BY <2>1, CountsAppend
  <2> QED BY <1>6, <2>2
<1>9. /\ lp'.tx \in Seq(Nat) /\ lp'.rx \in Seq(Nat)
      /\ Len(lp'.tx) = Len(lp.tx) - 1 /\ Len(lp'.rx) = Len(lp.rx) + 1
  <2>1. lp'.tx \in Seq(Nat) /\ Len(lp'.tx) = Len(lp.tx) - 1
    BY <1>4, <1>7 DEF Counts
  <2>2. lp.rx \in Seq(Nat) /\ Len(wire) + 1 \in Nat
    BY <1>4, <1>7 DEF Registers
  <2>3. lp'.rx \in Seq(Nat) /\ Len(lp'.rx) = Len(lp.rx) + 1
    BY <1>7, <2>2, AppendProperties
  <2> QED BY <2>1, <2>3
<1>10. Len(wire) < sent
  BY <1>1, <1>2, <1>4, Sizes, OneMoves DEF IInv
<1>11. Types'
  <2>1. Len(wire') <= 2 * MaxBytes
    BY <1>4, <1>8, <1>10, FramesAssumption DEF IInv, Types, LPSSTypes
  <2>2. FrameTypes'
    BY <1>1, <1>8, <2>1 DEF IInv, Types, FrameTypes
  <2>3. lp' \in Registers
    BY <1>6, <1>7, <1>9 DEF Registers
  <2> QED BY <1>1, <2>2, <2>3 DEF IInv, Types, LPSSTypes
<1>12. Flow'
  BY <1>1, <1>2 DEF IInv, Flow
<1>13. Fifos'
  <2>1. Len(lp.tx) \in Nat /\ Len(lp.rx) \in Nat /\ FifoDepth \in Nat
    BY Sizes, LPSSAssumption DEF IInv
  <2>2. Len(lp.tx) + Len(lp.rx) <= FifoDepth
    BY DEF IInv, Fifos
  <2>3. Len(lp'.tx) + Len(lp'.rx) <= FifoDepth
    BY <1>9, <2>1, <2>2, OneForOne
  <2> QED BY <1>7, <2>3 DEF IInv, Fifos
<1>14. LPSSSelected' = LPSSSelected
  BY <1>1, <1>7, SelectedStays
<1>15. Selects'
  BY <1>1, <1>2, <1>7, <1>14 DEF IInv, Selects, Before
<1>16. Moving'
  <2>1. Counts(lp'.tx, Len(wire')) /\ Len(wire') + Len(lp'.tx) = sent'
    <3>1. Len(lp.tx) \in Nat /\ Len(lp.tx) # 0
      BY <1>1, Sizes DEF IInv
    <3>2. Len(wire) \in Nat /\ Len(lp'.tx) = Len(lp.tx) - 1 /\ Len(wire) + Len(lp.tx) = sent
      BY <1>2, <1>4, <1>9
    <3>3. Len(wire) + 1 + Len(lp'.tx) = sent
      <4> DEFINE a == Len(lp.tx)
                 b == Len(lp'.tx)
      <4>1. a \in Nat /\ a # 0 /\ b = a - 1 /\ Len(wire) + a = sent /\ Len(wire) \in Nat
        BY <3>1, <3>2
      <4> HIDE DEF a, b
      <4>2. Len(wire) + 1 + b = sent
        BY <4>1
      <4> QED BY <4>2 DEF b
    <3> QED BY <1>1, <1>4, <1>7, <1>8, <3>3
  <2>2. pc \in Middle =>
           /\ Counts(got, 0) /\ Counts(lp.rx, Len(got))
           /\ Len(got) + Len(lp.rx) = Len(wire) /\ sent - Len(got) <= Outstanding
    BY <1>1 DEF IInv, Moving
  <2>3. pc \in Middle =>
           Counts(lp'.rx, Len(got)) /\ Len(got) + Len(lp'.rx) = Len(wire')
    <3>1. SUFFICES ASSUME pc \in Middle
                   PROVE  Counts(lp'.rx, Len(got)) /\ Len(got) + Len(lp'.rx) = Len(wire')
      OBVIOUS
    <3>2. Len(got) \in Nat /\ Len(lp.rx) \in Nat /\ Len(wire) \in Nat
      BY Sizes DEF IInv
    <3>3. Len(wire) + 1 = Len(got) + Len(lp.rx) + 1
      BY <2>2, <3>1
    <3>4. Counts(lp'.rx, Len(got))
      <4>1. Counts(Append(lp.rx, Len(wire) + 1), Len(got))
        BY <2>2, <3>1, <3>2, <3>3, CountsAppend
      <4> QED BY <1>7, <4>1
    <3>5. Len(got) + (Len(lp.rx) + 1) = Len(wire) + 1
      BY <2>2, <3>1, <3>2, OneMore
    <3> QED BY <1>8, <1>9, <3>4, <3>5
  <2>4. lp'.rx # <<>>
    BY <1>7, <1>9, Sizes, OneMore, EmptySeq DEF IInv
  <2>5. pc \notin {"Program", "Assert"}
    BY <1>2 DEF Before
  <2>6. pc \in Middle =>
          /\ framed /\ request.dev \in LPSSSelected /\ lp.enabled
          /\ sent <= Length /\ Len(got) <= Length
          /\ pc = "WaitIdle" <=> Len(got) = Length
    BY <1>1 DEF IInv, Moving
  <2> QED BY <1>1, <1>2, <1>3, <1>7, <1>14, <2>1, <2>2, <2>3, <2>4, <2>5, <2>6
          DEF Moving
<1>17. Ending'
  BY <1>1, <1>2 DEF IInv, Ending, After, Middle
<1>18. Contract!Move
  <2>1. LPSSSelected \subseteq {request.dev} \cup stuck
    BY <1>1, <1>2 DEF IInv, Selects
  <2>2. request # Contract!NoRequest
    BY <1>3, ARequest DEF NoRequest, Contract!NoRequest
  <2> QED BY <1>1, <1>2, <1>6, <1>14, <2>1, <2>2 DEF Contract!Move, Selected
<1> QED BY <1>1, <1>11, <1>12, <1>13, <1>15, <1>16, <1>17, <1>18 DEF IInv, Step, Contract!Next

LEMMA BitErrorStep ==
  ASSUME IInv, BitError, UNCHANGED am
  PROVE  IInv' /\ Step
<1>1. /\ kind = "LPSS" /\ faults < MaxFaults /\ faults' = faults + 1
      /\ lp' = [lp EXCEPT !.err = TRUE]
      /\ UNCHANGED <<kind, eng, pc, request, left, ret, result, polls, got, buffer,
                     stuck, framed, wire, gone, lines, asserted, sent, status, am>>
  BY DEF BitError, Faulty, frame
<1>2. /\ lp' \in Registers /\ lp'.enabled = lp.enabled /\ lp'.native = lp.native
      /\ lp'.mux = lp.mux /\ lp'.tx = lp.tx /\ lp'.rx = lp.rx /\ lp'.overrun = lp.overrun
  BY <1>1 DEF IInv, Types, LPSSTypes, Registers
<1>3. Types'
  BY <1>1, <1>2, FramesAssumption DEF IInv, Types, FrameTypes, LPSSTypes
<1>4. Flow' /\ Fifos'
  BY <1>1, <1>2 DEF IInv, Flow, Fifos
<1>5. LPSSSelected' = LPSSSelected /\ Length' = Length
  BY <1>1, <1>2, SelectedStays DEF Length
<1>6. Selects' /\ Ending'
  BY <1>1, <1>2, <1>5 DEF IInv, Selects, Ending
<1>7. Moving'
  BY <1>1, <1>2, <1>5 DEF IInv, Moving
<1>8. Step
  BY <1>1, <1>5, Hidden DEF Selected
<1> QED BY <1>1, <1>3, <1>4, <1>6, <1>7, <1>8 DEF IInv

-----------------------------------------------------------------------------
(* The AMD engine *)

LEMMA AMDBeginStep ==
  ASSUME IInv, AMDBegin, UNCHANGED lpss
  PROVE  IInv' /\ Step
<1>1. /\ kind = "AMD" /\ pc = "Begin" /\ request \in Requests /\ ~framed
      /\ UNCHANGED <<kind, buffer, gone, faults, am, lp, lines, asserted, sent, status>>
  BY DEF AMDBegin, lpss, IInv, Flow, Before
<1>2. /\ eng' \in [initialized: BOOLEAN, online: BOOLEAN, touched: BOOLEAN]
      /\ eng'.online => eng.online
  BY DEF AMDBegin, Offline, IInv, Types, FrameTypes
<1>3. AMDSelected' = AMDSelected /\ Selected' = Selected /\ Selected = AMDSelected
  BY <1>1, NothingMoved DEF lpss, Selected
<1>4. AMDSelected \in SUBSET Devices /\ AMDSelected \subseteq stuck
  BY <1>1 DEF AMDSelected, IInv, Commanding
<1>5. Fifos' /\ LPSSTypes' /\ am' \in Command
  BY <1>1 DEF IInv, Fifos, Types, LPSSTypes
<1>6. CASE pc' = "Start" /\ eng'.online = eng.online /\ polls' = PollSlack /\ ~am.busy
           /\ UNCHANGED <<request, left, ret, stuck, wire, result, got, framed>>
  <2>1. PollSlack \in 0 .. 4 * MaxBytes + PollSlack /\ PollSlack >= 1
    BY FramesAssumption
  <2>2. FrameTypes'
    BY <1>1, <1>2, <1>6, <2>1 DEF IInv, Types, FrameTypes, AMDPlaces
  <2>3. Flow'
    BY <1>1, <1>6 DEF IInv, Flow, Before
  <2>4. Commanding'
    BY <1>1, <1>3, <1>6, <2>1 DEF IInv, Commanding
  <2>5. Step
    BY <1>1, <1>3, <1>6, Hidden
  <2> QED BY <1>1, <1>5, <2>2, <2>3, <2>4, <2>5 DEF IInv, Types
<1>7. CASE \E r \in Contract!Errors : EndFrame(r, AMDSelected)
  <2>1. PICK r \in Contract!Errors : EndFrame(r, AMDSelected)
    BY <1>7
  <2>2. r \in Results /\ r # "Success"
    BY DEF Results, Contract!Errors
  <2>3. FrameTypes' /\ Flow' /\ pc' \in {"Idle", "Begin"} /\ framed' = FALSE
    BY <1>1, <1>2, <1>4, <2>1, <2>2, FrameEnds DEF IInv, Types, FrameTypes
  <2>4. stuck' = AMDSelected
    BY <2>1 DEF EndFrame
  <2>5. Commanding'
    BY <1>1, <1>3, <2>3, <2>4 DEF IInv, Commanding
  <2>6. Step
    BY <1>1, <1>2, <1>3, <1>4, <2>1, <2>2, FrameEndsWell DEF IInv
  <2> QED BY <1>1, <1>5, <2>3, <2>5, <2>6 DEF IInv, Types
<1>8. ASSUME pc' # "Start"
      PROVE  \E r \in Contract!Errors : EndFrame(r, AMDSelected)
  BY <1>8 DEF AMDBegin, Contract!Errors
<1>9. ASSUME pc' = "Start"
      PROVE  /\ eng'.online = eng.online /\ polls' = PollSlack /\ ~am.busy
             /\ UNCHANGED <<request, left, ret, stuck, wire, result, got, framed>>
  BY <1>9 DEF AMDBegin, EndFrame, IInv, Types, FrameTypes
<1> QED BY <1>6, <1>7, <1>8, <1>9

LEMMA AMDStartStep ==
  ASSUME IInv, AMDStart, UNCHANGED lpss
  PROVE  IInv' /\ Step
<1>1. /\ kind = "AMD" /\ pc = "Start" /\ pc' = "Poll"
      /\ UNCHANGED <<kind, eng, request, left, ret, result, polls, got, buffer,
                     stuck, wire, gone, faults, lp, lines, asserted, sent, status>>
  BY DEF AMDStart, lpss
<1>2. /\ request \in Requests /\ request.dev \in Devices /\ request # Contract!NoRequest
      /\ request.tx \in 1 .. MaxBytes /\ request.rx \in 0 .. MaxBytes
      /\ Length = request.tx + request.rx /\ Length' = Length
  BY <1>1, InAFrame DEF Length, NoRequest, Contract!NoRequest
<1>3. /\ ~framed /\ wire = <<>> /\ ~am.busy /\ polls >= 1 /\ am \in Command
  BY <1>1 DEF IInv, Flow, Before, Commanding, Types
<1>4. Flow' /\ Fifos' /\ LPSSTypes'
  BY <1>1 DEF IInv, Flow, Fifos, Types, LPSSTypes, Before
<1>5. CASE gone
  <2>1. am' = am /\ framed' = framed
    BY <1>5 DEF AMDStart
  <2>2. AMDSelected' = AMDSelected /\ Selected' = Selected
    BY <1>1, <2>1, NothingMoved DEF lpss
  <2>3. Types'
    BY <1>1, <1>4, <2>1 DEF IInv, Types, FrameTypes, AMDPlaces
  <2>4. Commanding'
    BY <1>1, <1>3, <1>5, <2>1, <2>2 DEF IInv, Commanding
  <2>5. Step
    BY <1>1, <2>1, <2>2, Hidden
  <2> QED BY <1>1, <1>4, <2>3, <2>4, <2>5 DEF IInv
<1>6. CASE ~gone
  <2> DEFINE fifo == [i \in Positions |-> IF i < request.tx THEN i + 1 ELSE am.fifo[i]]
  <2>1. /\ framed' = TRUE
        /\ am' = [cs |-> request.dev, opcode |-> 1, fifo |-> fifo,
                  tx |-> request.tx - 1, rx |-> request.rx, busy |-> TRUE, done |-> 0]
    BY <1>6 DEF AMDStart
  <2>2. fifo \in [Positions -> 0 .. 2 * MaxBytes]
    BY SMTT(60), <1>2, <1>3, FramesAssumption DEF Command, Positions
  <2>3. \A i \in 1 .. request.tx - 1 : fifo[i] = i + 1
    BY <1>2, FramesAssumption DEF Positions
  <2> HIDE DEF fifo
  <2>4. request.tx - 1 \in Nat /\ request.rx \in Nat /\ request.tx - 1 + request.rx < 2 * MaxBytes
    BY <1>2, FramesAssumption
  <2>5. /\ am' \in Command /\ am'.cs = request.dev /\ am'.opcode = 1 /\ am'.fifo = fifo
        /\ am'.tx = request.tx - 1 /\ am'.rx = request.rx /\ am'.busy = TRUE /\ am'.done = 0
    BY <1>2, <2>1, <2>2, <2>4 DEF Command
  <2>6. AMDSelected = {} /\ AMDSelected' = {request.dev}
    BY <1>3, <2>5 DEF AMDSelected
  <2>7. Types'
    BY <1>1, <1>4, <2>1, <2>5 DEF IInv, Types, FrameTypes, AMDPlaces
  <2>8. Commanding'
    <3>1. Len(wire) = 0 /\ 0 <= Length /\ request.tx .. 0 - 1 = {}
      BY <1>2, <1>3, EmptySeq
    <3> QED BY <1>1, <1>2, <1>3, <2>1, <2>3, <2>4, <2>5, <3>1 DEF Commanding
  <2>9. Contract!Select
    BY <1>1, <1>2, <1>3, <2>1, <2>6 DEF Contract!Select, Selected
  <2> QED BY <1>1, <1>4, <2>7, <2>8, <2>9 DEF IInv, Step, Contract!Next
<1> QED BY <1>5, <1>6

LEMMA AMDPollStep ==
  ASSUME IInv, AMDPoll, UNCHANGED lpss
  PROVE  IInv' /\ Step
<1>1. /\ kind = "AMD" /\ pc = "Poll"
      /\ UNCHANGED <<kind, gone, faults, am, lp, lines, asserted, sent, status>>
  BY DEF AMDPoll, lpss
<1>2. /\ request \in Requests /\ request.dev \in Devices
      /\ request.tx \in 1 .. MaxBytes /\ request.rx \in 0 .. MaxBytes
      /\ Length = request.tx + request.rx
  BY <1>1, InAFrame
<1>3. /\ eng' \in [initialized: BOOLEAN, online: BOOLEAN, touched: BOOLEAN]
      /\ eng'.online => eng.online
  BY DEF AMDPoll, Offline, IInv, Types, FrameTypes
<1>4. AMDSelected' = AMDSelected /\ Selected' = Selected /\ Selected = AMDSelected
  BY <1>1, NothingMoved DEF lpss, Selected
<1>5. AMDSelected \in SUBSET Devices
  BY <1>1 DEF AMDSelected, IInv, Commanding
<1>6. Fifos' /\ LPSSTypes' /\ am' \in Command
  BY <1>1 DEF IInv, Fifos, Types, LPSSTypes
<1>7. CASE /\ am.busy /\ polls' = polls - 1 /\ polls' # 0
           /\ UNCHANGED <<eng, pc, request, left, ret, result, got, buffer, stuck, framed, wire>>
  <2>1. polls' \in 0 .. 4 * MaxBytes + PollSlack /\ polls' >= 1
    BY <1>1, <1>7, FramesAssumption DEF IInv, Types, FrameTypes, Commanding
  <2>2. FrameTypes'
    BY <1>1, <1>7, <2>1 DEF IInv, Types, FrameTypes
  <2>3. Flow'
    BY <1>1, <1>7 DEF IInv, Flow, Before
  <2>4. Commanding'
    BY <1>1, <1>4, <1>7, <2>1 DEF IInv, Commanding, Length
  <2>5. Step
    BY <1>1, <1>4, <1>7, Hidden
  <2> QED BY <1>1, <1>6, <2>2, <2>3, <2>4, <2>5 DEF IInv, Types
<1>8. ASSUME NEW r \in Results, EndFrame(r, AMDSelected),
             buffer' \in Seq(Nat), Len(buffer') <= MaxBytes
      PROVE  IInv'
  <2>1. FrameTypes' /\ Flow' /\ pc' \in {"Idle", "Begin"} /\ framed' = FALSE
    BY <1>1, <1>3, <1>5, <1>8, FrameEnds DEF IInv, Types, FrameTypes
  <2>2. stuck' = AMDSelected
    BY <1>8 DEF EndFrame
  <2>3. Commanding'
    BY <1>1, <1>4, <2>1, <2>2 DEF IInv, Commanding
  <2> QED BY <1>1, <1>6, <2>1, <2>3 DEF IInv, Types
<1>9. CASE /\ Offline /\ buffer' = buffer
           /\ EndFrame("NoDevice", AMDSelected) \/ EndFrame("Timeout", AMDSelected)
  <2>1. PICK r \in {"NoDevice", "Timeout"} : EndFrame(r, AMDSelected)
    BY <1>9
  <2>2. r \in Results /\ r # "Success"
    BY DEF Results, Contract!Errors
  <2>3. ~eng'.online
    BY <1>9 DEF Offline, IInv, Types, FrameTypes
  <2>4. IInv'
    BY <1>8, <1>9, <2>1, <2>2 DEF IInv, Types, FrameTypes
  <2>5. Step
    BY <1>1, <1>3, <1>4, <1>9, <2>1, <2>2, <2>3, FrameEndsWell DEF IInv
  <2> QED BY <2>4, <2>5
<1>10. CASE /\ ~gone /\ ~am.busy /\ EndFrame("Success", AMDSelected)
            /\ buffer' = [i \in 1 .. request.rx |-> am.fifo[request.tx - 1 + i]]
  <2>1. /\ framed /\ Len(wire) = Length /\ am.done = Length
        /\ \A i \in request.tx .. am.done - 1 : am.fifo[i] = i + 1
    BY <1>1, <1>10 DEF IInv, Commanding, Types, FrameTypes
  <2>2. wire = Contract!Numbered(Length, 0)
    BY <2>1, CountsIsNumbered DEF IInv, Types, FrameTypes
  <2>3. \A i \in 1 .. request.rx : am.fifo[request.tx - 1 + i] = request.tx + i
    <3>1. TAKE i \in 1 .. request.rx
    <3>2. request.tx - 1 + i \in request.tx .. Length - 1
      BY <1>2
    <3> QED BY <1>2, <2>1, <3>2
  <2>4. buffer' = Contract!Numbered(request.rx, request.tx)
    BY <1>10, <2>3 DEF Contract!Numbered
  <2>5. buffer' \in Seq(Nat) /\ Len(buffer') <= MaxBytes
    <3>1. request.rx \in Nat /\ request.tx \in Nat /\ request.rx <= MaxBytes
      BY <1>2, FramesAssumption
    <3> QED BY <2>4, <3>1, NumberedCounts DEF Counts
  <2>6. "Success" \in Results
    BY DEF Results
  <2>7. IInv'
    BY <1>8, <1>10, <2>5, <2>6
  <2>8. AMDSelected = {}
    BY <1>10 DEF AMDSelected
  <2>9. Contract!Complete
    BY <1>4, <2>1, <2>2, <2>8 DEF Contract!Complete, Length, Selected
  <2>10. Step
    BY <1>1, <1>3, <1>4, <1>10, <2>4, <2>6, <2>9, FrameEndsWell DEF IInv
  <2> QED BY <2>7, <2>10
<1> QED BY <1>7, <1>9, <1>10 DEF AMDPoll, Spend

LEMMA AMDOwnerSteps ==
  ASSUME IInv, UNCHANGED lpss, AMDSuspend \/ AMDResume \/ AMDShutdown \/ AMDCycle
  PROVE  IInv' /\ Step
<1>1. /\ kind = "AMD" /\ pc = "Idle"
      /\ UNCHANGED <<kind, pc, request, left, ret, result, polls, got, buffer,
                     stuck, framed, wire, faults, lp, lines, asserted, sent, status>>
  BY DEF AMDSuspend, AMDResume, AMDShutdown, AMDCycle, AMDOwner, frame, lpss
<1>2. request = NoRequest /\ request = Contract!NoRequest
  BY <1>1 DEF IInv, Flow, NoRequest, Contract!NoRequest
<1>3. /\ eng' \in [initialized: BOOLEAN, online: BOOLEAN, touched: BOOLEAN]
      /\ gone' \in BOOLEAN
  <2>1. /\ eng \in [initialized: BOOLEAN, online: BOOLEAN, touched: BOOLEAN]
        /\ gone \in BOOLEAN
    BY DEF IInv, Types, FrameTypes
  <2>2. CASE AMDSuspend
    BY <2>1, <2>2 DEF AMDSuspend, Offline
  <2>3. CASE AMDResume
    BY <2>1, <2>3 DEF AMDResume
  <2>4. CASE AMDShutdown
    BY <2>1, <2>4 DEF AMDShutdown
  <2>5. CASE AMDCycle
    BY <2>1, <2>5 DEF AMDCycle
  <2> QED BY <2>2, <2>3, <2>4, <2>5
<1>4. /\ am' \in Command /\ AMDSelected' \subseteq AMDSelected
      /\ am'.busy => /\ am.busy /\ am'.cs = am.cs /\ am'.tx = am.tx /\ am'.rx = am.rx
  <2>1. am \in Command
    BY DEF IInv, Types
  <2>2. \/ am' = am \/ am' = Idle
        \/ ~am.busy /\ am' = [am EXCEPT !.cs = "None"]
    BY DEF AMDSuspend, AMDResume, AMDShutdown, AMDCycle
  <2>3. Idle \in Command /\ Idle.busy = FALSE
    BY FramesAssumption DEF Idle, Command
  <2>4. am' \in Command /\ (am'.busy => am' = am)
    BY <2>1, <2>2, <2>3 DEF Command
  <2> QED BY <2>4 DEF AMDSelected
<1>5. Types'
  BY <1>1, <1>3, <1>4 DEF IInv, Types, FrameTypes, LPSSTypes
<1>6. Flow' /\ Fifos'
  BY <1>1 DEF IInv, Flow, Fifos
<1>7. Commanding'
  BY <1>1, <1>4 DEF IInv, Commanding
<1>8. Step
  BY <1>1, <1>2, <1>4, Releasing DEF Selected
<1> QED BY <1>1, <1>5, <1>6, <1>7, <1>8 DEF IInv

\* The command hardware moves the byte that is next, or lets the select go.
LEMMA AMDClockStep ==
  ASSUME IInv, AMDClock, UNCHANGED lpss
  PROVE  IInv' /\ Step
<1> DEFINE tx == am.tx
           rx == am.rx
           done == am.done
           n == done + 1
           sends == 1 + tx
           out == IF n = 1 THEN am.opcode ELSE IF n <= sends THEN am.fifo[n - 1] ELSE n
<1>1. /\ kind = "AMD" /\ am.busy /\ ~gone
      /\ UNCHANGED <<kind, eng, pc, request, left, ret, result, polls, got, buffer,
                     stuck, framed, gone, faults, lp, lines, asserted, sent, status>>
  BY DEF AMDClock, lpss
<1>2. /\ am \in Command /\ am.cs \in Devices /\ tx + rx < 2 * MaxBytes
      /\ tx \in Nat /\ rx \in Nat /\ done \in Nat
      /\ am.fifo \in [Positions -> 0 .. 2 * MaxBytes] /\ MaxBytes \in Nat
  BY <1>1, FramesAssumption DEF IInv, Types, Commanding, Command
<1>3. pc \in {"Idle", "Begin", "Poll"} /\ (pc = "Poll" => framed)
  BY <1>1 DEF IInv, Types, FrameTypes, Commanding, AMDPlaces
<1>5. Length' = Length
  BY <1>1 DEF Length
<1>6. pc = "Poll" =>
         /\ request \in Requests /\ request.dev \in Devices
         /\ request.tx \in 1 .. MaxBytes /\ request.rx \in 0 .. MaxBytes
         /\ Length = request.tx + request.rx
         /\ am.cs = request.dev /\ am.opcode = 1
         /\ tx = request.tx - 1 /\ rx = request.rx
         /\ Len(wire) = done /\ done <= Length
         /\ \A i \in 1 .. request.tx - 1 : am.fifo[i] = i + 1
         /\ \A i \in request.tx .. done - 1 : am.fifo[i] = i + 1
  BY <1>1, <1>3, InAFrame DEF IInv, Commanding
<1> HIDE DEF tx, rx, done
<1>7. CASE /\ n <= sends + rx
           /\ wire' = IF pc = "Poll" THEN Append(wire, out) ELSE wire
           /\ am' = [am EXCEPT !.done = n,
                               !.fifo = IF n > sends THEN [@ EXCEPT ![n - 1] = n] ELSE @]
  <2>1. n \in Nat /\ n <= 2 * MaxBytes /\ (n > sends => n - 1 \in Positions)
    BY <1>2, <1>7 DEF Positions
  <2> DEFINE fifo == IF n > sends THEN [am.fifo EXCEPT ![n - 1] = n] ELSE am.fifo
  <2>2. fifo \in [Positions -> 0 .. 2 * MaxBytes]
    BY <1>2, <2>1
  <2>3. /\ am' \in Command /\ am'.done = n /\ am'.fifo = fifo /\ am'.busy = TRUE
        /\ am'.cs = am.cs /\ am'.tx = tx /\ am'.rx = rx /\ am'.opcode = am.opcode
    BY <1>1, <1>2, <1>7, <2>1, <2>2 DEF Command, tx, rx, done
  <2>4. pc = "Poll" => out = Len(wire) + 1
    BY <1>2, <1>6
  <2>5. AMDSelected' = AMDSelected /\ AMDSelected = {am.cs}
    BY <1>1, <2>3 DEF AMDSelected
  <2>6. pc = "Poll" => Counts(wire', 0) /\ Len(wire') = am'.done
    <3>1. SUFFICES ASSUME pc = "Poll"
                   PROVE  Counts(wire', 0) /\ Len(wire') = n
      BY <2>3
    <3>2. Counts(wire, 0) /\ Len(wire) \in Nat /\ Len(wire) = done
      BY <1>6, <3>1, Sizes DEF IInv, Types, FrameTypes
    <3>3. wire' = Append(wire, Len(wire) + 1) /\ Len(wire) + 1 = 0 + Len(wire) + 1
      BY <1>7, <2>4, <3>1, <3>2
    <3>4. Counts(Append(wire, Len(wire) + 1), 0) /\ Len(Append(wire, Len(wire) + 1)) = Len(wire) + 1
      BY <3>2, <3>3, CountsAppend
    <3> QED BY <3>2, <3>3, <3>4
  <2>7. pc # "Poll" => wire' = wire
    BY <1>7
  <2>8. Types'
    <3>1. Counts(wire', 0) /\ Len(wire') <= 2 * MaxBytes
      BY <2>1, <2>3, <2>6, <2>7 DEF IInv, Types, FrameTypes
    <3>2. FrameTypes'
      BY <1>1, <3>1 DEF IInv, Types, FrameTypes
    <3> QED BY <1>1, <2>3, <3>2 DEF IInv, Types, LPSSTypes
  <2>9. Flow' /\ Fifos'
    BY <1>1, <1>3, <2>7 DEF IInv, Flow, Fifos, Before
  <2>10. pc = "Poll" =>
           /\ n <= Length
           /\ \A i \in 1 .. request.tx - 1 : fifo[i] = i + 1
           /\ \A i \in request.tx .. n - 1 : fifo[i] = i + 1
    <3>1. SUFFICES ASSUME pc = "Poll"
                   PROVE  /\ n <= Length
                          /\ \A i \in 1 .. request.tx - 1 : fifo[i] = i + 1
                          /\ \A i \in request.tx .. n - 1 : fifo[i] = i + 1
      OBVIOUS
    <3>2. n <= Length /\ sends = request.tx
      BY SMTT(30), <1>2, <1>6, <1>7, <3>1
    <3>3. CASE n > sends
      <4>1. \A i \in Positions : fifo[i] = IF i = n - 1 THEN n ELSE am.fifo[i]
        BY <1>2, <2>1, <3>3
      <4>2. \A i \in 1 .. request.tx - 1 : i \in Positions /\ i # n - 1
        BY <1>2, <1>6, <2>1, <3>1, <3>2, <3>3 DEF Positions
      <4>3. \A i \in request.tx .. n - 1 :
               i \in Positions /\ (i # n - 1 => i \in request.tx .. done - 1)
        BY <1>2, <1>6, <2>1, <3>1, <3>2, <3>3 DEF Positions
      <4> QED BY <1>2, <1>6, <2>1, <3>1, <3>2, <4>1, <4>2, <4>3
    <3>4. CASE ~(n > sends)
      <4>1. request.tx .. n - 1 = {}
        BY <1>2, <1>6, <3>1, <3>2, <3>4
      <4> QED BY <1>6, <3>1, <3>2, <3>4, <4>1
    <3> QED BY <3>3, <3>4
  <2>11. Commanding'
    <3>1. pc \notin {"Start"}
      BY <1>3
    <3> HIDE DEF fifo, n
    <3> QED BY <1>1, <1>2, <1>3, <1>5, <1>6, <2>3, <2>5, <2>6, <2>10, <3>1 DEF IInv, Commanding
  <2>12. Step
    <3>1. CASE pc = "Poll"
      <4>1. request # Contract!NoRequest
        BY <1>6, <3>1, ARequest DEF NoRequest, Contract!NoRequest
      <4>2. wire' = Append(wire, Len(wire) + 1)
        BY <1>7, <2>4, <3>1
      <4>3. Contract!Move
        BY <1>1, <1>3, <1>6, <2>5, <3>1, <4>1, <4>2 DEF Contract!Move, Selected
      <4> QED BY <4>3 DEF Step, Contract!Next
    <3>2. CASE pc # "Poll"
      BY <1>1, <2>5, <2>7, <3>2, Hidden DEF Selected
    <3> QED BY <3>1, <3>2
  <2> QED BY <1>1, <2>8, <2>9, <2>11, <2>12 DEF IInv
<1>8. CASE n > sends + rx /\ am' = [am EXCEPT !.busy = FALSE] /\ wire' = wire
  <2>1. /\ am' \in Command /\ am'.busy = FALSE /\ am'.cs = am.cs /\ am'.tx = tx
        /\ am'.rx = rx /\ am'.opcode = am.opcode /\ am'.fifo = am.fifo /\ am'.done = done
    BY <1>2, <1>8 DEF Command, tx, rx, done
  <2>2. AMDSelected' = {}
    BY <2>1 DEF AMDSelected
  <2>3. pc = "Poll" => done = Length
    BY SMTT(60), <1>2, <1>6, <1>8
  <2>4. Types'
    BY <1>1, <1>8, <2>1 DEF IInv, Types, FrameTypes, LPSSTypes
  <2>5. Flow' /\ Fifos'
    BY <1>1, <1>8 DEF IInv, Flow, Fifos
  <2>6. Commanding'
    BY <1>1, <1>3, <1>5, <1>6, <1>8, <2>1, <2>2, <2>3 DEF IInv, Commanding
  <2>7. Step
    BY <1>1, <1>8, <2>2, Releasing DEF Selected
  <2> QED BY <1>1, <2>4, <2>5, <2>6, <2>7 DEF IInv
<1> QED BY <1>7, <1>8 DEF AMDClock, tx, rx, done

-----------------------------------------------------------------------------
(* The system *)

LEMMA InitInvariant ==
  ASSUME Init
  PROVE  IInv /\ Contract!Init
<1>1. /\ kind \in {"LPSS", "AMD"} /\ pc = "Idle" /\ request = NoRequest /\ left = 0
      /\ eng = [initialized |-> FALSE, online |-> FALSE, touched |-> FALSE]
      /\ ret = "Success" /\ result = "Success" /\ polls = 0 /\ got = <<>>
      /\ buffer = <<>> /\ stuck = {} /\ framed = FALSE /\ wire = <<>>
      /\ gone = FALSE /\ faults = 0
      /\ lp = [Reset EXCEPT !.ready = TRUE, !.rx = <<0>>]
      /\ lines = [d \in External |-> FALSE]
      /\ asserted = FALSE /\ sent = 0 /\ status = Quiet /\ am = Idle
  BY DEF Init, FramesInit, LPSSInit, AMDInit
<1>2. /\ lp.enabled = FALSE /\ lp.native = FALSE /\ lp.tx = <<>> /\ lp.rx = <<0>>
      /\ lp.overrun = FALSE /\ lp \in Registers
  <2>1. <<0>> \in Seq(Nat) /\ <<>> \in Seq(Nat)
    OBVIOUS
  <2>2. lp = [ready |-> TRUE, enabled |-> FALSE, native |-> FALSE, mux |-> "None",
              err |-> FALSE, overrun |-> FALSE, tx |-> <<>>, rx |-> <<0>>]
    BY <1>1 DEF Reset
  <2> QED BY <2>1, <2>2 DEF Registers
<1>3. am \in Command /\ am.busy = FALSE
  BY <1>1, FramesAssumption DEF Idle, Command
<1>4. <<>> \in Seq(Nat) /\ Len(<<>>) = 0 /\ Counts(<<>>, 0)
  BY CountsEmpty, EmptySeq
<1>5. FrameTypes
  <2>1. /\ 0 \in 0 .. 4 * MaxBytes + PollSlack /\ 0 \in 0 .. MaxFaults /\ 0 \in 0 .. 2
        /\ 0 <= 2 * MaxBytes /\ 0 <= MaxBytes
    BY FramesAssumption
  <2>2. eng \in [initialized: BOOLEAN, online: BOOLEAN, touched: BOOLEAN]
    BY <1>1
  <2>3. pc \in (IF kind = "LPSS" THEN LPSSPlaces ELSE AMDPlaces) /\ "Success" \in Results
    BY <1>1 DEF LPSSPlaces, AMDPlaces, Results
  <2> QED BY <1>1, <1>4, <2>1, <2>2, <2>3 DEF FrameTypes
<1>6. LPSSTypes
  <2>1. 0 \in 0 .. 2 * MaxBytes
    BY FramesAssumption
  <2>2. status \in Status /\ lines \in [External -> BOOLEAN]
    BY <1>1 DEF Quiet, Status
  <2> QED BY <1>1, <1>2, <2>1, <2>2 DEF LPSSTypes
<1>7. Flow
  BY <1>1 DEF Flow
<1>8. Fifos
  <2>1. Len(lp.tx) = 0 /\ Len(lp.rx) = 1
    BY <1>2
  <2>2. 0 + 1 <= FifoDepth
    BY LPSSAssumption
  <2> QED BY <1>2, <2>1, <2>2 DEF Fifos
<1>9. LPSSSelected = {} /\ AMDSelected = {}
  BY <1>1, <1>2, <1>3 DEF LPSSSelected, AMDSelected
<1>10. Selects /\ Moving /\ Ending
  BY <1>1, <1>2, <1>9 DEF Selects, Moving, Ending, Before, Middle, After
<1>11. Commanding
  BY <1>1, <1>3, <1>9 DEF Commanding
<1>12. Contract!Init
  BY <1>1, <1>9 DEF Contract!Init, NoRequest, Contract!NoRequest
<1> QED BY <1>3, <1>5, <1>6, <1>7, <1>8, <1>10, <1>11, <1>12 DEF IInv, Types

LEMMA NextInvariant ==
  ASSUME IInv, [Next]_vars
  PROVE  IInv' /\ Step
<1>1. CASE Ask /\ UNCHANGED <<lpss, am>>
  BY <1>1, AskStep
<1>2. CASE Refuse /\ UNCHANGED <<lpss, am>>
  BY <1>2, RefuseStep
<1>3. CASE Vanish /\ UNCHANGED <<lpss, am>>
  BY <1>3, VanishStep
<1>4. CASE LPSSStep /\ UNCHANGED am
  BY <1>4, LPSSBeginStep, ConfigureStep, ProgramStep, AssertStep, PollStep, TransferStep,
     WaitIdleStep, StopStep, ReleaseStep, DrainStep DEF LPSSStep
<1>5. CASE LPSSNext /\ UNCHANGED am
  BY <1>4, <1>5, LPSSOwnerSteps, LPSSClockStep, BitErrorStep DEF LPSSNext
<1>6. CASE AMDNext /\ UNCHANGED lpss
  BY <1>6, AMDBeginStep, AMDStartStep, AMDPollStep, AMDOwnerSteps, AMDClockStep
     DEF AMDNext, AMDStep
<1>7. CASE UNCHANGED vars
  <2>1. /\ UNCHANGED <<lpss, am, lp, lines, asserted, sent, status>>
        /\ UNCHANGED <<kind, eng, pc, request, left, ret, result, polls, got, buffer,
                       stuck, framed, wire, gone, faults>>
    BY <1>7 DEF vars, frames, frame, lpss
  <2>2. LPSSSelected' = LPSSSelected /\ AMDSelected' = AMDSelected /\ Selected' = Selected
    BY <2>1, NothingMoved
  <2>3. Types' /\ Flow' /\ Fifos'
    BY ZenonT(60), <2>1 DEF IInv, Types, FrameTypes, LPSSTypes, Flow, Fifos
  <2>4. (Selects' <=> Selects) /\ (Ending' <=> Ending)
    BY <2>1, <2>2 DEF Selects, Ending, Length
  <2>5. Moving' <=> Moving
    BY <2>1, <2>2 DEF Moving, Length
  <2>6. Commanding' <=> Commanding
    BY <2>1, <2>2 DEF Commanding, Length
  <2>7. Step
    BY <2>1, <2>2, Hidden
  <2> QED BY <2>1, <2>3, <2>4, <2>5, <2>6, <2>7 DEF IInv
<1> QED BY <1>1, <1>2, <1>3, <1>5, <1>6, <1>7 DEF Next

LEMMA Invariant == Spec => []IInv
<1>1. Init => IInv
  BY InitInvariant
<1>2. IInv /\ [Next]_vars => IInv'
  BY NextInvariant
<1> QED BY <1>1, <1>2, PTL DEF Spec

\* Every variable keeps its type: no counter, FIFO or buffer leaves its bounds,
\* whatever the hardware does (LPSSSPIEngine.hpp:286-501; AMDSPIEngine.hpp).
THEOREM TypeCorrect == Spec => []TypeOK
<1>1. IInv => TypeOK
  <2> SUFFICES ASSUME IInv PROVE TypeOK
    OBVIOUS
  <2>1. /\ {Len(got), Len(wire), Len(buffer), sent} \subseteq 0 .. 2 * MaxBytes
        /\ stuck \subseteq Devices
    <3>1. /\ Len(buffer) \in Nat /\ Len(wire) \in Nat /\ Len(got) \in Nat
          /\ Len(buffer) <= MaxBytes /\ Len(wire) <= 2 * MaxBytes /\ Len(got) <= 2 * MaxBytes
          /\ MaxBytes \in Nat /\ sent \in 0 .. 2 * MaxBytes /\ stuck \subseteq Devices
      BY FramesAssumption DEF IInv, Types, FrameTypes, LPSSTypes, Counts
    <3> QED BY <3>1
  <2>2. Len(lp.tx) \in 0 .. FifoDepth + 1 /\ Len(lp.rx) \in 0 .. FifoDepth
    <3> DEFINE a == Len(lp.tx)
               b == Len(lp.rx)
    <3>1. a \in Nat /\ b \in Nat /\ a + b <= FifoDepth /\ FifoDepth \in Nat
      BY Sizes, LPSSAssumption DEF IInv, Fifos
    <3> HIDE DEF a, b
    <3>2. a \in 0 .. FifoDepth + 1 /\ b \in 0 .. FifoDepth
      BY <3>1
    <3> QED BY <3>2 DEF a, b
  <2>3. pc \in LPSSPlaces \cup AMDPlaces
    BY DEF IInv, Types, FrameTypes
  <2> QED BY <2>1, <2>2, <2>3
          DEF TypeOK, IInv, Types, FrameTypes, LPSSTypes, Registers, Command, Results,
              LPSSPlaces, AMDPlaces
<1> QED BY <1>1, Invariant, PTL

\* The receiver never loses a byte: the engine keeps no more in flight than
\* the FIFO holds, however late it polls (LPSSSPIEngine.hpp:358-374).
THEOREM NeverOverrun == Spec => []NoOverrun
<1>1. IInv => NoOverrun
  BY DEF IInv, Fifos, NoOverrun
<1> QED BY <1>1, Invariant, PTL

\* Every behaviour of the engines is one the contract of SPIController.hpp:12-13
\* and 26-58 allows, with the selects, the bytes and the answers mapped as in
\* Contract: each step of an engine or its hardware is a step of the contract,
\* or changes nothing of it.
THEOREM EnginesImplementContract == Spec => Implements
<1>1. Init => Contract!Init
  BY InitInvariant
<1>2. IInv /\ [Next]_vars => [Contract!Next]_(Contract!vars)
  BY NextInvariant DEF Step
<1> QED BY <1>1, <1>2, Invariant, PTL DEF Spec, Implements, Contract!Spec

=============================================================================
