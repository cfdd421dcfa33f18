------------------------- MODULE AudioRoutingProofs -------------------------
(***************************************************************************)
(* Proofs, for any controllers, engines, sources and bounds, that the      *)
(* references of a source are accounted for, that no change of the route   *)
(* is forgotten, that the monitor sleeps only when there is nothing to do, *)
(* and, where a selector has no third value, that the mailbox says what    *)
(* the registry says.                                                      *)
(*                                                                         *)
(* The inductive invariant IInv says what a call in flight carries         *)
(* (InFlight), who owns and lists the source (Owner, ReferencesAccounted), *)
(* what the service knows (Known), what is left to seed (Seeding) and what *)
(* a step of the run may rely on (RunFacts).  Mailbox and SeedFresh add    *)
(* that what is not yet in the mailbox is still to be told.                *)
(***************************************************************************)
EXTENDS AudioRouting, FiniteSetTheorems, TLAPS

AudioState ==
  [routeKnown : BOOLEAN, speakers : BOOLEAN, engineKnown : BOOLEAN,
   engineRunning : BOOLEAN, generation : Nat]

SourceObject ==
  [refs : Nat, controller : Controller \union {None}, attached : BOOLEAN,
   pending : BOOLEAN, engine : Engine \union {None}, state : AudioState]

Call == [value : Output \union {"Absent", "Running", "Stopped"}, published : BOOLEAN,
         targets : SUBSET Source]

ServiceTypes ==
  /\ power \in BOOLEAN /\ timer \in BOOLEAN
  /\ current \in Source \union {None}
  /\ hdaPci \in Controller \union {None}
  /\ live \in Controller \union {None} /\ upsets \in 0..MaxUpsets
  /\ audioState \in AudioState
  /\ pc \in Step /\ then \in {"Idle", "Sync", "SyncAgain", "SyncCommit", "Setup", "Cancel"}
  /\ todo \in SUBSET Engine
  /\ seed \in [engine : Engine \union {None}, value : Output \union {"Absent"}]
  /\ run \in [stream : BOOLEAN, state : AudioState]
  /\ output \in OutputState
  /\ prepared \in Nat

\* A routed call carries what the registry says.
InFlight ==
  \A t \in Sender :
    /\ ~hook[t].published => hook[t].targets = {}
    /\ hook[t] # Quiet =>
         /\ hook[t].value = IF t.route THEN selector[t.engine] ELSE engineState[t.engine]
         /\ hook[t].value # "Absent"

Tearing == pc \in {"Unlist", "Close"}

\* The source of the service is attached, and listed until it is torn down.
Owner ==
  /\ current # None =>
       /\ hooked /\ src[current].attached
       /\ src[current].engine = None => src[current].state = Unknown
       /\ src[current].engine # None => Parent[src[current].engine] = src[current].controller
  /\ Tearing \/ pc = "Seed" => current # None
  /\ listeners = IF current = None \/ pc = "Close" THEN {} ELSE {current}

\* What the service acts on is the mailbox, or an event is pending.
Known ==
  /\ current = None \/ Tearing => audioState = Unknown
  /\ current # None /\ ~Tearing => audioState = src[current].state \/ src[current].pending

Seeding ==
  /\ seed # NoSeed => /\ pc = "Seed" /\ seed.engine \in Engine
                      /\ Parent[seed.engine] = src[current].controller
  /\ pc = "Seed" => \A e \in todo : Parent[e] = src[current].controller

\* The step a run is at, or returns to after a teardown.
At == IF Tearing THEN then ELSE pc

RunFacts ==
  /\ ~power => At = "Idle" /\ (current # None => Tearing)
  /\ Tearing /\ then = "Idle" => ~power
  /\ At \in {"SyncAgain", "Validate", "SyncCommit", "Commit", "Revalidate", "Cancel"} =>
       Permits(run.state)
  /\ pc = "Tick" => run.state = audioState
  /\ pc = "Rearm" => Permits(run.state) \/ (output # "Playing" /\ run.state = audioState)

IInv ==
  /\ SourceTypeOK /\ ServiceTypes
  /\ InFlight /\ ReferencesAccounted /\ Owner
  /\ Known /\ Seeding /\ RunFacts /\ SleepsOnlySettled

\* The source of the service will hear of t.
Told(t) == hook[t] # Quiet /\ (~hook[t].published \/ current \in hook[t].targets)

\* The mailbox says what the registry says, as far as nothing is still to be told.
Agrees(a) ==
  a.engine # None =>
    /\ selector[a.engine] # "Absent" /\ a.state.routeKnown
    /\ \/ a.state.speakers = (selector[a.engine] = "Speakers")
       \/ Told([engine |-> a.engine, route |-> TRUE])
    /\ \/ /\ a.state.engineKnown = (engineState[a.engine] # "Absent")
          /\ a.state.engineRunning = (engineState[a.engine] = "Running")
       \/ Told([engine |-> a.engine, route |-> FALSE])

Mailbox == current \in listeners => Agrees(src[current])

\* A seed that would be taken is what the registry says, or the call that changed it will report.
SeedFresh ==
  seed # NoSeed =>
    /\ selector[seed.engine] # "Absent"
    /\ \/ src[current].state.routeKnown
       \/ selector[seed.engine] = seed.value
       \/ Told([engine |-> seed.engine, route |-> TRUE])

MInv == IInv /\ Mailbox /\ SeedFresh

-----------------------------------------------------------------------------
(* The types *)

LEMMA SourceTypes ==
  SourceTypeOK <=>
    /\ selector \in [Engine -> Output \union {"Absent"}]
    /\ engineState \in [Engine -> {"Absent", "Running", "Stopped"}]
    /\ hooked \in BOOLEAN /\ calls \in 0..MaxCalls
    /\ hook \in [Sender -> Call]
    /\ listeners \in SUBSET Source
    /\ src \in [Source -> SourceObject]
BY DEF SourceTypeOK, Call, SourceObject, AudioState

LEMMA UnknownType == Unknown \in AudioState
BY DEF Unknown, AudioState

LEMMA FreedType == Freed \in SourceObject
BY UnknownType DEF Freed, SourceObject

LEMMA QuietType == Quiet \in Call
BY DEF Quiet, Call

-----------------------------------------------------------------------------
(* observe() *)

Taken(a, t, value, seeded) == ~Ignored(a, t, seeded) /\ Bound(a, t, value) # None

LEMMA ObservedType ==
  ASSUME NEW state \in AudioState, NEW e, NEW t, NEW value
  PROVE  Observed(state, e, t, value) \in AudioState
<1>1. (value = "Speakers") \in BOOLEAN /\ (value = "Running") \in BOOLEAN
      /\ (engineState[e] = "Running") \in BOOLEAN
  BY Zenon
<1>2. CASE t.route
  <2> DEFINE routed == [state EXCEPT !.routeKnown = TRUE, !.speakers = (value = "Speakers")]
  <2>1. routed \in AudioState
    BY <1>1 DEF AudioState
  <2>2. Observed(state, e, t, value) =
          IF engineState[e] = "Absent" THEN routed
          ELSE [routed EXCEPT !.engineKnown = TRUE, !.engineRunning = (engineState[e] = "Running")]
    BY <1>2 DEF Observed
  <2> HIDE DEF routed
  <2> QED BY <1>1, <2>1, <2>2 DEF AudioState
<1>3. CASE ~t.route
  BY <1>1, <1>3 DEF Observed, AudioState
<1> QED BY <1>2, <1>3

\* What a report that is taken says.
LEMMA ObservedSays ==
  ASSUME NEW state \in AudioState, NEW e, NEW t, NEW value
  PROVE  LET o == Observed(state, e, t, value)
         IN /\ t.route => /\ o.routeKnown /\ o.speakers = (value = "Speakers")
                          /\ IF engineState[e] = "Absent"
                             THEN o.engineKnown = state.engineKnown /\ o.engineRunning = state.engineRunning
                             ELSE o.engineKnown /\ o.engineRunning = (engineState[e] = "Running")
            /\ ~t.route => /\ o.routeKnown = state.routeKnown /\ o.speakers = state.speakers
                           /\ o.engineKnown /\ o.engineRunning = (value = "Running")
BY DEF Observed, AudioState

\* Everything but the engine, the state and the signal stays; a change signals.
LEMMA ObserveKeeps ==
  ASSUME NEW a \in SourceObject, NEW t \in Sender, NEW value, NEW seeded
  PROVE  LET b == Observe(a, t, value, seeded)
         IN /\ b \in SourceObject
            /\ b.refs = a.refs /\ b.controller = a.controller /\ b.attached = a.attached
            /\ a.pending => b.pending
            /\ b.state = a.state \/ b.pending
            /\ b.engine = None => b = a
            /\ a.engine # None => b.engine = a.engine
            /\ b.engine # a.engine => b.engine = t.engine /\ Parent[t.engine] = a.controller
<1> DEFINE e == Bound(a, t, value)
           o == Observed(a.state, e, t, value)
           b == Observe(a, t, value, seeded)
<1>1. CASE ~Taken(a, t, value, seeded)
  <2>1. b = a
    BY <1>1 DEF Observe, Taken
  <2> QED BY <2>1
<1>2. CASE Taken(a, t, value, seeded)
  <2>1. b = Noted(a, e, o) /\ e # None /\ Parent[t.engine] = a.controller
    BY <1>2 DEF Observe, Taken, Ignored
  <2>2. e \in Engine /\ (a.engine # None => e = a.engine) /\ (e # a.engine => e = t.engine)
    BY <2>1 DEF Bound, SourceObject, Sender
  <2>3. o \in AudioState /\ a.state \in AudioState
    BY ObservedType DEF SourceObject
  <2> DEFINE n == Later(o)
             bound == [a EXCEPT !.engine = e]
             noted == [a EXCEPT !.engine = e, !.pending = TRUE, !.state = n]
  <2>4. n \in AudioState
    BY <2>3 DEF AudioState, Later
  <2>5. b = bound \/ b = noted
    BY <2>1 DEF Noted
  <2> HIDE DEF e, o, n, b
  <2>6. /\ bound \in SourceObject /\ bound.refs = a.refs /\ bound.controller = a.controller
        /\ bound.attached = a.attached /\ bound.pending = a.pending /\ bound.state = a.state
        /\ bound.engine = e
    BY <2>2 DEF SourceObject
  <2>7. /\ noted \in SourceObject /\ noted.refs = a.refs /\ noted.controller = a.controller
        /\ noted.attached = a.attached /\ noted.pending = TRUE /\ noted.engine = e
    BY <2>2, <2>4 DEF SourceObject
  <2> HIDE DEF bound, noted
  <2>8. b \in SourceObject /\ b.engine = e /\ b.refs = a.refs /\ b.controller = a.controller
        /\ b.attached = a.attached /\ (a.pending => b.pending) /\ (b.state = a.state \/ b.pending)
    BY <2>5, <2>6, <2>7
  <2> QED BY <2>1, <2>2, <2>8 DEF b
<1> QED BY <1>1, <1>2

\* The mailbox b after a report that is taken, in terms of the mailbox a before it.
ObserveSaysOf(a, t, value, b) ==
  /\ b \in SourceObject /\ b.engine = Bound(a, t, value) /\ b.engine # None
  /\ t.route =>
       /\ b.state.routeKnown /\ b.state.speakers = (value = "Speakers")
       /\ IF engineState[b.engine] = "Absent"
          THEN /\ b.state.engineKnown = a.state.engineKnown
               /\ b.state.engineRunning = a.state.engineRunning
          ELSE /\ b.state.engineKnown
               /\ b.state.engineRunning = (engineState[b.engine] = "Running")
  /\ ~t.route =>
       /\ b.state.routeKnown = a.state.routeKnown
       /\ b.state.speakers = a.state.speakers
       /\ b.state.engineKnown /\ b.state.engineRunning = (value = "Running")

LEMMA ObserveTaken ==
  ASSUME NEW a \in SourceObject, NEW t \in Sender, NEW value, NEW seeded,
         Taken(a, t, value, seeded)
  PROVE  ObserveSaysOf(a, t, value, Observe(a, t, value, seeded))
<1> DEFINE e == Bound(a, t, value)
           o == Observed(a.state, e, t, value)
           b == Observe(a, t, value, seeded)
           n == Later(o)
<1>1. /\ b.engine = e /\ e # None /\ b.state.routeKnown = o.routeKnown
      /\ b.state.speakers = o.speakers /\ b.state.engineKnown = o.engineKnown
      /\ b.state.engineRunning = o.engineRunning
  <2>1. e # None /\ b = IF o = a.state THEN [a EXCEPT !.engine = e]
                        ELSE [a EXCEPT !.engine = e, !.pending = TRUE, !.state = n]
    BY DEF Observe, Taken, Noted
  <2>2. o \in AudioState
    BY ObservedType DEF SourceObject
  <2> HIDE DEF b, e, o
  <2>3. n.routeKnown = o.routeKnown /\ n.speakers = o.speakers /\ n.engineKnown = o.engineKnown
        /\ n.engineRunning = o.engineRunning
    BY <2>2 DEF AudioState, Later
  <2> HIDE DEF n
  <2> QED BY <2>1, <2>3 DEF SourceObject
<1>2. a.state \in AudioState
  BY DEF SourceObject
<1>3. b \in SourceObject
  BY ObserveKeeps
<1> HIDE DEF b
<1> QED BY <1>1, <1>2, <1>3, ObservedSays DEF ObserveSaysOf, b

-----------------------------------------------------------------------------
(* The references *)

\* The routed calls that hold a source.
Holders(s) == {t \in Sender : s \in hook[t].targets}

LEMMA SenderFinite == IsFiniteSet(Sender)
<1> DEFINE f == [p \in Engine \X BOOLEAN |-> [engine |-> p[1], route |-> p[2]]]
<1>1. IsFiniteSet(Engine)
  BY SourceAssumption
<1>2. IsFiniteSet({TRUE} \cup {FALSE}) /\ BOOLEAN = {TRUE} \cup {FALSE}
  BY FS_Singleton, FS_Union
<1>3. IsFiniteSet(Engine \X BOOLEAN)
  BY <1>1, <1>2, FS_Product
<1>4. ASSUME NEW t \in Sender
      PROVE  \E p \in Engine \X BOOLEAN : f[p] = t
  <2>1. <<t.engine, t.route>> \in Engine \X BOOLEAN /\ t = [engine |-> t.engine, route |-> t.route]
    BY DEF Sender
  <2> QED BY <2>1
<1>5. f \in [Engine \X BOOLEAN -> Sender]
  BY DEF Sender
<1> HIDE DEF f
<1>6. f \in Surjection(Engine \X BOOLEAN, Sender)
  BY <1>4, <1>5 DEF Surjection
<1> QED BY <1>3, <1>6, FS_Surjection

LEMMA HoldersFinite ==
  ASSUME NEW s
  PROVE  /\ IsFiniteSet(Holders(s)) /\ Cardinality(Holders(s)) \in Nat
         /\ Cardinality(Holders(s)) = 0 <=> Holders(s) = {}
<1>1. Holders(s) \in SUBSET Sender
  BY DEF Holders
<1> HIDE DEF Holders
<1>2. IsFiniteSet(Holders(s))
  BY <1>1, SenderFinite, FS_Subset
<1> QED BY <1>2, FS_CardinalityType, FS_EmptySet

LEMMA HoldersFiniteNext ==
  ASSUME NEW s
  PROVE  IsFiniteSet(Holders(s)') /\ Cardinality(Holders(s)') \in Nat
<1>1. Holders(s)' \in SUBSET Sender
  BY DEF Holders
<1>2. IsFiniteSet(Holders(s)')
  BY <1>1, SenderFinite, FS_Subset
<1> QED BY <1>2, FS_CardinalityType

\* A source has the references of its holders, and two of the service.
Owned(s) == IF s = current THEN 2 ELSE 0

LEMMA ReferencesRead ==
  ReferencesAccounted <=>
    \A s \in Source : /\ src[s].refs = Cardinality(Holders(s)) + Owned(s)
                      /\ s \in listeners => s = current
BY DEF ReferencesAccounted, Holders, Owned

LEMMA ReferencesReadNext ==
  ReferencesAccounted' <=>
    \A s \in Source : /\ src'[s].refs = Cardinality(Holders(s)') + Owned(s)'
                      /\ s \in listeners' => s = current'
BY DEF ReferencesAccounted, Holders, Owned

\* release() of n references.
LEMMA ReleasedKeeps ==
  ASSUME NEW a \in SourceObject, NEW n \in Nat, a.refs >= n
  PROVE  /\ Released(a, n) \in SourceObject
         /\ Released(a, n).refs = a.refs - n
         /\ a.refs # n => /\ Released(a, n).controller = a.controller
                          /\ Released(a, n).attached = a.attached
                          /\ Released(a, n).pending = a.pending
                          /\ Released(a, n).engine = a.engine
                          /\ Released(a, n).state = a.state
<1>1. a.refs \in Nat
  BY DEF SourceObject
<1>2. CASE a.refs = n
  <2>1. Released(a, n) = Freed /\ Freed.refs = 0
    BY <1>2 DEF Released, Freed
  <2> QED BY <1>1, <1>2, <2>1, FreedType
<1>3. CASE a.refs # n
  <2> DEFINE k == a.refs - n
             r == [a EXCEPT !.refs = k]
  <2>1. k \in Nat
    BY <1>1
  <2>2. Released(a, n) = r
    BY <1>3 DEF Released
  <2> HIDE DEF k
  <2>3. r \in SourceObject /\ r.refs = k /\ r.controller = a.controller /\ r.attached = a.attached
        /\ r.pending = a.pending /\ r.engine = a.engine /\ r.state = a.state
    BY <2>1 DEF SourceObject
  <2> QED BY <1>3, <2>2, <2>3 DEF k
<1> QED BY <1>2, <1>3

\* No holder comes or goes, and the counts stay.
LEMMA ReferencesStay ==
  ASSUME ReferencesAccounted, hook' = hook, listeners' = listeners, current' = current,
         \A s \in Source : src'[s].refs = src[s].refs
  PROVE  ReferencesAccounted'
<1>1. \A s \in Source : Holders(s)' = Holders(s) /\ Owned(s)' = Owned(s)
  BY DEF Holders, Owned
<1> QED BY <1>1, ReferencesRead, ReferencesReadNext

-----------------------------------------------------------------------------
(* The hook threads *)

SourceInv == SourceTypeOK /\ InFlight /\ ReferencesAccounted

ServiceInv ==
  /\ ServiceTypes /\ Owner /\ Known /\ Seeding /\ RunFacts /\ SleepsOnlySettled

LEMMA Parts ==
  /\ IInv <=> SourceInv /\ ServiceInv
  /\ IInv' <=> SourceInv' /\ ServiceInv'
BY DEF IInv, SourceInv, ServiceInv

\* What a report may do to the mailbox of the service.
Heard(a, b) ==
  /\ b.attached = a.attached /\ b.controller = a.controller
  /\ a.pending => b.pending
  /\ b.state = a.state \/ b.pending
  /\ b.engine = None => a.engine = None /\ b.state = a.state
  /\ b.engine # a.engine => Parent[b.engine] = a.controller

SameReferences(a, b) == b \in SourceObject /\ b.refs = a.refs

LEMMA ObserveSameReferences ==
  ASSUME NEW a \in SourceObject, NEW t \in Sender, NEW value, NEW seeded
  PROVE  SameReferences(a, Observe(a, t, value, seeded))
BY ObserveKeeps DEF SameReferences

LEMMA ObserveHeard ==
  ASSUME NEW a \in SourceObject, NEW t \in Sender, NEW value, NEW seeded
  PROVE  Heard(a, Observe(a, t, value, seeded))
BY ObserveKeeps DEF Heard

\* A hook thread leaves the service as it was, and only adds to its mailbox.
LEMMA HookLeavesService ==
  ASSUME ServiceInv, UNCHANGED serviceVars, listeners' = listeners, hooked => hooked',
         current # None => Heard(src[current], src'[current])
  PROVE  ServiceInv'
<1>1. /\ power' = power /\ timer' = timer /\ current' = current /\ hdaPci' = hdaPci
      /\ audioState' = audioState /\ live' = live /\ upsets' = upsets /\ pc' = pc /\ then' = then
      /\ todo' = todo /\ seed' = seed /\ run' = run /\ output' = output /\ prepared' = prepared
  BY DEF serviceVars
<1>2. ServiceTypes' /\ RunFacts'
  BY <1>1 DEF ServiceInv, ServiceTypes, RunFacts, At, Tearing
<1>3. Owner'
  BY <1>1 DEF ServiceInv, Owner, Tearing, Heard
<1>4. Known'
  BY <1>1 DEF ServiceInv, Known, Tearing, Heard
<1>5. Seeding'
  BY <1>1 DEF ServiceInv, Seeding, Owner, Heard
<1>6. SleepsOnlySettled'
  BY <1>1 DEF ServiceInv, SleepsOnlySettled, Heard
<1> QED BY <1>2, <1>3, <1>4, <1>5, <1>6 DEF ServiceInv

LEMMA HeardItself ==
  ASSUME NEW a
  PROVE  Heard(a, a)
BY DEF Heard

LEMMA CurrentSource ==
  ASSUME ServiceInv, current # None
  PROVE  current \in Source
BY DEF ServiceInv, ServiceTypes

LEMMA InstallHooksStep ==
  ASSUME IInv, InstallHooks, UNCHANGED serviceVars
  PROVE  IInv'
<1>1. /\ hooked' = TRUE /\ selector' = selector /\ engineState' = engineState /\ calls' = calls
      /\ hook' = hook /\ listeners' = listeners /\ src' = src /\ current' = current
  BY DEF InstallHooks, serviceVars
<1>2. SourceTypeOK'
  BY <1>1 DEF IInv, SourceTypeOK
<1>3. InFlight'
  BY <1>1 DEF IInv, InFlight
<1>4. ReferencesAccounted'
  BY <1>1, ReferencesStay DEF IInv
<1>5. ServiceInv'
  BY <1>1, Parts, HeardItself, HookLeavesService
<1> QED BY <1>2, <1>3, <1>4, <1>5, Parts DEF SourceInv

LEMMA AppearStep ==
  ASSUME IInv, NEW e \in Engine, Appear(e), UNCHANGED serviceVars
  PROVE  IInv'
<1>1. PICK value \in Output :
        /\ selector[e] = "Absent" /\ selector' = [selector EXCEPT ![e] = value]
        /\ engineState' = engineState /\ hooked' = hooked /\ calls' = calls
        /\ hook' = hook /\ listeners' = listeners /\ src' = src /\ current' = current
  BY DEF Appear, serviceVars
<1>2. SourceTypeOK'
  BY <1>1 DEF IInv, SourceTypeOK
<1>3. InFlight'
  BY <1>1 DEF IInv, InFlight, SourceTypeOK, Sender
<1>4. ReferencesAccounted'
  BY <1>1, ReferencesStay DEF IInv
<1>5. ServiceInv'
  BY <1>1, Parts, HeardItself, HookLeavesService
<1> QED BY <1>2, <1>3, <1>4, <1>5, Parts DEF SourceInv

LEMMA OriginalStep ==
  ASSUME IInv, NEW t \in Sender, Original(t), UNCHANGED serviceVars
  PROVE  IInv'
<1>1. /\ hook[t] = Quiet /\ calls < MaxCalls /\ calls' = calls + 1
      /\ hooked' = hooked /\ listeners' = listeners /\ src' = src /\ current' = current
  BY DEF Original, serviceVars
<1>2. PICK value \in IF t.route THEN Output ELSE {"Running", "Stopped"} :
        /\ IF t.route
           THEN selector' = [selector EXCEPT ![t.engine] = value] /\ engineState' = engineState
           ELSE engineState' = [engineState EXCEPT ![t.engine] = value] /\ selector' = selector
        /\ hook' = IF hooked
                   THEN [hook EXCEPT ![t] = [value |-> value, published |-> FALSE, targets |-> {}]]
                   ELSE hook
  BY DEF Original
<1>3. /\ selector \in [Engine -> Output \union {"Absent"}]
      /\ engineState \in [Engine -> {"Absent", "Running", "Stopped"}]
      /\ hook \in [Sender -> Call] /\ calls \in 0..MaxCalls /\ hooked \in BOOLEAN
      /\ listeners \in SUBSET Source /\ src \in [Source -> SourceObject]
  BY SourceTypes DEF IInv
<1>4. t.engine \in Engine
  BY DEF Sender
<1>5. value # "Absent" /\ value \in Output \union {"Running", "Stopped"}
  BY <1>2, SourceAssumption
<1>6. [value |-> value, published |-> FALSE, targets |-> {}] \in Call
  BY <1>5 DEF Call
<1>7. SourceTypeOK'
  <2>1. calls' \in 0..MaxCalls
    BY <1>1, <1>3, SourceAssumption
  <2>2. hook' \in [Sender -> Call]
    BY <1>2, <1>3, <1>6
  <2>3. selector' \in [Engine -> Output \union {"Absent"}]
    BY <1>2, <1>3, <1>4
  <2>4. engineState' \in [Engine -> {"Absent", "Running", "Stopped"}]
    BY <1>2, <1>3, <1>4
  <2> QED BY <1>1, <1>3, <2>1, <2>2, <2>3, <2>4 DEF SourceTypeOK, Call, SourceObject, AudioState
<1>8. InFlight'
  <2> SUFFICES ASSUME NEW u \in Sender
               PROVE  /\ ~hook'[u].published => hook'[u].targets = {}
                      /\ hook'[u] # Quiet =>
                           /\ hook'[u].value = IF u.route THEN selector'[u.engine]
                                               ELSE engineState'[u.engine]
                           /\ hook'[u].value # "Absent"
    BY DEF InFlight
  <2>1. CASE u = t
    <3>1. value = IF t.route THEN selector'[t.engine] ELSE engineState'[t.engine]
      BY <1>2, <1>3, <1>4
    <3>2. hook'[t] = Quiet \/ hook'[t] = [value |-> value, published |-> FALSE, targets |-> {}]
      BY <1>1, <1>2, <1>3
    <3> QED BY <1>5, <2>1, <3>1, <3>2 DEF Quiet
  <2>2. CASE u # t
    <3>1. hook'[u] = hook[u]
      BY <1>2, <1>3, <2>2
    <3>2. u.engine # t.engine \/ u.route # t.route
      BY <2>2 DEF Sender
    <3>3. u.route => selector'[u.engine] = selector[u.engine]
      BY <1>2, <1>3, <3>2 DEF Sender
    <3>4. ~u.route => engineState'[u.engine] = engineState[u.engine]
      BY <1>2, <1>3, <3>2 DEF Sender
    <3> QED BY <3>1, <3>3, <3>4 DEF IInv, InFlight
  <2> QED BY <2>1, <2>2
<1>9. ReferencesAccounted'
  <2>1. \A u \in Sender : hook'[u].targets = hook[u].targets
    BY SMTT(60), <1>1, <1>2, <1>3 DEF Quiet
  <2>2. \A s \in Source : Holders(s)' = Holders(s) /\ Owned(s)' = Owned(s)
    BY <1>1, <2>1 DEF Holders, Owned
  <2> QED BY <1>1, <2>2, ReferencesRead, ReferencesReadNext DEF IInv
<1>10. ServiceInv'
  BY <1>1, Parts, HeardItself, HookLeavesService
<1> QED BY <1>7, <1>8, <1>9, <1>10, Parts DEF SourceInv

LEMMA PublishStep ==
  ASSUME IInv, NEW t \in Sender, Publish(t), UNCHANGED serviceVars
  PROVE  IInv'
<1> DEFINE call == IF listeners = {} THEN Quiet
                   ELSE [hook[t] EXCEPT !.published = TRUE, !.targets = listeners]
<1>1. /\ ~hook[t].published
      /\ hook' = [hook EXCEPT ![t] = call]
      /\ src' = [s \in Source |-> IF s \in listeners THEN [src[s] EXCEPT !.refs = @ + 1] ELSE src[s]]
      /\ selector' = selector /\ engineState' = engineState /\ hooked' = hooked /\ calls' = calls
      /\ listeners' = listeners /\ current' = current
  BY DEF Publish, serviceVars
<1>2. /\ hook \in [Sender -> Call] /\ listeners \in SUBSET Source /\ src \in [Source -> SourceObject]
  BY SourceTypes DEF IInv
<1>3. call \in Call /\ call.targets = listeners
      /\ (call # Quiet => call.value = hook[t].value /\ call.published)
  BY <1>2, QuietType DEF Call, Quiet
<1>4. hook[t].targets = {} /\ hook[t] # Quiet
  BY <1>1 DEF IInv, InFlight, Quiet
<1> HIDE DEF call
<1>5. ASSUME NEW s \in Source
      PROVE  /\ src'[s] \in SourceObject
             /\ src'[s].refs = IF s \in listeners THEN src[s].refs + 1 ELSE src[s].refs
             /\ Heard(src[s], src'[s])
  <2>1. src[s] \in SourceObject /\ src[s].refs \in Nat
    BY <1>2 DEF SourceObject
  <2> DEFINE more == src[s].refs + 1
             b == [src[s] EXCEPT !.refs = more]
  <2>2. more \in Nat
    BY <2>1
  <2>3. src'[s] = IF s \in listeners THEN b ELSE src[s]
    BY <1>1
  <2> HIDE DEF more
  <2>4. b \in SourceObject /\ b.refs = more /\ Heard(src[s], b)
    BY <2>1, <2>2 DEF SourceObject, Heard
  <2> HIDE DEF b
  <2> QED BY <2>1, <2>3, <2>4 DEF more, Heard
<1>6. SourceTypeOK'
  <2>1. hook' \in [Sender -> Call]
    BY <1>1, <1>2, <1>3
  <2>2. src' \in [Source -> SourceObject]
    BY <1>1, <1>5
  <2> QED BY <1>1, <2>1, <2>2 DEF IInv, SourceTypeOK, Call, SourceObject, AudioState
<1>7. InFlight'
  <2>1. ASSUME NEW u \in Sender
        PROVE  hook'[u] = IF u = t THEN call ELSE hook[u]
    BY <1>1, <1>2
  <2>2. ~call.published => call.targets = {}
    BY <1>3 DEF Quiet
  <2> QED BY <1>1, <1>3, <1>4, <2>1, <2>2 DEF IInv, InFlight
<1>8. ReferencesAccounted'
  <2> SUFFICES ASSUME NEW s \in Source
               PROVE  src'[s].refs = Cardinality(Holders(s)') + Owned(s)'
    BY <1>1, ReferencesRead, ReferencesReadNext DEF IInv
  <2>1. src[s].refs = Cardinality(Holders(s)) + Owned(s) /\ Owned(s)' = Owned(s)
    BY <1>1, ReferencesRead DEF IInv, Owned
  <2>2. Cardinality(Holders(s)) \in Nat /\ IsFiniteSet(Holders(s)) /\ Owned(s) \in Nat
    BY HoldersFinite DEF Owned
  <2>3. CASE s \in listeners
    <3>1. Holders(s)' = Holders(s) \cup {t} /\ t \notin Holders(s)
      BY <1>1, <1>2, <1>3, <1>4, <2>3 DEF Holders
    <3>2. Cardinality(Holders(s)') = Cardinality(Holders(s)) + 1
      BY <2>2, <3>1, FS_AddElement
    <3> QED BY <1>5, <2>1, <2>2, <2>3, <3>2
  <2>4. CASE s \notin listeners
    <3>1. Holders(s)' = Holders(s)
      BY <1>1, <1>2, <1>3, <1>4, <2>4 DEF Holders
    <3> QED BY <1>5, <2>1, <2>4, <3>1
  <2> QED BY <2>3, <2>4
<1>9. ServiceInv'
  BY <1>1, <1>5, Parts, CurrentSource, HookLeavesService
<1> QED BY <1>6, <1>7, <1>8, <1>9, Parts DEF SourceInv

\* What a delivery does: s observes, and is released.
LEMMA DeliverDoes ==
  ASSUME IInv, NEW t \in Sender, Deliver(t), UNCHANGED serviceVars
  PROVE  \E s \in hook[t].targets :
           LET b == Observe(src[s], t, hook[t].value, FALSE)
           IN /\ s \in Source /\ b \in SourceObject /\ b.refs = src[s].refs /\ b.refs \in Nat
              /\ b.refs >= 1 /\ (s = current => b.refs > 2)
              /\ src' = [src EXCEPT ![s] = Released(b, 1)]
              /\ Released(b, 1) \in SourceObject /\ Released(b, 1).refs = b.refs - 1
              /\ s = current => Heard(src[s], Released(b, 1))
              /\ \E call \in Call :
                   /\ hook' = [hook EXCEPT ![t] = call]
                   /\ call.targets = hook[t].targets \ {s}
                   /\ call # Quiet => call.value = hook[t].value /\ call.published
                   /\ call = Quiet => hook[t].targets = {s}
<1>1. PICK s \in hook[t].targets :
        /\ src' = [src EXCEPT ![s] = Released(Observe(src[s], t, hook[t].value, FALSE), 1)]
        /\ hook' = [hook EXCEPT ![t] = Delivered(@, s)]
  BY DEF Deliver
<1> DEFINE b == Observe(src[s], t, hook[t].value, FALSE)
           call == Delivered(hook[t], s)
<1>2. /\ hook \in [Sender -> Call] /\ src \in [Source -> SourceObject]
  BY SourceTypes DEF IInv
<1>3. s \in Source /\ src[s] \in SourceObject
  BY <1>2 DEF Call
<1>4. b \in SourceObject /\ b.refs = src[s].refs /\ Heard(src[s], b)
  <2>0. t \in Sender /\ src[s] \in SourceObject
    BY <1>3
  <2>1. SameReferences(src[s], b)
    BY <2>0, ObserveSameReferences, Zenon
  <2>2. Heard(src[s], b)
    BY <1>3, ObserveHeard, Zenon
  <2> QED BY <2>1, <2>2 DEF SameReferences
<1>5. t \in Holders(s)
  BY DEF Holders
<1>6. Cardinality(Holders(s)) \in Nat /\ Cardinality(Holders(s)) # 0
  BY <1>5, HoldersFinite
<1>7. src[s].refs = Cardinality(Holders(s)) + Owned(s)
  BY <1>3, ReferencesRead DEF IInv
<1>8. b.refs \in Nat /\ b.refs >= 1 /\ (s = current => b.refs > 2)
  <2> DEFINE n == Cardinality(Holders(s))
             m == b.refs
  <2>1. m = n + Owned(s) /\ n \in Nat /\ n # 0
    BY <1>4, <1>6, <1>7
  <2> HIDE DEF n, m
  <2>2. m \in Nat /\ m >= 1 /\ (s = current => m > 2)
    BY <2>1 DEF Owned
  <2> QED BY <2>2 DEF m
<1>9. Released(b, 1) \in SourceObject /\ Released(b, 1).refs = b.refs - 1
  BY <1>4, <1>8, ReleasedKeeps
<1>10. s = current => Heard(src[s], Released(b, 1))
  <2> HIDE DEF b
  <2>1. s = current => b.refs # 1
    BY <1>8
  <2> QED BY <1>4, <1>8, <2>1, ReleasedKeeps DEF Heard
<1>11. /\ call \in Call /\ call.targets = hook[t].targets \ {s}
       /\ call # Quiet => call.value = hook[t].value /\ call.published
       /\ call = Quiet => hook[t].targets = {s}
  <2>1. hook[t].published
    BY DEF IInv, InFlight
  <2>2. hook[t] \in Call
    BY <1>2
  <2>3. CASE hook[t].targets = {s}
    BY <2>3, QuietType DEF Quiet, Delivered
  <2>4. CASE hook[t].targets # {s}
    <3>1. hook[t].targets \ {s} # {}
      BY <2>4
    <3> QED BY <2>1, <2>2, <2>4, <3>1 DEF Call, Quiet, Delivered
  <2> QED BY <2>3, <2>4
<1> HIDE DEF b, call
<1>12. src' = [src EXCEPT ![s] = Released(b, 1)] /\ hook' = [hook EXCEPT ![t] = call]
  <2>1. src' = [src EXCEPT ![s] = Released(b, 1)]
    BY <1>1 DEF b
  <2>2. hook' = [hook EXCEPT ![t] = call]
    BY <1>1 DEF call
  <2> QED BY <2>1, <2>2
<1> QED BY <1>3, <1>4, <1>8, <1>9, <1>10, <1>11, <1>12 DEF b

LEMMA DeliverStep ==
  ASSUME IInv, NEW t \in Sender, Deliver(t), UNCHANGED serviceVars
  PROVE  IInv'
<1>1. PICK s \in hook[t].targets :
        LET b == Observe(src[s], t, hook[t].value, FALSE)
        IN /\ s \in Source /\ b \in SourceObject /\ b.refs = src[s].refs /\ b.refs \in Nat
           /\ src' = [src EXCEPT ![s] = Released(b, 1)]
           /\ Released(b, 1) \in SourceObject /\ Released(b, 1).refs = b.refs - 1
           /\ s = current => Heard(src[s], Released(b, 1))
           /\ \E call \in Call :
                /\ hook' = [hook EXCEPT ![t] = call]
                /\ call.targets = hook[t].targets \ {s}
                /\ call # Quiet => call.value = hook[t].value /\ call.published
  BY DeliverDoes
<1> DEFINE left == Released(Observe(src[s], t, hook[t].value, FALSE), 1)
<1>2. /\ src' = [src EXCEPT ![s] = left] /\ left \in SourceObject
      /\ left.refs = src[s].refs - 1 /\ src[s].refs \in Nat
      /\ s = current => Heard(src[s], left)
      /\ s \in Source
  BY <1>1
<1>3. PICK call \in Call :
        /\ hook' = [hook EXCEPT ![t] = call]
        /\ call.targets = hook[t].targets \ {s}
        /\ call # Quiet => call.value = hook[t].value /\ call.published
  BY <1>1
<1>4. /\ hook \in [Sender -> Call] /\ src \in [Source -> SourceObject]
  BY SourceTypes DEF IInv
<1>5. /\ selector' = selector /\ engineState' = engineState /\ hooked' = hooked /\ calls' = calls
      /\ listeners' = listeners /\ current' = current
  BY DEF Deliver, serviceVars
<1> HIDE DEF left
<1>6. SourceTypeOK'
  <2>1. hook' \in [Sender -> Call] /\ src' \in [Source -> SourceObject]
    BY <1>2, <1>3, <1>4
  <2> QED BY <1>5, <2>1 DEF IInv, SourceTypeOK, Call, SourceObject, AudioState
<1>7. InFlight'
  <2>1. hook[t] # Quiet
    BY DEF Quiet
  <2>2. ASSUME NEW u \in Sender
        PROVE  hook'[u] = IF u = t THEN call ELSE hook[u]
    BY <1>3, <1>4
  <2>3. ~call.published => call.targets = {}
    BY <1>3 DEF Quiet
  <2> QED BY <1>3, <1>5, <2>1, <2>2, <2>3 DEF IInv, InFlight
<1>8. ReferencesAccounted'
  <2> SUFFICES ASSUME NEW r \in Source
               PROVE  src'[r].refs = Cardinality(Holders(r)') + Owned(r)'
    BY <1>5, ReferencesRead, ReferencesReadNext DEF IInv
  <2>1. src[r].refs = Cardinality(Holders(r)) + Owned(r) /\ Owned(r)' = Owned(r)
    BY <1>5, ReferencesRead DEF IInv, Owned
  <2>2. Cardinality(Holders(r)) \in Nat /\ IsFiniteSet(Holders(r)) /\ Owned(r) \in Nat
    BY HoldersFinite DEF Owned
  <2>3. CASE r = s
    <3>1. Holders(r)' = Holders(r) \ {t} /\ t \in Holders(r)
      BY <1>3, <1>4, <2>3 DEF Holders
    <3>2. Cardinality(Holders(r)') = Cardinality(Holders(r)) - 1
      BY <2>2, <3>1, FS_RemoveElement
    <3>3. src'[r].refs = src[r].refs - 1
      BY <1>2, <1>4, <2>3
    <3> QED BY <2>1, <2>2, <3>2, <3>3
  <2>4. CASE r # s
    <3>1. Holders(r)' = Holders(r)
      BY <1>3, <1>4, <2>4 DEF Holders
    <3>2. src'[r].refs = src[r].refs
      BY <1>2, <1>4, <2>4
    <3> QED BY <2>1, <3>1, <3>2
  <2> QED BY <2>3, <2>4
<1>9. ServiceInv'
  <2>1. current # None => Heard(src[current], src'[current])
    BY <1>2, <1>4, Parts, CurrentSource, HeardItself
  <2> QED BY <1>5, <2>1, Parts, HookLeavesService
<1> QED BY <1>6, <1>7, <1>8, <1>9, Parts DEF SourceInv

-----------------------------------------------------------------------------
(* The workloop, without the mailbox *)

LEMMA SourceStays ==
  ASSUME IInv, UNCHANGED <<sourceVars, current>>
  PROVE  SourceInv'
<1>1. /\ selector' = selector /\ engineState' = engineState /\ hooked' = hooked /\ calls' = calls
      /\ hook' = hook /\ listeners' = listeners /\ src' = src /\ current' = current
  BY DEF sourceVars
<1>2. SourceTypeOK'
  BY <1>1 DEF IInv, SourceTypeOK
<1>3. InFlight'
  BY <1>1 DEF IInv, InFlight
<1>4. ReferencesAccounted'
  BY <1>1, ReferencesStay DEF IInv
<1> QED BY <1>2, <1>3, <1>4 DEF SourceInv

LEMMA ChangeControllerStep ==
  ASSUME IInv, ChangeController
  PROVE  IInv'
<1>1. SourceInv'
  BY SourceStays DEF ChangeController
<1>2. ServiceTypes'
  BY UnknownType, RoutingAssumption DEF IInv, ServiceTypes, OutputState, Step, ChangeController
<1>3. Owner' /\ Seeding'
  BY DEF IInv, Owner, Seeding, Tearing, sourceVars, ChangeController
<1>4. Known'
  BY DEF IInv, Known, Tearing, sourceVars, ChangeController
<1>5. RunFacts'
  BY DEF IInv, RunFacts, At, Tearing, sourceVars, ChangeController
<1>6. SleepsOnlySettled'
  BY DEF IInv, SleepsOnlySettled, sourceVars, ChangeController
<1> QED BY <1>1, <1>2, <1>3, <1>4, <1>5, <1>6, Parts DEF ServiceInv

LEMMA TimerFiredStep ==
  ASSUME IInv, TimerFired
  PROVE  IInv'
<1>1. SourceInv'
  BY SourceStays DEF TimerFired
<1>2. ServiceTypes'
  <2>1. /\ timer' = FALSE /\ pc' \in {"Sync", pc} /\ then' = then /\ power' = power
        /\ current' = current /\ hdaPci' = hdaPci /\ audioState' = audioState /\ live' = live
        /\ upsets' = upsets /\ todo' = todo /\ seed' = seed /\ run' = run /\ output' = output
        /\ prepared' = prepared
    BY DEF TimerFired, Runs, GoTo
  <2>2. ServiceTypes
    BY DEF IInv
  <2>3. pc' \in Step
    BY <2>1, <2>2 DEF ServiceTypes, OutputState, Step
  <2> QED BY ZenonT(60), <2>1, <2>2, <2>3 DEF ServiceTypes
<1>3. Owner' /\ Seeding'
  BY DEF IInv, Owner, Seeding, Tearing, sourceVars, TimerFired, Runs, GoTo
<1>4. Known'
  BY DEF IInv, Known, Tearing, sourceVars, TimerFired, Runs, GoTo
<1>5. RunFacts'
  BY DEF IInv, RunFacts, At, Tearing, sourceVars, TimerFired, Runs, GoTo
<1>6. SleepsOnlySettled'
  BY DEF IInv, SleepsOnlySettled, sourceVars, TimerFired, Runs, GoTo
<1> QED BY <1>1, <1>2, <1>3, <1>4, <1>5, <1>6, Parts DEF ServiceInv

LEMMA PowerOffStep ==
  ASSUME IInv, PowerOff
  PROVE  IInv'
<1>1. SourceInv'
  BY SourceStays DEF PowerOff
<1>2. ServiceTypes'
  <2>1. /\ timer' = FALSE /\ pc' \in {"Idle", "Unlist"} /\ then' \in {then, "Idle"} /\ power' = FALSE
        /\ current' = current /\ hdaPci' = None /\ audioState' = Unknown /\ live' = live
        /\ todo' = todo /\ seed' = seed /\ run' = run /\ output' \in {"Silent", "Faulted"}
        /\ prepared' = 0
    BY DEF PowerOff, TeardownTo, GoTo
  <2>2. upsets' \in 0..MaxUpsets
    BY RoutingAssumption DEF PowerOff, IInv, ServiceTypes
  <2> QED BY <2>1, <2>2, UnknownType DEF IInv, ServiceTypes, OutputState, Step
<1>3. Owner' /\ Seeding'
  BY DEF IInv, Owner, Seeding, Tearing, sourceVars, PowerOff, TeardownTo, GoTo
<1>4. Known'
  BY DEF IInv, Known, Tearing, sourceVars, PowerOff, TeardownTo, GoTo
<1>5. RunFacts'
  BY DEF IInv, RunFacts, At, Tearing, sourceVars, PowerOff, TeardownTo, GoTo
<1>6. SleepsOnlySettled'
  BY DEF IInv, SleepsOnlySettled, sourceVars, PowerOff, TeardownTo, GoTo
<1> QED BY <1>1, <1>2, <1>3, <1>4, <1>5, <1>6, Parts DEF ServiceInv

LEMMA PowerOnStep ==
  ASSUME IInv, PowerOn
  PROVE  IInv'
<1>1. SourceInv'
  BY SourceStays DEF PowerOn
<1>2. ServiceTypes'
  BY UnknownType, RoutingAssumption DEF IInv, ServiceTypes, OutputState, Step, PowerOn
<1>3. Owner' /\ Seeding'
  BY DEF IInv, Owner, Seeding, Tearing, sourceVars, PowerOn
<1>4. Known'
  BY DEF IInv, Known, Tearing, sourceVars, PowerOn
<1>5. RunFacts'
  BY DEF IInv, RunFacts, At, Tearing, sourceVars, PowerOn
<1>6. SleepsOnlySettled'
  BY DEF IInv, SleepsOnlySettled, sourceVars, PowerOn
<1> QED BY <1>1, <1>2, <1>3, <1>4, <1>5, <1>6, Parts DEF ServiceInv

LEMMA ControllerGoneStep ==
  ASSUME IInv, ControllerGone
  PROVE  IInv'
<1>1. SourceInv'
  BY SourceStays DEF ControllerGone
<1>2. ServiceTypes'
  BY UnknownType, RoutingAssumption DEF IInv, ServiceTypes, OutputState, Step, ControllerGone, SyncSteps, TeardownTo, GoTo
<1>3. Owner' /\ Seeding'
  BY DEF IInv, Owner, Seeding, Tearing, sourceVars, ControllerGone, SyncSteps, TeardownTo, GoTo
<1>4. Known'
  BY DEF IInv, Known, Tearing, sourceVars, ControllerGone, SyncSteps, TeardownTo, GoTo
<1>5. RunFacts'
  BY DEF IInv, RunFacts, At, Tearing, sourceVars, ControllerGone, SyncSteps, TeardownTo, GoTo
<1>6. SleepsOnlySettled'
  BY DEF IInv, SleepsOnlySettled, sourceVars, ControllerGone, SyncSteps, TeardownTo, GoTo
<1> QED BY <1>1, <1>2, <1>3, <1>4, <1>5, <1>6, Parts DEF ServiceInv

LEMMA ControllerMissingStep ==
  ASSUME IInv, ControllerMissing
  PROVE  IInv'
<1>1. SourceInv'
  BY SourceStays DEF ControllerMissing
<1>2. ServiceTypes'
  <2>1. /\ pc' \in {"Setup", "Cancel"} /\ then' = then /\ power' = power /\ timer' = timer
        /\ current' = current /\ hdaPci' = hdaPci /\ audioState' = audioState /\ live' = live
        /\ upsets' = upsets /\ todo' = todo /\ seed' = seed /\ output' = output
        /\ prepared' = prepared /\ run' = [run EXCEPT !.stream = FALSE]
    BY DEF ControllerMissing, SyncSteps, Unseen, GoTo
  <2>2. pc' \in Step
    BY <2>1 DEF Step
  <2>3. run' \in [stream : BOOLEAN, state : AudioState]
    BY <2>1 DEF IInv, ServiceTypes
  <2> QED BY <2>1, <2>2, <2>3 DEF IInv, ServiceTypes
<1>3. Owner' /\ Seeding'
  BY DEF IInv, Owner, Seeding, Tearing, sourceVars, ControllerMissing, SyncSteps, Unseen, GoTo
<1>4. Known'
  BY DEF IInv, Known, Tearing, sourceVars, ControllerMissing, SyncSteps, Unseen, GoTo
<1>5. RunFacts'
  BY DEF IInv, RunFacts, At, Tearing, sourceVars, ControllerMissing, SyncSteps, Unseen, GoTo
<1>6. SleepsOnlySettled'
  BY DEF IInv, SleepsOnlySettled, sourceVars, ControllerMissing, SyncSteps, Unseen, GoTo
<1> QED BY <1>1, <1>2, <1>3, <1>4, <1>5, <1>6, Parts DEF ServiceInv

LEMMA ControllerNotReadyStep ==
  ASSUME IInv, ControllerNotReady
  PROVE  IInv'
<1>1. SourceInv'
  BY SourceStays DEF ControllerNotReady
<1>2. ServiceTypes'
  <2>1. /\ pc' \in {"Setup", "Cancel", "Unlist"} /\ then' \in {then, "Setup", "Cancel"}
        /\ power' = power /\ timer' = timer
        /\ current' = current /\ hdaPci' = None /\ audioState' = Unknown /\ live' = live
        /\ upsets' = upsets /\ todo' = todo /\ seed' = seed /\ output' = output
        /\ prepared' = prepared /\ run' = [run EXCEPT !.stream = FALSE]
    BY DEF ControllerNotReady, SyncSteps, Unseen, TeardownTo, GoTo
  <2>2. pc' \in Step
    BY <2>1 DEF Step
  <2>3. run' \in [stream : BOOLEAN, state : AudioState]
    BY <2>1 DEF IInv, ServiceTypes
  <2>4. then' \in {"Idle", "Sync", "SyncAgain", "SyncCommit", "Setup", "Cancel"}
    BY <2>1 DEF IInv, ServiceTypes
  <2> QED BY <2>1, <2>2, <2>3, <2>4, UnknownType DEF IInv, ServiceTypes
<1>3. Owner' /\ Seeding'
  BY DEF IInv, Owner, Seeding, Tearing, sourceVars, ControllerNotReady, SyncSteps, Unseen, TeardownTo, GoTo
<1>4. Known'
  BY DEF IInv, Known, Tearing, sourceVars, ControllerNotReady, SyncSteps, Unseen, TeardownTo, GoTo
<1>5. RunFacts'
  BY DEF IInv, RunFacts, At, Tearing, sourceVars, ControllerNotReady, SyncSteps, Unseen, TeardownTo, GoTo
<1>6. SleepsOnlySettled'
  BY DEF IInv, SleepsOnlySettled, sourceVars, ControllerNotReady, SyncSteps, Unseen, TeardownTo, GoTo
<1> QED BY <1>1, <1>2, <1>3, <1>4, <1>5, <1>6, Parts DEF ServiceInv

LEMMA StreamObservedStep ==
  ASSUME IInv, StreamObserved
  PROVE  IInv'
<1>1. SourceInv'
  BY SourceStays DEF StreamObserved
<1>2. ServiceTypes'
  BY UnknownType, RoutingAssumption DEF IInv, ServiceTypes, OutputState, Step, StreamObserved, SyncSteps, Seen, Unseen, GoTo
<1>3. Owner' /\ Seeding'
  BY DEF IInv, Owner, Seeding, Tearing, sourceVars, StreamObserved, SyncSteps, Seen, Unseen, GoTo
<1>4. Known'
  BY DEF IInv, Known, Tearing, sourceVars, StreamObserved, SyncSteps, Seen, Unseen, GoTo
<1>5. RunFacts'
  BY DEF IInv, RunFacts, At, Tearing, sourceVars, StreamObserved, SyncSteps, Seen, Unseen, GoTo
<1>6. SleepsOnlySettled'
  BY DEF IInv, SleepsOnlySettled, sourceVars, StreamObserved, SyncSteps, Seen, Unseen, GoTo
<1> QED BY <1>1, <1>2, <1>3, <1>4, <1>5, <1>6, Parts DEF ServiceInv

LEMMA RefreshRouteStep ==
  ASSUME IInv, RefreshRoute
  PROVE  IInv'
<1>1. SourceInv'
  BY SourceStays DEF RefreshRoute
<1>2. ServiceTypes'
  BY UnknownType, RoutingAssumption DEF IInv, ServiceTypes, OutputState, Step, RefreshRoute, GoTo
<1>3. Owner' /\ Seeding'
  BY DEF IInv, Owner, Seeding, Tearing, sourceVars, RefreshRoute, GoTo
<1>4. Known'
  BY DEF IInv, Known, Tearing, sourceVars, RefreshRoute, GoTo
<1>5. RunFacts'
  BY DEF IInv, RunFacts, At, Tearing, sourceVars, RefreshRoute, GoTo
<1>6. SleepsOnlySettled'
  BY DEF IInv, SleepsOnlySettled, sourceVars, RefreshRoute, GoTo
<1> QED BY <1>1, <1>2, <1>3, <1>4, <1>5, <1>6, Parts DEF ServiceInv

LEMMA SeedReadStep ==
  ASSUME IInv, SeedRead
  PROVE  IInv'
<1>1. SourceInv'
  BY SourceStays DEF SeedRead
<1>2. PICK e \in todo :
        /\ pc = "Seed" /\ seed = NoSeed /\ todo' = todo \ {e}
        /\ seed' = IF selector[e] = "Absent" THEN NoSeed ELSE [engine |-> e, value |-> selector[e]]
        /\ UNCHANGED sourceVars /\ power' = power /\ timer' = timer /\ pc' = pc /\ then' = then
        /\ current' = current /\ hdaPci' = hdaPci /\ audioState' = audioState /\ live' = live
        /\ upsets' = upsets /\ run' = run /\ output' = output /\ prepared' = prepared
  BY DEF SeedRead
<1>8. e \in Engine /\ selector[e] \in Output \union {"Absent"}
  BY DEF IInv, ServiceTypes, SourceTypeOK
<1>7. ServiceTypes'
  BY <1>2, <1>8 DEF IInv, ServiceTypes, OutputState, Step, NoSeed
<1>3. Owner' /\ Seeding'
  <2>1. Owner'
    BY DEF IInv, Owner, Tearing, sourceVars, SeedRead
  <2>2. Seeding'
    BY <1>2, <1>8 DEF IInv, Seeding, sourceVars, NoSeed
  <2> QED BY <2>1, <2>2
<1>4. Known'
  BY DEF IInv, Known, Tearing, sourceVars, SeedRead
<1>5. RunFacts'
  BY DEF IInv, RunFacts, At, Tearing, sourceVars, SeedRead
<1>6. SleepsOnlySettled'
  BY DEF IInv, SleepsOnlySettled, sourceVars, SeedRead
<1> QED BY <1>1, <1>7, <1>3, <1>4, <1>5, <1>6, Parts DEF ServiceInv

LEMMA TakeSnapshotStep ==
  ASSUME IInv, TakeSnapshot
  PROVE  IInv'
<1>1. SourceInv'
  BY SourceStays DEF TakeSnapshot
<1>2. ServiceTypes'
  <2>1. /\ pc' = "Tick" /\ then' = then /\ power' = power /\ timer' = timer
        /\ current' = current /\ hdaPci' = hdaPci /\ audioState' = Latest /\ live' = live
        /\ upsets' = upsets /\ todo' = todo /\ seed' = seed /\ output' = output
        /\ prepared' = prepared /\ run' = [run EXCEPT !.state = Latest]
    BY DEF TakeSnapshot, GoTo
  <2>2. src \in [Source -> SourceObject]
    BY SourceTypes DEF IInv
  <2>3. Latest \in AudioState
    BY <2>2 DEF Latest, IInv, ServiceTypes, SourceObject
  <2> QED BY <2>1, <2>3 DEF IInv, ServiceTypes, OutputState, Step
<1>3. Owner' /\ Seeding'
  BY DEF IInv, Owner, Seeding, Tearing, sourceVars, TakeSnapshot, Latest, GoTo
<1>4. Known'
  BY DEF IInv, Known, Tearing, sourceVars, TakeSnapshot, Latest, GoTo
<1>5. RunFacts'
  BY DEF IInv, RunFacts, At, Tearing, sourceVars, TakeSnapshot, Latest, GoTo
<1>6. SleepsOnlySettled'
  BY DEF IInv, SleepsOnlySettled, sourceVars, TakeSnapshot, Latest, GoTo
<1> QED BY <1>1, <1>2, <1>3, <1>4, <1>5, <1>6, Parts DEF ServiceInv

LEMMA TickStep ==
  ASSUME IInv, Tick
  PROVE  IInv'
<1>1. SourceInv'
  BY SourceStays DEF Tick
<1>2. ServiceTypes'
  <2>1. /\ pc' \in {"SyncAgain", "Rearm"} /\ then' = then /\ power' = power /\ timer' = timer
        /\ current' = current /\ hdaPci' = hdaPci /\ audioState' = audioState /\ live' = live
        /\ upsets' = upsets /\ todo' = todo /\ seed' = seed /\ output' \in Ticked
        /\ prepared' \in {0, run.state.generation, prepared} /\ run' = run
    BY DEF Tick, GoTo
  <2>2. output' \in OutputState
    BY <2>1 DEF Ticked, CleanupBegun, OutputState, IInv, ServiceTypes
  <2>3. run.state.generation \in Nat
    BY DEF IInv, ServiceTypes, AudioState
  <2> QED BY <2>1, <2>2, <2>3 DEF IInv, ServiceTypes, OutputState, Step
<1>3. Owner' /\ Seeding'
  BY DEF IInv, Owner, Seeding, Tearing, sourceVars, Tick, Ticked, CleanupBegun, HasAudio, GoTo
<1>4. Known'
  BY DEF IInv, Known, Tearing, sourceVars, Tick, Ticked, CleanupBegun, HasAudio, GoTo
<1>5. RunFacts'
  BY DEF IInv, RunFacts, At, Tearing, sourceVars, Tick, Ticked, CleanupBegun, HasAudio, GoTo
<1>6. SleepsOnlySettled'
  BY DEF IInv, SleepsOnlySettled, sourceVars, Tick, Ticked, CleanupBegun, HasAudio, GoTo
<1> QED BY <1>1, <1>2, <1>3, <1>4, <1>5, <1>6, Parts DEF ServiceInv

LEMMA ValidateStep ==
  ASSUME IInv, Validate
  PROVE  IInv'
<1>1. SourceInv'
  BY SourceStays DEF Validate
<1>2. ServiceTypes'
  BY UnknownType, RoutingAssumption DEF IInv, ServiceTypes, OutputState, Step, Validate, GoTo
<1>3. Owner' /\ Seeding'
  BY DEF IInv, Owner, Seeding, Tearing, sourceVars, Validate, GoTo
<1>4. Known'
  BY DEF IInv, Known, Tearing, sourceVars, Validate, GoTo
<1>5. RunFacts'
  BY DEF IInv, RunFacts, At, Tearing, sourceVars, Validate, GoTo
<1>6. SleepsOnlySettled'
  BY DEF IInv, SleepsOnlySettled, sourceVars, Validate, GoTo
<1> QED BY <1>1, <1>2, <1>3, <1>4, <1>5, <1>6, Parts DEF ServiceInv

LEMMA CommitStep ==
  ASSUME IInv, Commit
  PROVE  IInv'
<1>1. SourceInv'
  BY SourceStays DEF Commit
<1>2. ServiceTypes'
  BY UnknownType, RoutingAssumption DEF IInv, ServiceTypes, OutputState, Step, Commit, GoTo
<1>3. Owner' /\ Seeding'
  BY DEF IInv, Owner, Seeding, Tearing, sourceVars, Commit, GoTo
<1>4. Known'
  BY DEF IInv, Known, Tearing, sourceVars, Commit, GoTo
<1>5. RunFacts'
  BY DEF IInv, RunFacts, At, Tearing, sourceVars, Commit, GoTo
<1>6. SleepsOnlySettled'
  BY DEF IInv, SleepsOnlySettled, sourceVars, Commit, GoTo
<1> QED BY <1>1, <1>2, <1>3, <1>4, <1>5, <1>6, Parts DEF ServiceInv

LEMMA RevalidateStep ==
  ASSUME IInv, Revalidate
  PROVE  IInv'
<1>1. SourceInv'
  BY SourceStays DEF Revalidate
<1>2. ServiceTypes'
  BY UnknownType, RoutingAssumption DEF IInv, ServiceTypes, OutputState, Step, Revalidate, GoTo
<1>3. Owner' /\ Seeding'
  BY DEF IInv, Owner, Seeding, Tearing, sourceVars, Revalidate, GoTo
<1>4. Known'
  BY DEF IInv, Known, Tearing, sourceVars, Revalidate, GoTo
<1>5. RunFacts'
  BY DEF IInv, RunFacts, At, Tearing, sourceVars, Revalidate, GoTo
<1>6. SleepsOnlySettled'
  BY DEF IInv, SleepsOnlySettled, sourceVars, Revalidate, GoTo
<1> QED BY <1>1, <1>2, <1>3, <1>4, <1>5, <1>6, Parts DEF ServiceInv

LEMMA CancelStep ==
  ASSUME IInv, Cancel
  PROVE  IInv'
<1>1. SourceInv'
  BY SourceStays DEF Cancel
<1>2. ServiceTypes'
  BY UnknownType, RoutingAssumption DEF IInv, ServiceTypes, OutputState, CleanupBegun, Step, Cancel, GoTo
<1>3. Owner' /\ Seeding'
  BY DEF IInv, Owner, Seeding, Tearing, sourceVars, Cancel, CleanupBegun, GoTo
<1>4. Known'
  BY DEF IInv, Known, Tearing, sourceVars, Cancel, CleanupBegun, GoTo
<1>5. RunFacts'
  BY DEF IInv, RunFacts, At, Tearing, sourceVars, Cancel, CleanupBegun, GoTo
<1>6. SleepsOnlySettled'
  BY DEF IInv, SleepsOnlySettled, sourceVars, Cancel, CleanupBegun, GoTo
<1> QED BY <1>1, <1>2, <1>3, <1>4, <1>5, <1>6, Parts DEF ServiceInv

LEMMA RearmStep ==
  ASSUME IInv, Rearm
  PROVE  IInv'
<1>1. SourceInv'
  BY SourceStays DEF Rearm
<1>2. ServiceTypes'
  <2>1. /\ pc' = "Idle" /\ then' = then /\ power' = power /\ timer' = KeepsPolling
        /\ current' = current /\ hdaPci' = hdaPci /\ audioState' = audioState /\ live' = live
        /\ upsets' = upsets /\ todo' = todo /\ seed' = seed /\ output' = output
        /\ prepared' = prepared /\ run' = NoRun
    BY DEF Rearm, GoTo
  <2>2. KeepsPolling \in BOOLEAN
    <3>1. run.state.routeKnown \in BOOLEAN
      BY DEF IInv, ServiceTypes, AudioState
    <3> QED BY <3>1 DEF KeepsPolling, Permits
  <2>3. NoRun \in [stream : BOOLEAN, state : AudioState]
    BY UnknownType DEF NoRun
  <2> QED BY <2>1, <2>2, <2>3 DEF IInv, ServiceTypes, OutputState, Step
<1>3. Owner' /\ Seeding'
  BY DEF IInv, Owner, Seeding, Tearing, sourceVars, Rearm, KeepsPolling, GoTo
<1>4. Known'
  BY DEF IInv, Known, Tearing, sourceVars, Rearm, KeepsPolling, GoTo
<1>5. RunFacts'
  BY DEF IInv, RunFacts, At, Tearing, sourceVars, Rearm, KeepsPolling, GoTo
<1>6. SleepsOnlySettled'
  <2> SUFFICES ASSUME ~KeepsPolling
               PROVE  SleepsOnlySettled'
    BY DEF Rearm, SleepsOnlySettled
  <2>1. /\ output \in {"Silent", "Playing", "Unclean", "Faulted"}
        /\ run.state.routeKnown /\ ~Permits(run.state)
    BY DEF KeepsPolling, IInv, ServiceTypes, OutputState
  <2>2. output # "Playing" /\ run.state = audioState
    BY <2>1 DEF Rearm, IInv, RunFacts
  <2>3. ~Unknown.routeKnown
    BY DEF Unknown
  <2>4. current # None
    BY <2>1, <2>2, <2>3 DEF IInv, Known
  <2> QED BY <2>1, <2>2, <2>4 DEF Rearm, SleepsOnlySettled
<1> QED BY <1>1, <1>2, <1>3, <1>4, <1>5, <1>6, Parts DEF ServiceInv

-----------------------------------------------------------------------------
(* The workloop, with the mailbox *)

LEMMA SourceIsThere ==
  ASSUME IInv, current # None
  PROVE  /\ current \in Source /\ src[current] \in SourceObject
         /\ src \in [Source -> SourceObject]
BY SourceTypes DEF IInv, ServiceTypes

LEMMA AudioEventStep ==
  ASSUME IInv, AudioEvent
  PROVE  IInv'
<1> DEFINE b == [src[current] EXCEPT !.pending = FALSE]
<1>1. /\ pc = "Idle" /\ current # None /\ src' = [src EXCEPT ![current] = b]
      /\ listeners' = listeners
      /\ selector' = selector /\ engineState' = engineState /\ hooked' = hooked /\ calls' = calls
      /\ hook' = hook /\ power' = power /\ current' = current /\ hdaPci' = hdaPci /\ live' = live
      /\ upsets' = upsets /\ todo' = todo /\ seed' = seed /\ run' = run /\ output' = output
      /\ prepared' = prepared /\ then' = then
      /\ IF power /\ src[current].attached
         THEN /\ audioState' = src[current].state /\ timer' = FALSE
              /\ pc' = IF Runs THEN "Sync" ELSE pc
         ELSE audioState' = audioState /\ timer' = timer /\ pc' = pc
  BY DEF AudioEvent, TakePending, GoTo
<1>2. /\ current \in Source /\ src[current] \in SourceObject /\ src \in [Source -> SourceObject]
  BY <1>1, SourceIsThere
<1>3. /\ b \in SourceObject /\ b.refs = src[current].refs /\ b.attached = src[current].attached
      /\ b.controller = src[current].controller /\ b.engine = src[current].engine
      /\ b.state = src[current].state
  BY <1>2 DEF SourceObject
<1> HIDE DEF b
<1>4. src[current].attached /\ power
  BY <1>1 DEF IInv, Owner, RunFacts, Tearing
<1>5. src'[current] = b
  BY <1>1, <1>2
<1>6. SourceTypeOK'
  <2>1. src' \in [Source -> SourceObject]
    BY <1>1, <1>2, <1>3
  <2> QED BY <1>1, <2>1 DEF IInv, SourceTypeOK, SourceObject, AudioState
<1>7. InFlight'
  BY <1>1 DEF IInv, InFlight
<1>8. ReferencesAccounted'
  <2>1. \A s \in Source : src'[s].refs = src[s].refs
    BY <1>1, <1>2, <1>3
  <2> QED BY <1>1, <2>1, ReferencesStay DEF IInv
<1>9. ServiceTypes'
  <2>1. src[current].state \in AudioState
    BY <1>2 DEF SourceObject
  <2> QED BY ZenonT(60), <1>1, <1>4, <2>1 DEF IInv, ServiceTypes, OutputState, Step
<1>10. Owner' /\ Seeding'
  BY <1>1, <1>3, <1>5 DEF IInv, Owner, Seeding, Tearing
<1>11. Known' /\ RunFacts' /\ SleepsOnlySettled'
  <2>1. CASE Runs
    BY <1>1, <1>3, <1>4, <1>5, <2>1 DEF IInv, Known, RunFacts, At, Tearing, SleepsOnlySettled
  <2>2. CASE ~Runs
    <3>1. output = "Faulted"
      BY <1>4, <2>2 DEF Runs
    <3>2. pc' = "Idle" /\ output' = "Faulted"
      BY <1>1, <1>4, <2>2, <3>1
    <3>3. SleepsOnlySettled'
      BY <3>2 DEF SleepsOnlySettled
    <3>4. Known' /\ RunFacts'
      BY <1>1, <1>3, <1>4, <1>5, <3>2 DEF IInv, Known, RunFacts, At, Tearing
    <3> QED BY <3>3, <3>4
  <2> QED BY <2>1, <2>2
<1> QED BY <1>6, <1>7, <1>8, <1>9, <1>10, <1>11, Parts DEF SourceInv, ServiceInv

LEMMA UnlistedStep ==
  ASSUME IInv, Unlisted
  PROVE  IInv'
<1>1. /\ pc = "Unlist" /\ pc' = "Close" /\ listeners' = listeners \ {current} /\ src' = src
      /\ selector' = selector /\ engineState' = engineState /\ hooked' = hooked /\ calls' = calls
      /\ hook' = hook /\ power' = power /\ timer' = timer /\ current' = current
      /\ hdaPci' = hdaPci /\ live' = live /\ audioState' = audioState
      /\ upsets' = upsets /\ todo' = todo /\ seed' = seed /\ run' = run /\ output' = output
      /\ prepared' = prepared /\ then' = then
  BY DEF Unlisted, Unlist
<1>2. current # None /\ listeners' = {}
  BY <1>1 DEF IInv, Owner, Tearing
<1>3. SourceTypeOK'
  BY <1>1, <1>2 DEF IInv, SourceTypeOK
<1>4. InFlight'
  BY <1>1 DEF IInv, InFlight
<1>5. ReferencesAccounted'
  <2>1. \A s \in Source : Holders(s)' = Holders(s) /\ Owned(s)' = Owned(s)
    BY <1>1 DEF Holders, Owned
  <2> QED BY <1>1, <1>2, <2>1, ReferencesRead, ReferencesReadNext DEF IInv
<1>6. ServiceTypes'
  BY <1>1 DEF IInv, ServiceTypes, OutputState, Step
<1>7. Owner' /\ Seeding'
  BY <1>1, <1>2 DEF IInv, Owner, Seeding, Tearing
<1>8. Known' /\ RunFacts' /\ SleepsOnlySettled'
  BY <1>1, <1>2 DEF IInv, Known, RunFacts, At, Tearing, SleepsOnlySettled
<1> QED BY <1>3, <1>4, <1>5, <1>6, <1>7, <1>8, Parts DEF SourceInv, ServiceInv

LEMMA ClosedStep ==
  ASSUME IInv, Closed
  PROVE  IInv'
<1> DEFINE b == [src[current] EXCEPT !.attached = FALSE, !.pending = FALSE]
<1>1. /\ pc = "Close" /\ pc' = then /\ then' = "Idle" /\ current' = None
      /\ src' = [src EXCEPT ![current] = Released(b, 2)] /\ listeners' = listeners
      /\ selector' = selector /\ engineState' = engineState /\ hooked' = hooked /\ calls' = calls
      /\ hook' = hook /\ power' = power /\ timer' = timer
      /\ hdaPci' = hdaPci /\ live' = live /\ audioState' = audioState
      /\ upsets' = upsets /\ todo' = todo /\ seed' = seed /\ run' = run /\ output' = output
      /\ prepared' = prepared
  BY DEF Closed, CloseMailbox
<1>2. current # None /\ listeners = {}
  BY <1>1 DEF IInv, Owner, Tearing
<1>3. /\ current \in Source /\ src[current] \in SourceObject /\ src \in [Source -> SourceObject]
  BY <1>2, SourceIsThere
<1>4. b \in SourceObject /\ b.refs = src[current].refs /\ b.refs \in Nat
  BY <1>3 DEF SourceObject
<1>5. src[current].refs = Cardinality(Holders(current)) + 2 /\ Cardinality(Holders(current)) \in Nat
  BY <1>3, ReferencesRead, HoldersFinite DEF IInv, Owned
<1> HIDE DEF b
<1>6. b.refs >= 2 /\ b.refs - 2 = Cardinality(Holders(current))
  BY <1>4, <1>5
<1>7. Released(b, 2) \in SourceObject /\ Released(b, 2).refs = b.refs - 2
  BY <1>4, <1>6, ReleasedKeeps
<1>8. SourceTypeOK'
  <2>1. src' \in [Source -> SourceObject]
    BY <1>1, <1>3, <1>7
  <2> QED BY <1>1, <2>1 DEF IInv, SourceTypeOK, SourceObject, AudioState
<1>9. InFlight'
  BY <1>1 DEF IInv, InFlight
<1>10. ReferencesAccounted'
  <2> SUFFICES ASSUME NEW s \in Source
               PROVE  src'[s].refs = Cardinality(Holders(s)') + Owned(s)'
    BY <1>1, <1>2, ReferencesReadNext
  <2>1. s # None
    BY SourceAssumption
  <2>2. Holders(s)' = Holders(s) /\ Owned(s)' = 0
    BY <1>1, <2>1 DEF Holders, Owned
  <2>3. Cardinality(Holders(s)) \in Nat
    BY HoldersFinite
  <2>4. CASE s = current
    BY <1>1, <1>3, <1>6, <1>7, <2>2, <2>3, <2>4
  <2>5. CASE s # current
    <3>1. src'[s] = src[s]
      BY <1>1, <1>3, <2>5
    <3>2. src[s].refs = Cardinality(Holders(s)) + 0
      BY <2>5, ReferencesRead DEF IInv, Owned
    <3> QED BY <2>2, <2>3, <3>1, <3>2
  <2> QED BY <2>4, <2>5
<1>11. ServiceTypes'
  <2>1. pc' \in Step
    BY <1>1 DEF IInv, ServiceTypes, OutputState, Step
  <2> QED BY <1>1, <2>1 DEF IInv, ServiceTypes
<1>12. pc' \in {"Idle", "Sync", "SyncAgain", "SyncCommit", "Setup", "Cancel"}
  BY <1>1 DEF IInv, ServiceTypes
<1>13. Owner' /\ Seeding'
  BY <1>1, <1>2, <1>12 DEF IInv, Owner, Seeding, Tearing
<1>14. Known' /\ RunFacts'
  BY <1>1, <1>2, <1>12 DEF IInv, Known, RunFacts, At, Tearing
<1>15. SleepsOnlySettled'
  BY <1>1, <1>12 DEF IInv, RunFacts, Tearing, SleepsOnlySettled
<1> QED BY <1>8, <1>9, <1>10, <1>11, <1>13, <1>14, <1>15, Parts DEF SourceInv, ServiceInv

LEMMA CreateSourceStep ==
  ASSUME IInv, CreateSource
  PROVE  IInv'
<1>1. PICK s \in Source :
      /\ pc = "Setup" /\ current = None /\ hdaPci # None /\ hooked
      /\ src[s] = Freed /\ listeners' = listeners \union {s}
      /\ src' = [src EXCEPT ![s] = [Freed EXCEPT !.refs = 2, !.controller = hdaPci, !.attached = TRUE]]
      /\ current' = s /\ todo' = {e \in Engine : Parent[e] = hdaPci} /\ pc' = "Seed" /\ then' = then
      /\ selector' = selector /\ engineState' = engineState /\ hooked' = hooked /\ calls' = calls
      /\ hook' = hook /\ power' = power /\ timer' = timer
      /\ hdaPci' = hdaPci /\ live' = live /\ audioState' = audioState
      /\ upsets' = upsets /\ seed' = seed /\ run' = run /\ output' = output
      /\ prepared' = prepared
  BY DEF CreateSource, Attach, GoTo
<1> DEFINE b == [Freed EXCEPT !.refs = 2, !.controller = hdaPci, !.attached = TRUE]
<1>2. src \in [Source -> SourceObject] /\ hdaPci \in Controller \union {None}
  BY SourceTypes DEF IInv, ServiceTypes
<1>3. /\ b \in SourceObject /\ b.refs = 2 /\ b.controller = hdaPci /\ b.attached = TRUE
      /\ b.engine = None /\ b.state = Unknown
  BY <1>2, UnknownType DEF Freed, SourceObject
<1> HIDE DEF b
<1>4. src' = [src EXCEPT ![s] = b] /\ src'[s] = b
  BY <1>1, <1>2 DEF b
<1>5. s # None /\ listeners = {} /\ listeners' = {s} /\ ~Tearing
  BY <1>1, SourceAssumption DEF IInv, Owner, Tearing
<1>6. SourceTypeOK'
  <2>1. src' \in [Source -> SourceObject]
    BY <1>2, <1>3, <1>4
  <2> QED BY <1>1, <1>5, <2>1 DEF IInv, SourceTypeOK, SourceObject, AudioState
<1>7. InFlight'
  BY <1>1 DEF IInv, InFlight
<1>8. ReferencesAccounted'
  <2> SUFFICES ASSUME NEW r \in Source
               PROVE  src'[r].refs = Cardinality(Holders(r)') + Owned(r)'
    BY <1>1, <1>5, ReferencesReadNext
  <2>1. r # None
    BY SourceAssumption
  <2>2. Holders(r)' = Holders(r) /\ Cardinality(Holders(r)) \in Nat
    BY <1>1, HoldersFinite DEF Holders
  <2>3. src[r].refs = Cardinality(Holders(r)) + 0
    BY <1>1, <2>1, ReferencesRead DEF IInv, Owned
  <2>4. CASE r = s
    <3>1. Cardinality(Holders(r)) = 0
      BY <1>1, <2>2, <2>3, <2>4 DEF Freed
    <3> QED BY <1>1, <1>3, <1>4, <2>2, <2>4, <3>1 DEF Owned
  <2>5. CASE r # s
    BY <1>1, <1>2, <1>4, <2>2, <2>3, <2>5 DEF Owned
  <2> QED BY <2>4, <2>5
<1>9. ServiceTypes'
  <2>1. todo' \in SUBSET Engine
    BY <1>1
  <2> QED BY <1>1, <2>1 DEF IInv, ServiceTypes, OutputState, Step
<1>10. Owner' /\ Seeding'
  BY <1>1, <1>3, <1>4, <1>5 DEF IInv, Owner, Seeding, Tearing
<1>11. Known' /\ RunFacts' /\ SleepsOnlySettled'
  BY <1>1, <1>3, <1>4, <1>5 DEF IInv, Known, RunFacts, At, Tearing, SleepsOnlySettled
<1> QED BY <1>6, <1>7, <1>8, <1>9, <1>10, <1>11, Parts DEF SourceInv, ServiceInv

LEMMA SeedObserveStep ==
  ASSUME IInv, SeedObserve
  PROVE  IInv'
<1> DEFINE t == [engine |-> seed.engine, route |-> TRUE]
           b == Observe(src[current], t, seed.value, TRUE)
<1>1. /\ pc = "Seed" /\ seed # NoSeed /\ src' = [src EXCEPT ![current] = b] /\ seed' = NoSeed
      /\ listeners' = listeners /\ current' = current /\ pc' = pc /\ then' = then /\ todo' = todo
      /\ selector' = selector /\ engineState' = engineState /\ hooked' = hooked /\ calls' = calls
      /\ hook' = hook /\ power' = power /\ timer' = timer
      /\ hdaPci' = hdaPci /\ live' = live /\ audioState' = audioState
      /\ upsets' = upsets /\ run' = run /\ output' = output
      /\ prepared' = prepared
  BY DEF SeedObserve
<1>2. current # None /\ seed.engine \in Engine
  BY <1>1 DEF IInv, Owner, Seeding
<1>3. /\ current \in Source /\ src[current] \in SourceObject /\ src \in [Source -> SourceObject]
  BY <1>2, SourceIsThere
<1>4. t \in Sender
  BY <1>2 DEF Sender
<1> HIDE DEF t
<1>5. SameReferences(src[current], b)
  BY <1>3, <1>4, ObserveSameReferences, Zenon
<1>6. Heard(src[current], b)
  BY <1>3, <1>4, ObserveHeard, Zenon
<1> HIDE DEF b
<1>7. src'[current] = b /\ b \in SourceObject /\ b.refs = src[current].refs
  BY <1>1, <1>3, <1>5 DEF SameReferences
<1>8. SourceTypeOK'
  <2>1. src' \in [Source -> SourceObject]
    BY <1>1, <1>3, <1>7
  <2> QED BY <1>1, <2>1 DEF IInv, SourceTypeOK, SourceObject, AudioState
<1>9. InFlight'
  BY <1>1 DEF IInv, InFlight
<1>10. ReferencesAccounted'
  <2>1. \A s \in Source : src'[s].refs = src[s].refs
    BY <1>1, <1>3, <1>7
  <2> QED BY <1>1, <2>1, ReferencesStay DEF IInv
<1>11. ServiceTypes'
  BY <1>1 DEF IInv, ServiceTypes, NoSeed
<1>12. Owner' /\ Seeding'
  BY <1>1, <1>2, <1>6, <1>7 DEF IInv, Owner, Seeding, Tearing, Heard
<1>13. Known' /\ RunFacts' /\ SleepsOnlySettled'
  BY <1>1, <1>2, <1>6, <1>7 DEF IInv, Known, RunFacts, At, Tearing, SleepsOnlySettled, Heard
<1> QED BY <1>8, <1>9, <1>10, <1>11, <1>12, <1>13, Parts DEF SourceInv, ServiceInv

-----------------------------------------------------------------------------
(* What the mailbox says *)

\* The same after a step, of a source object a.
ToldNext(t) == hook'[t] # Quiet /\ (~hook'[t].published \/ current' \in hook'[t].targets)

AgreesNext(a) ==
  a.engine # None =>
    /\ selector'[a.engine] # "Absent" /\ a.state.routeKnown
    /\ \/ a.state.speakers = (selector'[a.engine] = "Speakers")
       \/ ToldNext([engine |-> a.engine, route |-> TRUE])
    /\ \/ /\ a.state.engineKnown = (engineState'[a.engine] # "Absent")
          /\ a.state.engineRunning = (engineState'[a.engine] = "Running")
       \/ ToldNext([engine |-> a.engine, route |-> FALSE])

LEMMA MailboxNext ==
  Mailbox' <=> (current' \in listeners' => AgreesNext(src'[current']))
BY DEF Mailbox, Agrees, AgreesNext, Told, ToldNext

LEMMA SeedFreshNext ==
  SeedFresh' <=>
    (seed' # NoSeed =>
       /\ selector'[seed'.engine] # "Absent"
       /\ \/ src'[current'].state.routeKnown
          \/ selector'[seed'.engine] = seed'.value
          \/ ToldNext([engine |-> seed'.engine, route |-> TRUE]))
BY DEF SeedFresh, Told, ToldNext

\* Nothing that the agreement rests on changes.
LEMMA AgreesStays ==
  ASSUME NEW a, NEW b, Agrees(a), b.engine = a.engine, b.state = a.state,
         a.engine # None => a.engine \in Engine,
         selector' = selector, engineState' = engineState,
         \A u \in Sender : Told(u) => ToldNext(u)
  PROVE  AgreesNext(b)
<1>1. a.engine # None => /\ [engine |-> a.engine, route |-> TRUE] \in Sender
                         /\ [engine |-> a.engine, route |-> FALSE] \in Sender
  BY DEF Sender
<1> QED BY <1>1 DEF Agrees, AgreesNext

LEMMA BoundEngine ==
  ASSUME IInv, current # None, src[current].engine # None
  PROVE  src[current].engine \in Engine
BY SourceIsThere DEF SourceObject

\* The service moves, the source and the hooks do not.
LEMMA MailboxStays ==
  ASSUME MInv, UNCHANGED <<sourceVars, current>>, seed' \in {seed, NoSeed}
  PROVE  Mailbox' /\ SeedFresh'
<1>1. /\ selector' = selector /\ engineState' = engineState /\ hook' = hook
      /\ listeners' = listeners /\ src' = src /\ current' = current
  BY DEF sourceVars
<1>2. \A u : ToldNext(u) <=> Told(u)
  BY <1>1 DEF Told, ToldNext
<1>3. Mailbox'
  BY <1>1, <1>2, MailboxNext DEF MInv, Mailbox, Agrees, AgreesNext
<1>4. SeedFresh'
  BY <1>1, <1>2, SeedFreshNext DEF MInv, SeedFresh
<1> QED BY <1>3, <1>4

LEMMA NothingListed ==
  ASSUME listeners' = {}, seed' = NoSeed
  PROVE  Mailbox' /\ SeedFresh'
BY DEF Mailbox, SeedFresh

LEMMA SeedReadMail ==
  ASSUME MInv, SeedRead
  PROVE  Mailbox' /\ SeedFresh'
<1>1. PICK e \in todo :
        seed' = IF selector[e] = "Absent" THEN NoSeed ELSE [engine |-> e, value |-> selector[e]]
  BY DEF SeedRead
<1>2. selector' = selector /\ engineState' = engineState /\ hook' = hook
      /\ listeners' = listeners /\ src' = src /\ current' = current
  BY DEF SeedRead, sourceVars
<1>3. \A u : ToldNext(u) <=> Told(u)
  BY <1>2 DEF Told, ToldNext
<1>4. Mailbox'
  BY <1>2, <1>3, MailboxNext DEF MInv, Mailbox, Agrees, AgreesNext
<1>5. SeedFresh'
  BY <1>1, <1>2 DEF SeedFresh
<1> QED BY <1>4, <1>5

LEMMA AudioEventMail ==
  ASSUME MInv, AudioEvent
  PROVE  Mailbox' /\ SeedFresh'
<1> DEFINE b == [src[current] EXCEPT !.pending = FALSE]
<1>1. /\ current # None /\ pc = "Idle" /\ src' = [src EXCEPT ![current] = b]
      /\ selector' = selector /\ engineState' = engineState /\ hook' = hook
      /\ listeners' = listeners /\ current' = current /\ seed' = seed
  BY DEF AudioEvent, TakePending
<1>2. /\ current \in Source /\ src[current] \in SourceObject /\ src \in [Source -> SourceObject]
  BY <1>1, SourceIsThere DEF MInv
<1>3. b.engine = src[current].engine /\ b.state = src[current].state
  BY <1>2 DEF SourceObject
<1> HIDE DEF b
<1>4. src'[current] = b
  BY <1>1, <1>2
<1>5. \A u : ToldNext(u) <=> Told(u)
  BY <1>1 DEF Told, ToldNext
<1>6. seed = NoSeed
  BY <1>1 DEF MInv, IInv, Seeding
<1>7. SeedFresh'
  BY <1>1, <1>6 DEF SeedFresh
<1>8. current \in listeners => AgreesNext(b)
  BY <1>1, <1>3, <1>5, AgreesStays, BoundEngine DEF MInv, Mailbox
<1>9. Mailbox'
  BY <1>1, <1>4, <1>8, MailboxNext
<1> QED BY <1>7, <1>9

LEMMA CreateSourceMail ==
  ASSUME MInv, CreateSource
  PROVE  Mailbox' /\ SeedFresh'
<1>1. PICK s \in Source :
        /\ src' = [src EXCEPT ![s] = [Freed EXCEPT !.refs = 2, !.controller = hdaPci, !.attached = TRUE]]
        /\ current' = s /\ pc = "Setup" /\ seed' = seed
  BY DEF CreateSource, Attach
<1>2. src'[s].engine = None
  BY <1>1, SourceTypes DEF Freed, MInv, IInv
<1>3. seed' = NoSeed
  BY <1>1 DEF MInv, IInv, Seeding
<1> QED BY <1>1, <1>2, <1>3 DEF Mailbox, SeedFresh, Agrees

\* A seed that is taken binds the source, and says what the registry says unless told.
LEMMA SeedObserveMail ==
  ASSUME MInv, SeedObserve
  PROVE  Mailbox' /\ SeedFresh'
<1> DEFINE t == [engine |-> seed.engine, route |-> TRUE]
           a == src[current]
           b == Observe(a, t, seed.value, TRUE)
<1>1. /\ pc = "Seed" /\ seed # NoSeed /\ src' = [src EXCEPT ![current] = b] /\ seed' = NoSeed
      /\ listeners' = listeners /\ current' = current
      /\ selector' = selector /\ engineState' = engineState /\ hook' = hook
  BY DEF SeedObserve
<1>2. current # None /\ seed.engine \in Engine
  BY <1>1 DEF MInv, IInv, Owner, Seeding
<1>3. /\ current \in Source /\ a \in SourceObject /\ src \in [Source -> SourceObject]
  BY <1>2, SourceIsThere DEF MInv
<1>4. t \in Sender /\ t.route /\ t.engine = seed.engine
  BY <1>2 DEF Sender
<1>5. /\ current \in listeners => Agrees(a)
      /\ a.engine = None => a.state = Unknown
      /\ a.engine # None => a.engine \in Engine
  BY <1>2, BoundEngine DEF MInv, Mailbox, IInv, Owner
<1>6. current \in listeners
  BY <1>1, <1>2 DEF MInv, IInv, Owner
<1>7. /\ selector[seed.engine] # "Absent"
      /\ a.state.routeKnown \/ selector[seed.engine] = seed.value \/ Told(t)
  BY <1>1 DEF MInv, SeedFresh
<1>8. \A u : ToldNext(u) <=> Told(u)
  BY <1>1 DEF Told, ToldNext
<1>9. src'[current] = b
  BY <1>1, <1>3
<1>10. SeedFresh'
  BY <1>1 DEF SeedFresh
<1>11. CASE ~Taken(a, t, seed.value, TRUE)
  <2>1. b = a
    BY <1>3, <1>4, <1>11 DEF Observe, Taken
  <2>2. AgreesNext(a)
    BY <1>1, <1>5, <1>6, <1>8, AgreesStays
  <2> QED BY <1>1, <1>9, <1>10, <2>1, <2>2, MailboxNext
<1>12. CASE Taken(a, t, seed.value, TRUE)
  <2>0. ObserveSaysOf(a, t, seed.value, b)
    BY <1>3, <1>4, <1>12, ObserveTaken, Zenon
  <2>1. ~a.state.routeKnown
    BY <1>12 DEF Taken, Ignored
  <2>2. a.engine = None /\ a.state = Unknown
    BY <1>5, <1>6, <2>1 DEF Agrees
  <2>3. b.engine = t.engine
    BY <2>0, <2>2 DEF ObserveSaysOf, Bound
  <2> HIDE DEF a, b, t
  <2>4. /\ b.state.routeKnown /\ b.state.speakers = (seed.value = "Speakers")
        /\ IF engineState[b.engine] = "Absent"
           THEN b.state.engineKnown = FALSE /\ b.state.engineRunning = FALSE
           ELSE b.state.engineKnown /\ b.state.engineRunning = (engineState[b.engine] = "Running")
    <3>1. t.route
      BY <1>4 DEF t
    <3>2. a.state.engineKnown = FALSE /\ a.state.engineRunning = FALSE
      BY <2>2 DEF Unknown
    <3> QED BY <2>0, <3>1, <3>2 DEF ObserveSaysOf
  <2>5. b.engine = seed.engine
    BY <1>4, <2>3
  <2>6. b.state.speakers = (selector[b.engine] = "Speakers") \/ Told(t)
    BY <1>7, <2>1, <2>4, <2>5
  <2>7. t = [engine |-> b.engine, route |-> TRUE]
    BY <2>5 DEF t
  <2>8. /\ b.state.engineKnown = (engineState[b.engine] # "Absent")
        /\ b.state.engineRunning = (engineState[b.engine] = "Running")
    <3>1. b.state \in AudioState
      BY <2>0 DEF ObserveSaysOf, SourceObject
    <3> QED BY <2>4, <3>1 DEF AudioState
  <2>9. AgreesNext(b)
    BY <1>1, <1>7, <1>8, <2>4, <2>5, <2>6, <2>7, <2>8 DEF AgreesNext
  <2> QED BY <1>1, <1>9, <1>10, <2>9, MailboxNext DEF a
<1> QED BY <1>11, <1>12

LEMMA AppearMail ==
  ASSUME MInv, NEW e \in Engine, Appear(e), UNCHANGED serviceVars
  PROVE  Mailbox' /\ SeedFresh'
<1>1. PICK value \in Output :
        /\ selector[e] = "Absent" /\ selector' = [selector EXCEPT ![e] = value]
        /\ engineState' = engineState /\ hook' = hook /\ listeners' = listeners /\ src' = src
        /\ current' = current /\ seed' = seed
  BY DEF Appear, serviceVars
<1>2. selector \in [Engine -> Output \union {"Absent"}]
  BY DEF MInv, IInv, SourceTypeOK
<1>3. \A u : ToldNext(u) <=> Told(u)
  BY <1>1 DEF Told, ToldNext
<1>4. \A d \in Engine : selector[d] # "Absent" => selector'[d] = selector[d]
  BY <1>1, <1>2
<1>5. Mailbox'
  <2> SUFFICES ASSUME current \in listeners, src[current].engine # None
               PROVE  AgreesNext(src[current])
    BY <1>1, MailboxNext DEF AgreesNext
  <2>1. current # None
    BY DEF MInv, IInv, Owner
  <2>2. src[current].engine \in Engine
    BY <2>1, BoundEngine DEF MInv
  <2>3. Agrees(src[current])
    BY DEF MInv, Mailbox
  <2>4. selector'[src[current].engine] = selector[src[current].engine]
    BY <1>4, <2>2, <2>3 DEF Agrees
  <2> QED BY <1>1, <1>3, <2>3, <2>4 DEF Agrees, AgreesNext
<1>6. SeedFresh'
  <2> SUFFICES ASSUME seed # NoSeed
               PROVE  /\ selector'[seed.engine] # "Absent"
                      /\ \/ src[current].state.routeKnown
                         \/ selector'[seed.engine] = seed.value
                         \/ ToldNext([engine |-> seed.engine, route |-> TRUE])
    BY <1>1, SeedFreshNext
  <2>1. seed.engine \in Engine
    BY DEF MInv, IInv, Seeding
  <2> QED BY <1>3, <1>4, <2>1 DEF MInv, SeedFresh
<1> QED BY <1>5, <1>6

\* The call that changes the registry is in flight, and will tell.
LEMMA OriginalMail ==
  ASSUME MInv, NEW t \in Sender, Original(t), UNCHANGED serviceVars
  PROVE  Mailbox' /\ SeedFresh'
<1>0. /\ listeners' = listeners /\ src' = src /\ current' = current /\ seed' = seed /\ pc' = pc
  BY DEF Original, serviceVars
<1>1. PICK value \in IF t.route THEN Output ELSE {"Running", "Stopped"} :
        /\ IF t.route
           THEN selector' = [selector EXCEPT ![t.engine] = value] /\ engineState' = engineState
           ELSE engineState' = [engineState EXCEPT ![t.engine] = value] /\ selector' = selector
        /\ hook' = IF hooked
                   THEN [hook EXCEPT ![t] = [value |-> value, published |-> FALSE, targets |-> {}]]
                   ELSE hook
  BY DEF Original
<1>2. /\ selector \in [Engine -> Output \union {"Absent"}]
      /\ engineState \in [Engine -> {"Absent", "Running", "Stopped"}]
      /\ hook \in [Sender -> Call] /\ t.engine \in Engine
  BY SourceTypes DEF MInv, IInv, Sender
<1>3. t.route => value # "Absent"
  BY <1>1, SourceAssumption
<1> SUFFICES ASSUME current # None
             PROVE  Mailbox' /\ SeedFresh'
  BY <1>0, NothingListed DEF MInv, IInv, Owner, Seeding
<1>4. hook' = [hook EXCEPT ![t] = [value |-> value, published |-> FALSE, targets |-> {}]]
  BY <1>1 DEF MInv, IInv, Owner
<1>5. ToldNext(t)
  BY <1>2, <1>4 DEF ToldNext, Quiet
<1>6. ASSUME NEW u \in Sender, u # t, Told(u)
      PROVE  ToldNext(u)
  BY <1>0, <1>2, <1>4, <1>6 DEF Told, ToldNext
<1>7. \A u \in Sender : Told(u) => ToldNext(u)
  BY <1>5, <1>6
<1>8. ASSUME NEW d \in Engine
      PROVE  /\ selector[d] # "Absent" => selector'[d] # "Absent"
             /\ selector'[d] = selector[d] \/ ToldNext([engine |-> d, route |-> TRUE])
             /\ engineState'[d] = engineState[d] \/ ToldNext([engine |-> d, route |-> FALSE])
  <2>1. t = [engine |-> t.engine, route |-> t.route] /\ t.route \in BOOLEAN
    BY DEF Sender
  <2>2. CASE t.route
    <3>1. selector' = [selector EXCEPT ![t.engine] = value] /\ engineState' = engineState
      BY <1>1, <2>2
    <3>2. d = t.engine => ToldNext([engine |-> d, route |-> TRUE])
      BY <1>5, <2>1, <2>2
    <3> QED BY <1>2, <1>3, <2>2, <3>1, <3>2
  <2>3. CASE ~t.route
    <3>1. engineState' = [engineState EXCEPT ![t.engine] = value] /\ selector' = selector
      BY <1>1, <2>3
    <3>2. d = t.engine => ToldNext([engine |-> d, route |-> FALSE])
      BY <1>5, <2>1, <2>3
    <3> QED BY <1>2, <3>1, <3>2
  <2> QED BY <2>2, <2>3
<1>9. Mailbox'
  <2> SUFFICES ASSUME current \in listeners, src[current].engine # None
               PROVE  AgreesNext(src[current])
    BY <1>0, MailboxNext DEF AgreesNext
  <2> DEFINE e == src[current].engine
  <2>1. e \in Engine
    BY BoundEngine DEF MInv
  <2>2. Agrees(src[current])
    BY DEF MInv, Mailbox
  <2>3. [engine |-> e, route |-> TRUE] \in Sender /\ [engine |-> e, route |-> FALSE] \in Sender
    BY <2>1 DEF Sender
  <2> QED BY <1>7, <1>8, <2>1, <2>2, <2>3 DEF Agrees, AgreesNext
<1>10. SeedFresh'
  <2> SUFFICES ASSUME seed # NoSeed
               PROVE  /\ selector'[seed.engine] # "Absent"
                      /\ \/ src[current].state.routeKnown
                         \/ selector'[seed.engine] = seed.value
                         \/ ToldNext([engine |-> seed.engine, route |-> TRUE])
    BY <1>0, SeedFreshNext
  <2>1. seed.engine \in Engine
    BY DEF MInv, IInv, Seeding
  <2>2. [engine |-> seed.engine, route |-> TRUE] \in Sender
    BY <2>1 DEF Sender
  <2> QED BY <1>7, <1>8, <2>1, <2>2 DEF MInv, SeedFresh
<1> QED BY <1>9, <1>10

\* The listeners are told of a call that is published.
LEMMA PublishMail ==
  ASSUME MInv, NEW t \in Sender, Publish(t), UNCHANGED serviceVars
  PROVE  Mailbox' /\ SeedFresh'
<1>1. /\ hook' = [hook EXCEPT ![t] = IF listeners = {} THEN Quiet
                                     ELSE [hook[t] EXCEPT !.published = TRUE, !.targets = listeners]]
      /\ src' = [s \in Source |-> IF s \in listeners THEN [src[s] EXCEPT !.refs = @ + 1] ELSE src[s]]
      /\ selector' = selector /\ engineState' = engineState
      /\ listeners' = listeners /\ current' = current /\ seed' = seed
  BY DEF Publish, serviceVars
<1>2. /\ hook \in [Sender -> Call] /\ src \in [Source -> SourceObject]
  BY SourceTypes DEF MInv, IInv
<1> SUFFICES ASSUME current \in listeners
             PROVE  Mailbox' /\ SeedFresh'
  <2>1. CASE current # None /\ pc # "Close"
    BY <2>1 DEF MInv, IInv, Owner
  <2>2. CASE ~(current # None /\ pc # "Close")
    <3>1. listeners = {} /\ seed = NoSeed
      BY <2>2 DEF MInv, IInv, Owner, Seeding
    <3> QED BY <1>1, <3>1, NothingListed
  <2> QED BY <2>1, <2>2
<1>3. /\ current # None /\ current \in Source
  BY SourceIsThere DEF MInv, IInv, Owner
<1>4. src'[current].engine = src[current].engine /\ src'[current].state = src[current].state
  BY <1>1, <1>2, <1>3 DEF SourceObject
<1>5. ASSUME NEW u \in Sender, Told(u)
      PROVE  ToldNext(u)
  <2>1. CASE u = t
    <3>1. hook'[t] = [hook[t] EXCEPT !.published = TRUE, !.targets = listeners]
      BY <1>1, <1>2
    <3>2. hook'[t].targets = listeners
      BY <1>2, <3>1 DEF Call
    <3>3. Quiet.targets = {}
      BY DEF Quiet
    <3> QED BY <1>1, <2>1, <3>2, <3>3 DEF ToldNext
  <2>2. CASE u # t
    BY <1>1, <1>2, <1>5, <2>2 DEF Told, ToldNext
  <2> QED BY <2>1, <2>2
<1>6. Mailbox'
  <2>1. Agrees(src[current])
    BY DEF MInv, Mailbox
  <2>2. src[current].engine # None => src[current].engine \in Engine
    BY <1>3, BoundEngine DEF MInv
  <2>3. AgreesNext(src'[current])
    <3>1. src[current].engine # None => /\ [engine |-> src[current].engine, route |-> TRUE] \in Sender
                                        /\ [engine |-> src[current].engine, route |-> FALSE] \in Sender
      BY <2>2 DEF Sender
    <3> QED BY <1>1, <1>4, <1>5, <2>1, <3>1 DEF Agrees, AgreesNext
  <2> QED BY <1>1, <2>3, MailboxNext
<1>7. SeedFresh'
  <2> SUFFICES ASSUME seed # NoSeed
               PROVE  /\ selector[seed.engine] # "Absent"
                      /\ \/ src[current].state.routeKnown
                         \/ selector[seed.engine] = seed.value
                         \/ ToldNext([engine |-> seed.engine, route |-> TRUE])
    BY <1>1, <1>4, SeedFreshNext
  <2>1. [engine |-> seed.engine, route |-> TRUE] \in Sender
    BY DEF Sender, MInv, IInv, Seeding
  <2> QED BY <1>5, <2>1 DEF MInv, SeedFresh
<1> QED BY <1>6, <1>7

LEMMA OtherSender ==
  ASSUME NEW t
  PROVE  \A e : /\ t.route => [engine |-> e, route |-> FALSE] # t
               /\ ~t.route => [engine |-> e, route |-> TRUE] # t
<1> SUFFICES ASSUME NEW e
             PROVE  /\ t.route => [engine |-> e, route |-> FALSE] # t
                    /\ ~t.route => [engine |-> e, route |-> TRUE] # t
  OBVIOUS
<1>1. [engine |-> e, route |-> FALSE].route = FALSE /\ [engine |-> e, route |-> TRUE].route = TRUE
  OBVIOUS
<1>2. ASSUME t.route, [engine |-> e, route |-> FALSE] = t
      PROVE  FALSE
  BY <1>1, <1>2
<1>3. ASSUME ~t.route, [engine |-> e, route |-> TRUE] = t
      PROVE  FALSE
  BY <1>1, <1>3
<1> QED BY <1>2, <1>3

\* A delivery to the source of the service: it takes the report, or the report
\* is of an engine it does not listen to.
LEMMA DeliverToCurrent ==
  ASSUME MInv, Output = {"Speakers", "Headphones"}, current # None, current \in listeners,
         NEW t \in Sender, hook[t] # Quiet, selector' = selector, engineState' = engineState,
         NEW b, b = Observe(src[current], t, hook[t].value, FALSE),
         \A u \in Sender : u # t /\ Told(u) => ToldNext(u)
  PROVE  /\ AgreesNext(b)
         /\ seed # NoSeed =>
              \/ b.state.routeKnown
              \/ selector[seed.engine] = seed.value
              \/ ToldNext([engine |-> seed.engine, route |-> TRUE])
<1> DEFINE a == src[current]
           v == hook[t].value
<1>1. /\ current \in Source /\ a \in SourceObject
  BY SourceIsThere DEF MInv
<1>2. /\ a.attached
      /\ a.engine = None => a.state = Unknown
      /\ a.engine # None => Parent[a.engine] = a.controller
      /\ a.engine # None => a.engine \in Engine
  BY BoundEngine DEF MInv, IInv, Owner
<1>3. Agrees(a)
  BY DEF MInv, Mailbox
<1>4. /\ v = IF t.route THEN selector[t.engine] ELSE engineState[t.engine]
      /\ v # "Absent"
  BY DEF MInv, IInv, InFlight
<1>5. t = [engine |-> t.engine, route |-> t.route] /\ t.route \in BOOLEAN /\ t.engine \in Engine
  BY DEF Sender
<1>6. seed # NoSeed =>
        /\ seed.engine \in Engine /\ Parent[seed.engine] = a.controller
        /\ selector[seed.engine] # "Absent"
        /\ \/ a.state.routeKnown
           \/ selector[seed.engine] = seed.value
           \/ Told([engine |-> seed.engine, route |-> TRUE])
  BY DEF MInv, IInv, Seeding, SeedFresh
<1>7. \A d \in Engine : selector[d] \in {"Speakers", "Headphones", "Absent"}
  BY DEF MInv, IInv, SourceTypeOK
<1>8. Ignored(a, t, FALSE) <=> Parent[t.engine] # a.controller \/ (a.engine # None /\ a.engine # t.engine)
  BY <1>2 DEF Ignored
<1>9. Taken(a, t, v, FALSE) => ObserveSaysOf(a, t, v, b)
  <2>1. Taken(a, t, v, FALSE) => ObserveSaysOf(a, t, v, Observe(a, t, v, FALSE))
    BY <1>1, ObserveTaken, Zenon
  <2> QED BY <2>1
<1>10. ~Taken(a, t, v, FALSE) => b = a
  BY DEF Taken, Observe
<1>11. \A d \in Engine : \A r \in BOOLEAN :
         [engine |-> d, route |-> r] # t /\ Told([engine |-> d, route |-> r])
           => ToldNext([engine |-> d, route |-> r])
  BY DEF Sender
<1> HIDE DEF a, v
<1>12. CASE ~Taken(a, t, v, FALSE)
  <2>1. b = a
    BY <1>10, <1>12
  <2>2. ASSUME a.engine # None
        PROVE  a.engine # t.engine
    BY <1>2, <1>8, <1>12, <2>2 DEF Taken, Bound
  <2>3. AgreesNext(a)
    <3>1. a.engine # None => /\ [engine |-> a.engine, route |-> TRUE] # t
                             /\ [engine |-> a.engine, route |-> FALSE] # t
      BY <2>2
    <3> QED BY <1>2, <1>3, <1>11, <3>1 DEF Agrees, AgreesNext
  <2>4. ASSUME seed # NoSeed, ~a.state.routeKnown, selector[seed.engine] # seed.value
        PROVE  ToldNext([engine |-> seed.engine, route |-> TRUE])
    <3>1. a.engine = None
      BY <1>3, <2>4 DEF Agrees
    <3>2. ASSUME [engine |-> seed.engine, route |-> TRUE] = t
          PROVE  FALSE
      <4>1. t.engine = seed.engine /\ t.route
        BY <3>2
      <4>2. v \in {"Speakers", "Headphones"}
        BY <1>4, <1>6, <1>7, <2>4, <4>1
      <4>3. Bound(a, t, v) = t.engine /\ t.engine # None
        BY <1>5, <3>1, <4>1, <4>2, SourceAssumption DEF Bound
      <4> QED BY <1>6, <1>8, <1>12, <2>4, <3>1, <4>1, <4>3 DEF Taken
    <3> QED BY <1>6, <1>11, <2>4, <3>2
  <2> QED BY <2>1, <2>3, <2>4
<1>13. CASE Taken(a, t, v, FALSE)
  <2>1. ObserveSaysOf(a, t, v, b)
    BY <1>9, <1>13
  <2>2. b.engine = t.engine /\ (a.engine # None => a.engine = t.engine)
    BY <1>8, <1>13, <2>1 DEF ObserveSaysOf, Bound, Taken
  <2>3. b.state \in AudioState
    BY <2>1 DEF ObserveSaysOf, SourceObject
  <2>4. CASE t.route
    <3>1. b.state.routeKnown /\ b.state.speakers = (selector[b.engine] = "Speakers")
      BY <1>4, <2>1, <2>2, <2>4 DEF ObserveSaysOf
    <3>2. \/ /\ b.state.engineKnown = (engineState[b.engine] # "Absent")
             /\ b.state.engineRunning = (engineState[b.engine] = "Running")
          \/ ToldNext([engine |-> b.engine, route |-> FALSE])
      <4>1. CASE engineState[b.engine] # "Absent"
        BY <2>1, <2>3, <2>4, <4>1 DEF ObserveSaysOf, AudioState
      <4>2. CASE engineState[b.engine] = "Absent"
        <5>1. b.state.engineKnown = a.state.engineKnown /\ b.state.engineRunning = a.state.engineRunning
          BY <2>1, <2>4, <4>2 DEF ObserveSaysOf
        <5>2. CASE a.engine = None
          <6>1. a.state.engineKnown = FALSE /\ a.state.engineRunning = FALSE
            BY <1>2, <5>2 DEF Unknown
          <6> QED BY <4>2, <5>1, <6>1
        <5>3. CASE a.engine # None
          <6>1. a.engine = b.engine
            BY <2>2, <5>3
          <6>2. [engine |-> b.engine, route |-> FALSE] # t
            BY <2>4, OtherSender
          <6> QED BY <1>3, <1>5, <1>11, <2>2, <5>1, <5>3, <6>1, <6>2 DEF Agrees
        <5> QED BY <5>2, <5>3
      <4> QED BY <4>1, <4>2
    <3>3. selector[b.engine] # "Absent"
      BY <1>4, <2>2, <2>4
    <3> QED BY <3>1, <3>2, <3>3 DEF AgreesNext
  <2>5. CASE ~t.route
    <3>1. a.engine = t.engine /\ a.engine # None
      BY <2>1, <2>2, <2>5 DEF ObserveSaysOf, Bound
    <3>2. /\ b.state.routeKnown = a.state.routeKnown /\ b.state.speakers = a.state.speakers
          /\ b.state.engineKnown /\ b.state.engineRunning = (engineState[b.engine] = "Running")
      BY <1>4, <2>1, <2>2, <2>5 DEF ObserveSaysOf
    <3>3. b.state.engineKnown = (engineState[b.engine] # "Absent")
      BY <1>4, <2>2, <2>3, <2>5, <3>2 DEF AudioState
    <3>4. [engine |-> b.engine, route |-> TRUE] # t
      BY <2>5, OtherSender
    <3> QED BY <1>3, <1>5, <1>11, <2>2, <3>1, <3>2, <3>3, <3>4 DEF Agrees, AgreesNext
  <2> QED BY <2>4, <2>5
<1> QED BY <1>12, <1>13

LEMMA DeliverMail ==
  ASSUME MInv, Output = {"Speakers", "Headphones"},
         NEW t \in Sender, Deliver(t), UNCHANGED serviceVars
  PROVE  Mailbox' /\ SeedFresh'
<1>1. /\ selector' = selector /\ engineState' = engineState /\ listeners' = listeners
      /\ current' = current /\ seed' = seed
  BY DEF Deliver, serviceVars
<1> SUFFICES ASSUME current # None, current \in listeners
             PROVE  Mailbox' /\ SeedFresh'
  <2>1. CASE current # None /\ pc # "Close"
    BY <2>1 DEF MInv, IInv, Owner
  <2>2. CASE ~(current # None /\ pc # "Close")
    <3>1. listeners = {} /\ seed = NoSeed
      BY <2>2 DEF MInv, IInv, Owner, Seeding
    <3> QED BY <1>1, <3>1, NothingListed
  <2> QED BY <2>1, <2>2
<1>2. PICK s \in hook[t].targets :
        LET b == Observe(src[s], t, hook[t].value, FALSE)
        IN /\ s \in Source /\ b \in SourceObject /\ b.refs \in Nat /\ b.refs >= 1
           /\ s = current => b.refs > 2
           /\ src' = [src EXCEPT ![s] = Released(b, 1)]
           /\ \E call \in Call :
                /\ hook' = [hook EXCEPT ![t] = call]
                /\ call.targets = hook[t].targets \ {s}
                /\ call # Quiet => call.value = hook[t].value /\ call.published
  BY DeliverDoes DEF MInv
<1> DEFINE b == Observe(src[s], t, hook[t].value, FALSE)
           r == Released(b, 1)
<1>3. PICK call \in Call :
        /\ hook' = [hook EXCEPT ![t] = call]
        /\ call.targets = hook[t].targets \ {s}
        /\ call # Quiet => call.value = hook[t].value /\ call.published
  BY <1>2
<1>4. /\ hook \in [Sender -> Call] /\ src \in [Source -> SourceObject] /\ current \in Source
  BY SourceIsThere, SourceTypes DEF MInv, IInv
<1>5. hook[t].published /\ hook[t] # Quiet
  <2>1. hook[t].targets # {} /\ Quiet.targets = {}
    BY DEF Quiet
  <2> QED BY <2>1 DEF MInv, IInv, InFlight
<1>6. ASSUME NEW u \in Sender, u # t, Told(u)
      PROVE  ToldNext(u)
  BY <1>1, <1>3, <1>4, <1>6 DEF Told, ToldNext
<1>7. s # current /\ Told(t) => ToldNext(t)
  <2>1. hook'[t] = call /\ Quiet.targets = {}
    BY <1>3, <1>4 DEF Quiet
  <2>2. s # current /\ Told(t) => current \in call.targets
    BY <1>3, <1>5 DEF Told
  <2> QED BY <1>1, <2>1, <2>2 DEF ToldNext
<1>8. b \in SourceObject /\ b.refs >= 1 /\ (s = current => b.refs # 1) /\ src' = [src EXCEPT ![s] = r]
  <2> DEFINE n == b.refs
  <2>1. b \in SourceObject /\ n >= 1 /\ (s = current => n > 2) /\ src' = [src EXCEPT ![s] = r]
    BY <1>2
  <2> HIDE DEF n
  <2>2. s = current => n # 1
    BY <2>1
  <2> QED BY <2>1, <2>2 DEF n
<1>9. s = current => r.engine = b.engine /\ r.state = b.state
  <2> HIDE DEF b
  <2>1. 1 \in Nat
    OBVIOUS
  <2> QED BY <1>8, <2>1, ReleasedKeeps
<1> HIDE DEF b, r
<1>10. CASE s # current
  <2>1. src'[current] = src[current]
    BY <1>4, <1>8, <1>10
  <2>2. \A u \in Sender : Told(u) => ToldNext(u)
    BY <1>6, <1>7, <1>10
  <2>3. Mailbox'
    <3>1. AgreesNext(src[current])
      BY <1>1, <2>2, AgreesStays, BoundEngine DEF MInv, Mailbox
    <3> QED BY <1>1, <2>1, <3>1, MailboxNext
  <2>4. SeedFresh'
    <3>1. seed # NoSeed => [engine |-> seed.engine, route |-> TRUE] \in Sender
      BY DEF Sender, MInv, IInv, Seeding
    <3> QED BY <1>1, <2>1, <2>2, <3>1, SeedFreshNext DEF MInv, SeedFresh
  <2> QED BY <2>3, <2>4
<1>11. CASE s = current
  <2>1. src'[current] = r
    BY <1>4, <1>8, <1>11
  <2>2. b = Observe(src[current], t, hook[t].value, FALSE)
    BY <1>11 DEF b
  <2>3. /\ AgreesNext(b)
        /\ seed # NoSeed =>
             \/ b.state.routeKnown
             \/ selector[seed.engine] = seed.value
             \/ ToldNext([engine |-> seed.engine, route |-> TRUE])
    BY <1>1, <1>5, <1>6, <2>2, DeliverToCurrent
  <2>4. AgreesNext(r)
    BY <1>9, <1>11, <2>3 DEF AgreesNext
  <2>5. Mailbox'
    BY <1>1, <2>1, <2>4, MailboxNext
  <2>6. seed # NoSeed => selector[seed.engine] # "Absent"
    BY DEF MInv, SeedFresh
  <2>7. SeedFresh'
    BY <1>1, <1>9, <1>11, <2>1, <2>3, <2>6, SeedFreshNext
  <2> QED BY <2>5, <2>7
<1> QED BY <1>10, <1>11

LEMMA InstallHooksMail ==
  ASSUME MInv, InstallHooks, UNCHANGED serviceVars
  PROVE  Mailbox' /\ SeedFresh'
<1>1. /\ selector' = selector /\ engineState' = engineState /\ hook' = hook
      /\ listeners' = listeners /\ src' = src /\ current' = current /\ seed' = seed
  BY DEF InstallHooks, serviceVars
<1>2. \A u : ToldNext(u) <=> Told(u)
  BY <1>1 DEF Told, ToldNext
<1>3. Mailbox'
  BY <1>1, <1>2, MailboxNext DEF MInv, Mailbox, Agrees, AgreesNext
<1>4. SeedFresh'
  BY <1>1, <1>2, SeedFreshNext DEF MInv, SeedFresh
<1> QED BY <1>3, <1>4

\* The source is being torn down.
LEMMA TeardownMail ==
  ASSUME MInv, Unlisted \/ Closed
  PROVE  Mailbox' /\ SeedFresh'
<1>1. Tearing /\ current # None /\ seed' = seed /\ (Closed => pc = "Close")
  BY DEF Unlisted, Closed, MInv, IInv, Owner, Tearing
<1>2. seed' = NoSeed
  BY <1>1 DEF MInv, IInv, Seeding, Tearing
<1>3. listeners' = {}
  BY <1>1 DEF Unlisted, Closed, Unlist, CloseMailbox, MInv, IInv, Owner
<1> QED BY <1>2, <1>3, NothingListed

-----------------------------------------------------------------------------
(* Every behaviour *)

LEMMA InitHolds ==
  Init => MInv
<1> SUFFICES ASSUME Init
             PROVE  MInv
  OBVIOUS
<1>1. /\ selector = [e \in Engine |-> "Absent"] /\ engineState = [e \in Engine |-> "Absent"]
      /\ hooked = FALSE /\ calls = 0 /\ hook = [t \in Sender |-> Quiet] /\ listeners = {}
      /\ src = [s \in Source |-> Freed]
  BY DEF Init, SourceInit
<1>2. /\ power = TRUE /\ timer = TRUE /\ current = None /\ hdaPci = None /\ audioState = Unknown
      /\ live \in Controller /\ upsets = 0 /\ pc = "Idle" /\ then = "Idle" /\ todo = {}
      /\ seed = NoSeed /\ run = NoRun /\ output = "Silent" /\ prepared = 0
  BY DEF Init
<1>3. SourceTypeOK
  <2>1. calls \in 0..MaxCalls
    <3>1. MaxCalls \in Nat
      BY SourceAssumption
    <3>2. 0 \in 0..MaxCalls
      BY <3>1
    <3> QED BY <1>1, <3>2
  <2>2. hook \in [Sender -> Call] /\ src \in [Source -> SourceObject]
    BY <1>1, FreedType, QuietType
  <2>3. /\ selector \in [Engine -> Output \union {"Absent"}]
        /\ engineState \in [Engine -> {"Absent", "Running", "Stopped"}]
    BY <1>1
  <2>4. hooked \in BOOLEAN /\ listeners \in SUBSET Source
    BY <1>1
  <2> QED BY <2>1, <2>2, <2>3, <2>4, SourceTypes
<1>4. ServiceTypes
  BY <1>2, RoutingAssumption, UnknownType DEF ServiceTypes, OutputState, Step, NoSeed, NoRun
<1>5. InFlight
  BY <1>1 DEF InFlight, Quiet
<1>6. ReferencesAccounted
  <2> SUFFICES ASSUME NEW s \in Source
               PROVE  src[s].refs = Cardinality(Holders(s)) + Owned(s) /\ s \notin listeners
    BY DEF ReferencesAccounted, Holders, Owned
  <2>1. Holders(s) = {}
    BY <1>1 DEF Holders, Quiet
  <2>2. s # None
    BY SourceAssumption
  <2> QED BY <1>1, <1>2, <2>1, <2>2, FS_EmptySet DEF Freed, Owned
<1>7. Owner /\ Known /\ Seeding /\ RunFacts /\ SleepsOnlySettled
  BY <1>1, <1>2 DEF Owner, Known, Seeding, RunFacts, At, Tearing, SleepsOnlySettled
<1>8. Mailbox /\ SeedFresh
  BY <1>1, <1>2 DEF Mailbox, SeedFresh
<1> QED BY <1>3, <1>4, <1>5, <1>6, <1>7, <1>8 DEF MInv, IInv

LEMMA StutterKeeps ==
  ASSUME UNCHANGED vars
  PROVE  /\ IInv => IInv'
         /\ MInv => MInv'
<1>1. /\ selector' = selector /\ engineState' = engineState /\ hooked' = hooked /\ calls' = calls
      /\ hook' = hook /\ listeners' = listeners /\ src' = src
  BY DEF vars, sourceVars
<1>2. /\ power' = power /\ timer' = timer /\ current' = current /\ hdaPci' = hdaPci
      /\ audioState' = audioState /\ live' = live /\ upsets' = upsets /\ pc' = pc /\ then' = then
      /\ todo' = todo /\ seed' = seed /\ run' = run /\ output' = output /\ prepared' = prepared
  BY DEF vars, serviceVars
<1>3. IInv => SourceTypeOK' /\ InFlight' /\ ReferencesAccounted'
  BY ZenonT(60), <1>1, <1>2 DEF IInv, SourceTypeOK, InFlight, ReferencesAccounted
<1>4. IInv => ServiceTypes' /\ Owner' /\ Known' /\ Seeding'
  BY <1>1, <1>2 DEF IInv, ServiceTypes, Owner, Tearing, Known, Seeding
<1>5. IInv => RunFacts' /\ SleepsOnlySettled'
  BY <1>1, <1>2 DEF IInv, RunFacts, At, Tearing, SleepsOnlySettled
<1>6. MInv => Mailbox' /\ SeedFresh'
  BY <1>1, <1>2, MailboxStays DEF sourceVars
<1> QED BY <1>3, <1>4, <1>5, <1>6 DEF IInv, MInv

LEMMA MonitorKeeps ==
  ASSUME IInv, Monitor
  PROVE  IInv'
BY UnlistedStep, ClosedStep, ControllerGoneStep, ControllerMissingStep, ControllerNotReadyStep,
   StreamObservedStep, CreateSourceStep, RefreshRouteStep, SeedReadStep, SeedObserveStep,
   TakeSnapshotStep, TickStep, ValidateStep, CommitStep, RevalidateStep, CancelStep, RearmStep
   DEF Monitor

LEMMA NextKeeps ==
  IInv /\ [Next]_vars => IInv'
<1> SUFFICES ASSUME IInv, [Next]_vars
             PROVE  IInv'
  OBVIOUS
<1>1. CASE InstallHooks /\ UNCHANGED serviceVars
  BY <1>1, InstallHooksStep
<1>2. ASSUME NEW e \in Engine, Appear(e) /\ UNCHANGED serviceVars
      PROVE  IInv'
  BY <1>2, AppearStep
<1>3. ASSUME NEW t \in Sender, HookThread(t)
      PROVE  IInv'
  BY <1>3, OriginalStep, PublishStep, DeliverStep DEF HookThread
<1>4. CASE ChangeController \/ PowerOff \/ PowerOn \/ TimerFired \/ AudioEvent
  BY <1>4, ChangeControllerStep, PowerOffStep, PowerOnStep, TimerFiredStep, AudioEventStep
<1>5. CASE Monitor
  BY <1>5, MonitorKeeps
<1>6. CASE UNCHANGED vars
  BY <1>6, StutterKeeps
<1> QED BY <1>1, <1>2, <1>3, <1>4, <1>5, <1>6 DEF Next

\* The steps of the service that leave the sources and the hooks alone.
LEMMA ServiceMail ==
  ASSUME MInv,
         \/ ChangeController \/ PowerOff \/ PowerOn \/ TimerFired
         \/ ControllerGone \/ ControllerMissing \/ ControllerNotReady \/ StreamObserved
         \/ RefreshRoute \/ TakeSnapshot \/ Tick \/ Validate \/ Commit \/ Revalidate
         \/ Cancel \/ Rearm
  PROVE  Mailbox' /\ SeedFresh'
<1>1. UNCHANGED <<sourceVars, current>> /\ seed' = seed
  <2>1. CASE ChangeController \/ PowerOff \/ PowerOn \/ TimerFired
    BY <2>1 DEF ChangeController, PowerOff, PowerOn, TimerFired
  <2>2. CASE ControllerGone \/ ControllerMissing \/ ControllerNotReady \/ StreamObserved
    BY <2>2 DEF ControllerGone, ControllerMissing, ControllerNotReady, StreamObserved
  <2>3. CASE RefreshRoute \/ TakeSnapshot \/ Tick \/ Validate \/ Commit
    BY <2>3 DEF RefreshRoute, TakeSnapshot, Tick, Validate, Commit
  <2>4. CASE Revalidate \/ Cancel \/ Rearm
    BY <2>4 DEF Revalidate, Cancel, Rearm
  <2> QED BY <2>1, <2>2, <2>3, <2>4
<1> QED BY <1>1, MailboxStays

LEMMA NextKeepsMail ==
  ASSUME Output = {"Speakers", "Headphones"}
  PROVE  MInv /\ [Next]_vars => MInv'
<1> SUFFICES ASSUME MInv, [Next]_vars
             PROVE  Mailbox' /\ SeedFresh'
  BY NextKeeps DEF MInv
<1>1. CASE InstallHooks /\ UNCHANGED serviceVars
  BY <1>1, InstallHooksMail
<1>2. ASSUME NEW e \in Engine, Appear(e) /\ UNCHANGED serviceVars
      PROVE  Mailbox' /\ SeedFresh'
  BY <1>2, AppearMail
<1>3. ASSUME NEW t \in Sender, HookThread(t)
      PROVE  Mailbox' /\ SeedFresh'
  BY <1>3, OriginalMail, PublishMail, DeliverMail DEF HookThread
<1>4. CASE ChangeController \/ PowerOff \/ PowerOn \/ TimerFired
  BY <1>4, ServiceMail
<1>5. CASE AudioEvent
  BY <1>5, AudioEventMail
<1>6. CASE Monitor
  BY <1>6, ServiceMail, TeardownMail, CreateSourceMail, SeedReadMail, SeedObserveMail DEF Monitor
<1>7. CASE UNCHANGED vars
  BY <1>7, StutterKeeps DEF MInv
<1> QED BY <1>1, <1>2, <1>3, <1>4, <1>5, <1>6, <1>7 DEF Next

LEMMA Invariant ==
  Spec => []IInv
<1>1. Init => IInv
  BY InitHolds DEF MInv
<1>2. IInv /\ [Next]_vars => IInv'
  BY NextKeeps
<1> QED BY <1>1, <1>2, PTL DEF Spec

-----------------------------------------------------------------------------

\* The variables of the event source and of the monitor have their types.
THEOREM TypeCorrect ==
  Spec => []TypeOK
<1>1. IInv => TypeOK
  BY DEF IInv, ServiceTypes, AudioState, TypeOK, Step
<1> QED BY <1>1, Invariant, PTL

\* However calls, teardowns and new sources interleave, a source has one
\* reference for every routed call that holds it and two for the service that
\* owns it: observe() never runs on a freed source, and none is leaked.
THEOREM ReferencesAlwaysAccounted ==
  Spec => []ReferencesAccounted
<1>1. IInv => ReferencesAccounted
  BY DEF IInv
<1> QED BY <1>1, Invariant, PTL

\* Between two runs of the monitor the state the service acts on is that of the
\* mailbox, or the workloop is signalled: no change of the route is lost.
THEOREM NothingIsForgotten ==
  Spec => []NothingForgotten
<1>1. IInv => NothingForgotten
  BY DEF IInv, Known, Tearing, NothingForgotten
<1> QED BY <1>1, Invariant, PTL

\* Whatever the hooks, the controller and the power do, the monitor lets its
\* timer lie only with no amplifier work under way and a known route that
\* forbids playing, with an event pending, or for a group that has failed.  The
\* amplifiers need not be silent: a cleanup that failed is no work under way.
THEOREM SleepsOnlyWhenSettled ==
  Spec => []SleepsOnlySettled
<1>1. IInv => SleepsOnlySettled
  BY DEF IInv
<1> QED BY <1>1, Invariant, PTL

\* Where a selector knows no third value, the mailbox says what the registry
\* says as soon as the calls of its engine are over, in whatever order the
\* reports and the seed reached it.
THEOREM MailboxStaysCurrent ==
  ASSUME Output = {"Speakers", "Headphones"}
  PROVE  Spec => []MailboxIsCurrent
<1>1. Init => MInv
  BY InitHolds
<1>2. MInv /\ [Next]_vars => MInv'
  BY NextKeepsMail
<1>3. MInv => MailboxIsCurrent
  <2> SUFFICES ASSUME MInv, current \in listeners, src[current].engine # None,
                      \A t \in Sender : t.engine = src[current].engine => hook[t] = Quiet
               PROVE  /\ src[current].state.routeKnown
                      /\ src[current].state.speakers = (selector[src[current].engine] = "Speakers")
                      /\ src[current].state.engineKnown = (engineState[src[current].engine] # "Absent")
                      /\ src[current].state.engineRunning = (engineState[src[current].engine] = "Running")
    BY DEF MailboxIsCurrent
  <2>1. current # None
    BY DEF MInv, IInv, Owner
  <2>2. src[current].engine \in Engine
    BY <2>1, BoundEngine DEF MInv
  <2>3. /\ ~Told([engine |-> src[current].engine, route |-> TRUE])
        /\ ~Told([engine |-> src[current].engine, route |-> FALSE])
    BY <2>2 DEF Told, Sender
  <2> QED BY <2>3 DEF MInv, Mailbox, Agrees
<1> QED BY <1>1, <1>2, <1>3, PTL DEF Spec

\* Where a selector knows no third value, a seed that is taken is what the
\* registry says, or the call that changed the registry has yet to report.
THEOREM LiveReportsWin ==
  ASSUME Output = {"Speakers", "Headphones"}
  PROVE  Spec => LiveReportWins
<1>1. Init => MInv
  BY InitHolds
<1>2. MInv /\ [Next]_vars => MInv'
  BY NextKeepsMail
<1> DEFINE Fresh ==
      pc = "Seed" /\ src'[current] # src[current] /\ seed # NoSeed /\ seed' = NoSeed =>
        \/ selector[seed.engine] = seed.value
        \/ \E t \in Sender : t.engine = seed.engine /\ t.route /\ hook[t] # Quiet
<1>3. MInv /\ [Next]_vars => [Fresh]_vars
  <2> SUFFICES ASSUME MInv, Next, pc = "Seed", src'[current] # src[current],
                      seed # NoSeed, seed' = NoSeed
               PROVE  \/ selector[seed.engine] = seed.value
                      \/ \E t \in Sender : t.engine = seed.engine /\ t.route /\ hook[t] # Quiet
    BY DEF Fresh
  <2>1. SeedObserve
    <3>1. seed' # seed
      OBVIOUS
    <3>2. ~(InstallHooks /\ UNCHANGED serviceVars)
          /\ ~(\E e \in Engine : Appear(e) /\ UNCHANGED serviceVars)
          /\ ~(\E t \in Sender : HookThread(t))
      BY <3>1 DEF HookThread, serviceVars
    <3>3. ~ChangeController /\ ~PowerOff /\ ~PowerOn /\ ~TimerFired /\ ~AudioEvent
      BY <3>1 DEF ChangeController, PowerOff, PowerOn, TimerFired, AudioEvent
    <3>4. ~Unlisted /\ ~Closed /\ ~ControllerGone /\ ~ControllerMissing /\ ~ControllerNotReady
          /\ ~StreamObserved /\ ~CreateSource /\ ~RefreshRoute
      BY <3>1 DEF Unlisted, Closed, ControllerGone, ControllerMissing, ControllerNotReady,
                  StreamObserved, CreateSource, RefreshRoute
    <3>5. ~SeedRead /\ ~TakeSnapshot /\ ~Tick /\ ~Validate /\ ~Commit /\ ~Revalidate /\ ~Cancel
          /\ ~Rearm
      BY <3>1 DEF SeedRead, TakeSnapshot, Tick, Validate, Commit, Revalidate, Cancel, Rearm
    <3> QED BY <3>2, <3>3, <3>4, <3>5 DEF Next, Monitor
  <2> DEFINE t == [engine |-> seed.engine, route |-> TRUE]
  <2>2. current # None
    BY DEF MInv, IInv, Owner
  <2>3. src'[current] = Observe(src[current], t, seed.value, TRUE)
    BY <2>1, <2>2, SourceIsThere DEF SeedObserve, MInv
  <2>4. ~src[current].state.routeKnown
    BY <2>3 DEF Observe, Ignored
  <2>5. t \in Sender /\ t.engine = seed.engine /\ t.route
    BY DEF Sender, MInv, IInv, Seeding
  <2>6. selector[seed.engine] = seed.value \/ hook[t] # Quiet
    BY <2>4 DEF MInv, SeedFresh, Told
  <2> QED BY <2>5, <2>6
<1>4. [][Fresh]_vars => LiveReportWins
  BY PTL DEF LiveReportWins, Fresh
<1> HIDE DEF Fresh
<1> QED BY <1>1, <1>2, <1>3, <1>4, PTL DEF Spec

=============================================================================
