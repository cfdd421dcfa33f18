-------------------------- MODULE AudioEventSource --------------------------
(***************************************************************************)
(* CirrusAudioEventSource and the two IOAudioFamily hooks that feed it.    *)
(*                                                                         *)
(* The hooks run on the threads of the audio stack: they first let the     *)
(* original function change the registry, then snapshot and retain the     *)
(* listeners, then observe() the change at each of them.  An audio object  *)
(* (a selector control, an engine) makes one call at a time; calls of      *)
(* different objects interleave freely with each other and with the        *)
(* workloop that owns the event source.                                    *)
(*                                                                         *)
(*   selector, engineState   what the I/O registry says                    *)
(*   hook     per audio object, the hooked call in progress                *)
(*   listeners, src          the listener table and the source objects     *)
(***************************************************************************)
EXTENDS Naturals, FiniteSets

CONSTANTS
  Controller, \* HDA controllers
  Engine,     \* audio engines, with one output selector each
  Parent,     \* the controller of an engine
  Source,     \* objects of class CirrusAudioEventSource
  None,       \* a null pointer
  Output,     \* the values a selector takes: "Speakers", "Headphones", others
  MaxCalls    \* bound: calls of hooked functions in a behaviour

ASSUME SourceAssumption ==
  /\ IsFiniteSet(Engine) /\ Parent \in [Engine -> Controller]
  /\ None \notin Controller \union Engine \union Source
  /\ {"Speakers", "Headphones"} \subseteq Output
  /\ "Absent" \notin Output
  /\ MaxCalls \in Nat

VARIABLES selector, engineState, hooked, calls, hook, listeners, src

sourceVars == <<selector, engineState, hooked, calls, hook, listeners, src>>

kListeners == 4

\* An audio object: the output selector of an engine, or the engine itself.
Sender == [engine : Engine, route : BOOLEAN]

\* AudioEventState
Unknown ==
  [routeKnown |-> FALSE, speakers |-> FALSE, engineKnown |-> FALSE,
   engineRunning |-> FALSE, generation |-> 0]

Permits(s) == s.routeKnown /\ s.speakers /\ s.engineKnown /\ s.engineRunning

\* A source object; it exists while it has references.
Freed ==
  [refs |-> 0, controller |-> None, attached |-> FALSE, pending |-> FALSE,
   engine |-> None, state |-> Unknown]

Quiet == [value |-> "Absent", published |-> TRUE, targets |-> {}]

SourceTypeOK ==
  /\ selector \in [Engine -> Output \union {"Absent"}]
  /\ engineState \in [Engine -> {"Absent", "Running", "Stopped"}]
  /\ hooked \in BOOLEAN /\ calls \in 0..MaxCalls
  /\ hook \in [Sender -> [value : Output \union {"Absent", "Running", "Stopped"},
                          published : BOOLEAN, targets : SUBSET Source]]
  /\ listeners \in SUBSET Source
  /\ src \in [Source ->
       [refs : Nat, controller : Controller \union {None}, attached : BOOLEAN,
        pending : BOOLEAN, engine : Engine \union {None},
        state : [routeKnown : BOOLEAN, speakers : BOOLEAN, engineKnown : BOOLEAN,
                 engineRunning : BOOLEAN, generation : Nat]]]

SourceInit ==
  /\ selector = [e \in Engine |-> "Absent"]
  /\ engineState = [e \in Engine |-> "Absent"]
  /\ hooked = FALSE /\ calls = 0
  /\ hook = [t \in Sender |-> Quiet]
  /\ listeners = {}
  /\ src = [s \in Source |-> Freed]

-----------------------------------------------------------------------------
(* observe(): the mailbox update, under the mailbox lock.                   *)

\* The state of a source bound to engine e after sender t reports value.
Observed(state, e, t, value) ==
  IF t.route
  THEN LET routed == [state EXCEPT !.routeKnown = TRUE, !.speakers = (value = "Speakers")]
       IN IF engineState[e] = "Absent" THEN routed
          ELSE [routed EXCEPT !.engineKnown = TRUE,
                              !.engineRunning = (engineState[e] = "Running")]
  ELSE [state EXCEPT !.engineKnown = TRUE, !.engineRunning = (value = "Running")]

\* Mutation: a seed read from the registry replaces what a hook reported.
IgnoredUnlessSeed(a, t, seed) ==
  \/ Parent[t.engine] # a.controller
  \/ ~a.attached
  \/ a.engine # None /\ a.engine # t.engine

\* The reports a source drops: of another controller or engine, after detach(),
\* and a seed, read from the registry, that comes after a live report.
Ignored(a, t, seed) ==
  \/ Parent[t.engine] # a.controller
  \/ ~a.attached
  \/ seed /\ a.state.routeKnown
  \/ a.engine # None /\ a.engine # t.engine

\* The first speaker or headphone selector binds the source to its engine.
Bound(a, t, value) ==
  IF a.engine # None THEN a.engine
  ELSE IF t.route /\ value \in {"Speakers", "Headphones"} THEN t.engine ELSE None

Later(state) == [state EXCEPT !.generation = @ + 1]

\* Mutation: a change of the engine state does not signal the workloop.
NotedRouteOnly(a, e, next) ==
  IF next = a.state THEN [a EXCEPT !.engine = e]
  ELSE [a EXCEPT !.engine = e, !.pending = (@ \/ next.speakers # a.state.speakers),
                 !.state = Later(next)]

\* A change takes the next generation and signals the workloop.
Noted(a, e, next) ==
  IF next = a.state THEN [a EXCEPT !.engine = e]
  ELSE [a EXCEPT !.engine = e, !.pending = TRUE,
                 !.state = Later(next)]

\* Source object a after the report of value by sender t.
Observe(a, t, value, seed) ==
  LET e == Bound(a, t, value)
  IN IF Ignored(a, t, seed) \/ e = None THEN a
     ELSE Noted(a, e, Observed(a.state, e, t, value))

\* release(): the object goes with its last reference.
Released(a, n) == IF a.refs = n THEN Freed ELSE [a EXCEPT !.refs = @ - n]

-----------------------------------------------------------------------------
(* The hook threads. *)

\* The patcher routes both functions (loaded()).
InstallHooks ==
  /\ ~hooked
  /\ hooked' = TRUE
  /\ UNCHANGED <<selector, engineState, calls, hook, listeners, src>>

\* A selector appears in the registry, with a value no hook reports.
Appear(e) ==
  /\ selector[e] = "Absent"
  /\ selector' \in {[selector EXCEPT ![e] = value] : value \in Output}
  /\ UNCHANGED <<engineState, hooked, calls, hook, listeners, src>>

\* The original updateValue() or setState(); a call that was routed goes on.
Original(t) ==
  /\ hook[t] = Quiet /\ calls < MaxCalls
  /\ t.route => selector[t.engine] # "Absent"
  /\ calls' = calls + 1
  /\ \E value \in IF t.route THEN Output ELSE {"Running", "Stopped"} :
       /\ IF t.route
          THEN selector' = [selector EXCEPT ![t.engine] = value] /\ UNCHANGED engineState
          ELSE engineState' = [engineState EXCEPT ![t.engine] = value] /\ UNCHANGED selector
       /\ hook' = IF hooked
                  THEN [hook EXCEPT ![t] = [value |-> value, published |-> FALSE, targets |-> {}]]
                  ELSE hook
  /\ UNCHANGED <<hooked, listeners, src>>

\* Mutation: the listeners are not retained for the call.
PublishUnretained(t) ==
  /\ ~hook[t].published
  /\ hook' = [hook EXCEPT ![t] = IF listeners = {} THEN Quiet
                                 ELSE [@ EXCEPT !.published = TRUE, !.targets = listeners]]
  /\ UNCHANGED <<selector, engineState, hooked, calls, listeners, src>>

\* publish(): copy and retain the listeners under the list lock.
Publish(t) ==
  /\ ~hook[t].published
  /\ hook' = [hook EXCEPT ![t] = IF listeners = {} THEN Quiet
                                 ELSE [@ EXCEPT !.published = TRUE, !.targets = listeners]]
  /\ src' = [s \in Source |-> IF s \in listeners THEN [src[s] EXCEPT !.refs = @ + 1] ELSE src[s]]
  /\ UNCHANGED <<selector, engineState, hooked, calls, listeners>>

\* The call returns after its last listener.
Delivered(call, s) ==
  IF call.targets = {s} THEN Quiet ELSE [call EXCEPT !.targets = @ \ {s}]

\* publish(): observe at the next listener and release it.
Deliver(t) ==
  \E s \in hook[t].targets :
    /\ src' = [src EXCEPT ![s] = Released(Observe(src[s], t, hook[t].value, FALSE), 1)]
    /\ hook' = [hook EXCEPT ![t] = Delivered(@, s)]
    /\ UNCHANGED <<selector, engineState, hooked, calls, listeners>>

HookStep == \E t \in Sender : Publish(t) \/ Deliver(t)

-----------------------------------------------------------------------------
(* The operations the workloop calls. *)

\* attach(): enter the listener table; the caller seeds the route next.
Attach(s, controller) ==
  /\ src[s] = Freed /\ Cardinality(listeners) < kListeners
  /\ listeners' = listeners \union {s}
  /\ src' = [src EXCEPT ![s] = [Freed EXCEPT !.refs = 2, !.controller = controller, !.attached = TRUE]]

\* detach(): leave the listener table, then close the mailbox.
Unlist(s) ==
  /\ listeners' = listeners \ {s}
  /\ UNCHANGED src

\* The second lock section of detach(), removeEventSource() and release().
CloseMailbox(s) ==
  /\ src' = [src EXCEPT ![s] = Released([@ EXCEPT !.attached = FALSE, !.pending = FALSE], 2)]
  /\ UNCHANGED listeners

\* checkForWork(): take the pending mark, and the state for the handler.
TakePending(s) ==
  /\ src[s].pending
  /\ src' = [src EXCEPT ![s].pending = FALSE]
  /\ UNCHANGED listeners

\* Mutation: the route is read once, when the source is created.
SeedNeededNever(s) == FALSE

\* refreshRoute() retries while no route is known.
SeedNeeded(s) == src[s].attached /\ ~src[s].state.routeKnown

=============================================================================
