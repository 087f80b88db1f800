---------------------------- MODULE CommandInbox ----------------------------
(***************************************************************************)
(* The lifecycle of the command inbox (commands.rs): start, stop, the      *)
(* activation gate that keeps deliveries until the inbox is active, the    *)
(* task that drains the gate, and the dispatch of a delivery, composed     *)
(* with DeferredReply.                                                     *)
(*                                                                         *)
(* Every start and stop begins a generation; the handlers it subscribes,   *)
(* and the task that drains its gate, carry the number of their own.       *)
(* Timeouts of start are positive, and the inbox is never dropped while it *)
(* is used (the callers hold it).  Unsubscribing succeeds.                 *)
(***************************************************************************)
EXTENDS DeferredReply, SequencesExt

CONSTANTS
    Callers,    \* tasks that call start or stop, each once
    GateCap,    \* MAX_PENDING_STARTUP_DELIVERIES
    Address,    \* the filter each request matches: of an instance, or the component's
    Scenes      \* who starts and stops, which requests arrive, may they be deferred

ASSUME CommandInboxAssumption ==
    /\ IsFiniteSet(Callers)
    /\ Requests \intersect {"none", "loop", "over"} = {}
    /\ GateCap \in Nat \ {0}
    /\ Address \in [Requests -> {1, 2}]
    /\ Scenes \subseteq [starts : SUBSET Callers, stops : SUBSET Callers,
                         asks : SUBSET Requests, defers : BOOLEAN]

Filters == {1, 2}   \* of the instances, and of the component itself

VARIABLES
    generation, state, filters,   \* startup_generation, startup_state, inbox_filter
    pending, retained, draining,  \* the activation gate
    subs,       \* generation of the handler subscribed to each filter, 0 for none
    call,       \* where each start or stop is, and its generation
    drain,      \* per generation, its drain task: "loop", or the request in hand
    delivery,   \* where each request is on its way to dispatch
    scene       \* the scenario; never changes

(* History: calls that overlapped, and generations whose gate the drain    *)
(* task of another generation cleared.                                     *)
VARIABLES overlap, wiped

gate == <<pending, retained, draining>>
lifecycle == <<generation, state, filters>>
history == <<overlap, wiped>>
vars == <<deferredVars, lifecycle, gate, subs, call, drain, delivery, scene, history>>

Generations == 1..Cardinality(Callers)

Init ==
    /\ DeferredInit
    /\ generation = 0 /\ state = "Stopped" /\ filters = FALSE
    /\ pending = <<>> /\ retained = 0 /\ draining = FALSE
    /\ subs = [f \in Filters |-> 0]
    /\ call = [c \in Callers |-> [pc |-> "idle", gen |-> 0, f |-> 1, drains |-> FALSE,
                                then |-> "done"]]
    /\ drain = [g \in Generations |-> "none"]
    /\ delivery = [r \in Requests |-> [at |-> "none", gen |-> 0]]
    /\ scene \in Scenes
    /\ overlap = FALSE /\ wiped = {}

EmptyGate == pending' = <<>> /\ retained' = 0 /\ draining' = FALSE

Quiet == \A c \in Callers : call[c].pc \in {"idle", "done"}
Overlaps == overlap' = (overlap \/ ~Quiet)
Goes(c, from, to) == call[c].pc = from /\ call' = [call EXCEPT ![c].pc = to]
Current(g, s) == generation = g /\ state = s

-----------------------------------------------------------------------------
(* start_with_timeout. *)
StartBegin(c) ==
    /\ c \in scene.starts
    /\ call[c].pc = "idle"
    /\ IF state \in {"Starting", "Active"}
       THEN /\ Goes(c, "idle", "done")
            /\ UNCHANGED <<lifecycle, gate, history>>
       ELSE /\ generation' = generation + 1
            /\ state' = "Starting"
            /\ EmptyGate
            /\ call' = [call EXCEPT ![c] = [@ EXCEPT !.pc = "filters", !.gen = generation + 1]]
            /\ Overlaps
            /\ UNCHANGED <<filters, wiped>>
    /\ UNCHANGED <<deferredVars, subs, drain, delivery, scene>>

(* A filter that cannot be built fails the start. *)
StartFilters(c) ==
    /\ \/ /\ Current(call[c].gen, "Starting")
          /\ Goes(c, "filters", "subscribe")
          /\ filters' = TRUE
       \/ /\ ~Current(call[c].gen, "Starting")
          /\ Goes(c, "filters", "done")
          /\ UNCHANGED filters
       \/ Goes(c, "filters", "fail") /\ UNCHANGED filters
    /\ UNCHANGED <<deferredVars, generation, state, gate, subs, drain, delivery,
                   scene, history>>

(* The two filters, one after the other; each subscription is acknowledged *)
(* or fails, and the generation is looked at again after it.               *)
Subscribe(c) ==
    /\ \/ /\ Goes(c, "subscribe", "check")
          /\ subs' = [subs EXCEPT ![call[c].f] = call[c].gen]
       \/ /\ call[c].pc = "subscribe"
          /\ call' = [call EXCEPT ![c] = [@ EXCEPT !.pc = "undo", !.f = 1, !.then = "fail"]]
          /\ UNCHANGED subs
    /\ UNCHANGED <<deferredVars, lifecycle, gate, drain, delivery, scene, history>>

Check(c) ==
    /\ call[c].pc = "check"
    /\ call' = [call EXCEPT ![c] =
           IF ~Current(@.gen, "Starting") THEN [@ EXCEPT !.pc = "undo", !.f = 1]
           ELSE IF @.f = 1 THEN [@ EXCEPT !.pc = "subscribe", !.f = 2]
           ELSE [@ EXCEPT !.pc = "activate"]]
    /\ UNCHANGED <<deferredVars, lifecycle, gate, subs, drain, delivery, scene,
                   history>>

BecomeActive(c) ==
    /\ call[c].pc = "activate"
    /\ IF Current(call[c].gen, "Starting")
       THEN state' = "Active" /\ draining' = (pending # <<>>)
       ELSE UNCHANGED <<state, draining>>
    /\ call' = [call EXCEPT ![c] = [@ EXCEPT !.pc = "recheck", !.f = 1,
           !.drains = Current(call[c].gen, "Starting") /\ pending # <<>>]]
    /\ UNCHANGED <<deferredVars, generation, filters, pending, retained, subs, drain,
                   delivery, scene, history>>

(* The state alone is looked at again, in whatever generation it is. *)
Recheck(c) ==
    /\ Goes(c, "recheck", IF state = "Active" THEN "done" ELSE "undo")
    /\ drain' = IF state = "Active" /\ call[c].drains
                THEN [drain EXCEPT ![call[c].gen] = "loop"] ELSE drain
    /\ UNCHANGED <<deferredVars, lifecycle, gate, subs, delivery, scene, history>>

(* Mutant: only the filter of the instances is given back. *)
Undone_One == {1}

Undone == Filters

(* Unsubscribing takes away whatever is subscribed to the filter. *)
Unsubscribe(c) ==
    /\ call[c].pc = "undo"
    /\ call' = [call EXCEPT ![c] = IF @.f = 1 THEN [@ EXCEPT !.f = 2]
                                   ELSE [@ EXCEPT !.pc = call[c].then]]
    /\ subs' = [f \in Filters |-> IF f = call[c].f /\ f \in Undone THEN 0 ELSE subs[f]]
    /\ UNCHANGED <<deferredVars, lifecycle, gate, drain, delivery, scene, history>>

Fail(c) ==
    /\ Goes(c, "fail", "done")
    /\ IF Current(call[c].gen, "Starting")
       THEN state' = "Failed" /\ filters' = FALSE /\ EmptyGate
       ELSE UNCHANGED <<state, filters, gate>>
    /\ UNCHANGED <<deferredVars, generation, subs, drain, delivery, scene, history>>

(* stop takes the filters, and unsubscribes outside the lock. *)
StopBegin(c) ==
    /\ c \in scene.stops
    /\ Goes(c, "idle", IF filters THEN "undo" ELSE "done")
    /\ generation' = generation + 1
    /\ state' = "Stopped"
    /\ filters' = FALSE
    /\ EmptyGate
    /\ Overlaps
    /\ UNCHANGED <<deferredVars, subs, drain, delivery, scene, wiped>>

CallStep(c) ==
    \/ StartBegin(c)
    \/ StartFilters(c)
    \/ Subscribe(c)
    \/ Check(c)
    \/ BecomeActive(c)
    \/ Recheck(c)
    \/ Unsubscribe(c)
    \/ Fail(c)
    \/ StopBegin(c)

-----------------------------------------------------------------------------
(* Deliveries.  A subscription hands over one at a time; the next one      *)
(* waits until dispatch of the last one is over.                           *)
Over(r) == handler[r] \in {"done", "dropped"}

Busy(f, g) == \E r \in Requests :
    /\ Address[r] = f /\ delivery[r].gen = g
    /\ \/ delivery[r].at = "received"
       \/ delivery[r].at = "direct" /\ ~Over(r)

(* Bound: what may be deferred arrives when the inbox is active. *)
Arrive(r) ==
    LET g == subs[Address[r]] IN
    /\ r \in scene.asks
    /\ delivery[r].at = "none"
    /\ g # 0
    /\ ~Busy(Address[r], g)
    /\ scene.defers => state = "Active" /\ Quiet
    /\ delivery' = [delivery EXCEPT ![r] = [at |-> "received", gen |-> g]]
    /\ UNCHANGED <<deferredVars, lifecycle, gate, subs, call, drain, scene, history>>

DeliveryTo(r, to) == delivery' = [delivery EXCEPT ![r].at = to]

(* Mutant: once active, deliveries go past the gate that is still draining. *)
Gated_Starting == state = "Starting"

Gated == state = "Starting" \/ (state = "Active" /\ draining)

Receive(r) ==
    /\ delivery[r].at = "received"
    /\ \/ /\ generation = delivery[r].gen
          /\ Gated
          /\ retained < GateCap
          /\ pending' = Append(pending, r) /\ retained' = retained + 1
          /\ DeliveryTo(r, "gated")
       \/ /\ generation = delivery[r].gen
          /\ ~Gated
          /\ state = "Active"
          /\ DeliveryTo(r, "direct")
          /\ UNCHANGED <<pending, retained>>
       \/ /\ \/ generation # delivery[r].gen
             \/ Gated /\ retained >= GateCap
             \/ state \notin {"Starting", "Active"}
          /\ DeliveryTo(r, "dropped")
          /\ UNCHANGED <<pending, retained>>
    /\ UNCHANGED <<deferredVars, lifecycle, draining, subs, call, drain, scene, history>>

(* dispatch_delivery: a stale delivery, a delegated verb and a foreign     *)
(* payload end here.                                                       *)
Dispatch(r) ==
    /\ delivery[r].at \in {"direct", "drained"}
    /\ \/ Current(delivery[r].gen, "Active") /\ At(r, "none", "running")
       \/ At(r, "none", "dropped")
    /\ UNCHANGED <<form, registry, settlement, continuation, stopping, replies, early,
                   lifecycle, gate, subs, call, drain, delivery, scene, history>>

-----------------------------------------------------------------------------
(* drain_activation_gate: the task of a generation that is over clears the *)
(* gate of the current one.                                                *)
DrainEmpty(g) ==
    /\ drain[g] = "loop"
    /\ ~Current(g, "Active") \/ pending = <<>>
    /\ EmptyGate
    /\ drain' = [drain EXCEPT ![g] = "over"]
    /\ wiped' = IF generation = g THEN wiped ELSE wiped \union {generation}
    /\ UNCHANGED <<deferredVars, lifecycle, subs, call, delivery, scene, overlap>>

DrainPop(g) ==
    /\ drain[g] = "loop"
    /\ Current(g, "Active")
    /\ pending # <<>>
    /\ pending' = Tail(pending)
    /\ drain' = [drain EXCEPT ![g] = Head(pending)]
    /\ DeliveryTo(Head(pending), "drained")
    /\ UNCHANGED <<deferredVars, lifecycle, retained, draining, subs, call, scene,
                   history>>

(* Mutant: the place of a delivery is not given back. *)
GivenBack_Nothing(g) == 0

GivenBack(g) == IF generation = g /\ retained > 0 THEN 1 ELSE 0

DrainDone(g) ==
    /\ drain[g] \in Requests
    /\ Over(drain[g])
    /\ retained' = retained - GivenBack(g)
    /\ drain' = [drain EXCEPT ![g] = "loop"]
    /\ UNCHANGED <<deferredVars, lifecycle, pending, draining, subs, call, delivery,
                   scene, history>>

DrainStep(g) == DrainEmpty(g) \/ DrainPop(g) \/ DrainDone(g)

-----------------------------------------------------------------------------
InboxFrame == UNCHANGED <<lifecycle, gate, subs, call, drain, delivery, scene, history>>

Next ==
    \/ \E c \in Callers : CallStep(c)
    \/ \E r \in Requests : Arrive(r) \/ Receive(r) \/ Dispatch(r)
    \/ \E g \in Generations : DrainStep(g)
    \/ InboxFrame /\ scene.defers /\ DeferredNext
    \/ InboxFrame /\ ~scene.defers /\ \E r \in Requests : AnswerNow(r)

Spec == Init /\ [][Next]_vars

(* Timers fire: each entry has one. *)
FairSpec ==
    /\ Spec
    /\ \A r \in Requests : WF_vars(Elapse(r) /\ InboxFrame) /\ WF_vars(Expire(r) /\ InboxFrame)

-----------------------------------------------------------------------------
InHand(g) == IF drain[g] \in Requests THEN 1 ELSE 0

(* Places at the gate are neither leaked nor given back twice: the count   *)
(* is that of the deliveries that wait or are in the hand of the drain.    *)
RetainedIsHeld == state \in {"Starting", "Active"} /\ generation \notin wiped
    => retained = Len(pending) + InHand(generation)

(* Types, and the places at the gate. *)
TypeOK ==
    /\ DeferredTypeOK
    /\ generation \in 0..Cardinality(Callers)
    /\ state \in {"Stopped", "Starting", "Active", "Failed"}
    /\ pending \in Seq(Requests)
    /\ subs \in [Filters -> 0..generation]
    /\ \A g \in Generations : drain[g] \in {"none", "loop", "over"} \union Requests
    /\ RetainedIsHeld

(* When every call is over and the inbox is not active, nothing is left    *)
(* subscribed, whichever way starts and stops crossed each other.          *)
NoStaleSubscription == Quiet /\ state # "Active" => \A f \in Filters : subs[f] = 0

(* An active inbox hears both filters, each with the handler of its own    *)
(* generation, provided that no two calls overlapped: see the README.      *)
ActiveIsSubscribed == Quiet /\ state = "Active" /\ ~overlap =>
    \A f \in Filters : subs[f] = generation

(* Whichever way starts and stops crossed, the subscriptions follow the    *)
(* state they left.                                                        *)
SubscriptionsFollow == NoStaleSubscription /\ ActiveIsSubscribed

(* While a delivery is dispatched without waiting at the gate, none that   *)
(* waited there is left over, unless a stale drain task cleared the gate.  *)
GateBeforeDirect == \A r \in Requests :
    delivery[r].at = "direct" /\ handler[r] \notin {"none", "done", "dropped"}
      /\ delivery[r].gen = generation /\ generation \notin wiped
    => pending = <<>> /\ InHand(generation) = 0

(* Within a generation a delivery leaves the gate only to be dispatched    *)
(* ("Serial delivery preserves broker arrival order through the STARTING   *)
(* -> ACTIVE gate"), or when the start fails.                              *)
GateKeeps == [][generation' = generation /\ state' # "Failed" =>
    \A r \in ToSet(pending) : r \in ToSet(pending') \/ delivery'[r].at = "drained"]_vars
=============================================================================
