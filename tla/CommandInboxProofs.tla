------------------------- MODULE CommandInboxProofs -------------------------
(***************************************************************************)
(* Theorems about CommandInbox and the deferred replies it dispatches to,  *)
(* for any number of starts and stops that cross each other, any requests  *)
(* and any bounds of the gate and the registry.                            *)
(***************************************************************************)
EXTENDS CommandInbox, DeferredReplyProofs

CallPlaces == {"idle", "filters", "subscribe", "check", "activate", "recheck", "undo",
               "fail", "done"}
DeliveryPlaces == {"none", "received", "gated", "direct", "drained", "dropped"}

CallRecord == [pc : CallPlaces, gen : Nat, f : Filters, drains : BOOLEAN,
               then : {"done", "fail"}]

InboxTypes ==
    /\ generation \in Nat
    /\ state \in {"Stopped", "Starting", "Active", "Failed"}
    /\ filters \in BOOLEAN
    /\ pending \in Seq(Requests) /\ retained \in Nat /\ draining \in BOOLEAN
    /\ subs \in [Filters -> Nat]
    /\ call \in [Callers -> CallRecord]
    /\ drain \in [Generations -> {"none", "loop", "over"} \union Requests]
    /\ delivery \in [Requests -> [at : DeliveryPlaces, gen : Nat]]
    /\ scene \in Scenes
    /\ overlap \in BOOLEAN
    /\ wiped \subseteq Nat

(* A generation belongs to the call that began it, and its drain task      *)
(* starts when that call has made it active.                               *)
Begun == {c \in Callers : call[c].pc # "idle"}
Starter(c) == call[c].pc \in {"filters", "subscribe", "check", "activate", "recheck"}

Counted == generation <= Cardinality(Begun)

Numbered ==
    /\ state \in {"Starting", "Active"} => generation >= 1
    /\ \A f \in Filters : subs[f] <= generation
    /\ \A r \in Requests : delivery[r].gen <= generation
    /\ \A g \in Generations : g > generation => drain[g] = "none"
    /\ \A c \in Callers :
          /\ call[c].gen <= generation
          /\ call[c].pc \in {"idle", "filters", "recheck"} => call[c].f = 1
          /\ Starter(c) => call[c].gen \in Generations /\ drain[call[c].gen] = "none"
    /\ \A c, d \in Callers : call[c].gen = call[d].gen /\ call[c].gen # 0 => c = d

(* Whatever is subscribed while the inbox is not active, some call is      *)
(* about to make the inbox active or to unsubscribe it.                    *)
Responsible(c, f) ==
    \/ call[c].pc \in {"subscribe", "check", "activate", "recheck"}
    \/ call[c].pc = "undo" /\ call[c].f <= f

Answerable ==
    /\ state = "Active" => filters
    /\ \A c \in Callers :
          call[c].pc \in {"subscribe", "check", "activate"} /\ Current(call[c].gen, "Starting")
              => filters
    /\ \A f \in Filters :
          subs[f] # 0 /\ state # "Active" => \E c \in Callers : Responsible(c, f)

(* Calls that did not overlap. *)
Sequential == ~overlap =>
    /\ \A c, d \in Callers : {call[c].pc, call[d].pc} \intersect {"idle", "done"} = {} => c = d
    /\ \A c \in Callers :
          /\ call[c].pc \in {"filters", "subscribe", "check", "activate"}
                 => Current(call[c].gen, "Starting")
          /\ call[c].pc \in {"undo", "fail"} => state # "Active"
          /\ call[c].pc = "recheck" => state = "Active"
          /\ call[c].pc \in {"subscribe", "check"} /\ call[c].f = 2 => subs[1] = generation
          /\ call[c].pc = "check" => subs[call[c].f] = generation
          /\ call[c].pc = "activate" => \A f \in Filters : subs[f] = generation
    /\ state = "Active" => \A f \in Filters : subs[f] = generation

(* The gate of an active inbox is empty once it drained, and before that   *)
(* no delivery of its generation goes past it.                             *)
GateInv ==
    /\ RetainedIsHeld
    /\ state = "Active" /\ ~draining /\ generation \notin wiped =>
           pending = <<>> /\ InHand(generation) = 0
    /\ \A r \in Requests : delivery[r].at = "direct" /\ delivery[r].gen = generation =>
           state = "Active" /\ ~draining

InboxInv == InboxTypes /\ Counted /\ Numbered /\ Answerable /\ Sequential /\ GateInv

USE DEF CallPlaces, DeliveryPlaces, CallRecord, Filters, lifecycle, gate, history, Goes

-----------------------------------------------------------------------------
(* The calls.  A step of a call changes its own record only.               *)
Moved(c, pc, gen, f, drains, then) ==
    /\ call' \in [Callers -> CallRecord]
    /\ \A d \in Callers : d # c => call'[d] = call[d]
    /\ call'[c].pc = pc /\ call'[c].gen = gen /\ call'[c].f = f
    /\ call'[c].drains = drains /\ call'[c].then = then

(* Where it moves to, its generation, and its filter. *)
MovedTo(c, pc, gen, f) == Moved(c, pc, gen, f, call[c].drains, call[c].then)

(* The records a call moves to. *)
LEMMA Moves ==
  ASSUME InboxInv, NEW c \in Callers, NEW x \in CallRecord, call' = [call EXCEPT ![c] = x]
  PROVE  Moved(c, x.pc, x.gen, x.f, x.drains, x.then)
  BY DEF Moved, InboxInv, InboxTypes

LEMMA MovesTo ==
  ASSUME InboxInv, NEW c \in Callers, NEW to \in CallPlaces, call' = [call EXCEPT ![c].pc = to]
  PROVE  MovedTo(c, to, call[c].gen, call[c].f)
  <1>1. call[c] \in CallRecord
    BY DEF InboxInv, InboxTypes
  <1>2. [call[c] EXCEPT !.pc = to] \in CallRecord
    BY <1>1
  <1> QED
    BY <1>2, Moves DEF MovedTo

LEMMA MovesBack ==
  ASSUME InboxInv, NEW c \in Callers, NEW to \in CallPlaces, NEW f \in Filters,
         call' = [call EXCEPT ![c] = [@ EXCEPT !.pc = to, !.f = f]]
  PROVE  MovedTo(c, to, call[c].gen, f)
  <1>1. call[c] \in CallRecord
    BY DEF InboxInv, InboxTypes
  <1>2. [call[c] EXCEPT !.pc = to, !.f = f] \in CallRecord
    BY <1>1
  <1> QED
    BY <1>1, <1>2, Moves DEF MovedTo

(* Where each step takes the call that makes it. *)
LEMMA CallMoves ==
  ASSUME InboxInv, NEW c \in Callers
  PROVE  /\ StartBegin(c) => IF state \in {"Starting", "Active"}
                              THEN MovedTo(c, "done", call[c].gen, call[c].f)
                              ELSE MovedTo(c, "filters", generation + 1, call[c].f)
         /\ StartFilters(c) =>
                \/ /\ MovedTo(c, "subscribe", call[c].gen, call[c].f)
                   /\ Current(call[c].gen, "Starting") /\ filters' = TRUE
                \/ /\ MovedTo(c, "done", call[c].gen, call[c].f)
                   /\ ~Current(call[c].gen, "Starting") /\ UNCHANGED filters
                \/ MovedTo(c, "fail", call[c].gen, call[c].f) /\ UNCHANGED filters
         /\ Subscribe(c) =>
                \/ /\ MovedTo(c, "check", call[c].gen, call[c].f)
                   /\ subs' = [subs EXCEPT ![call[c].f] = call[c].gen]
                \/ /\ Moved(c, "undo", call[c].gen, 1, call[c].drains, "fail")
                   /\ UNCHANGED subs
         /\ Check(c) =>
                \/ MovedTo(c, "undo", call[c].gen, 1) /\ ~Current(call[c].gen, "Starting")
                \/ MovedTo(c, "subscribe", call[c].gen, 2) /\ call[c].f = 1
                \/ MovedTo(c, "activate", call[c].gen, 2) /\ call[c].f = 2
         /\ BecomeActive(c) =>
                Moved(c, "recheck", call[c].gen, 1,
                      Current(call[c].gen, "Starting") /\ pending # <<>>, call[c].then)
         /\ Recheck(c) =>
                MovedTo(c, IF state = "Active" THEN "done" ELSE "undo", call[c].gen, call[c].f)
         /\ Unsubscribe(c) => IF call[c].f = 1
                               THEN MovedTo(c, "undo", call[c].gen, 2)
                               ELSE MovedTo(c, call[c].then, call[c].gen, call[c].f)
         /\ Fail(c) => MovedTo(c, "done", call[c].gen, call[c].f)
         /\ StopBegin(c) =>
                MovedTo(c, IF filters THEN "undo" ELSE "done", call[c].gen, call[c].f)
  <1>1. call[c] \in CallRecord /\ generation + 1 \in Nat
    BY DEF InboxInv, InboxTypes
  <1>2. ASSUME StartBegin(c)
        PROVE  IF state \in {"Starting", "Active"}
               THEN MovedTo(c, "done", call[c].gen, call[c].f)
               ELSE MovedTo(c, "filters", generation + 1, call[c].f)
    <2>1. CASE state \in {"Starting", "Active"}
      <3>1. call' = [call EXCEPT ![c].pc = "done"]
        BY <1>2, <2>1 DEF StartBegin
      <3>2. MovedTo(c, "done", call[c].gen, call[c].f)
        BY <3>1, MovesTo
      <3> QED
        BY <2>1, <3>2
    <2>2. CASE state \notin {"Starting", "Active"}
      <3> DEFINE x == [call[c] EXCEPT !.pc = "filters", !.gen = generation + 1]
      <3>1. call' = [call EXCEPT ![c] = x]
        BY <1>2, <2>2 DEF StartBegin
      <3>2. /\ x \in CallRecord /\ x.pc = "filters" /\ x.gen = generation + 1 /\ x.f = call[c].f
            /\ x.drains = call[c].drains /\ x.then = call[c].then
        BY <1>1
      <3> HIDE DEF x
      <3>3. Moved(c, x.pc, x.gen, x.f, x.drains, x.then)
        BY <3>1, <3>2, Moves
      <3>4. MovedTo(c, "filters", generation + 1, call[c].f)
        BY <3>2, <3>3 DEF MovedTo
      <3> QED
        BY <2>2, <3>4
    <2> QED
      BY <2>1, <2>2
  <1>3. ASSUME StartFilters(c)
        PROVE  \/ /\ MovedTo(c, "subscribe", call[c].gen, call[c].f)
                  /\ Current(call[c].gen, "Starting") /\ filters' = TRUE
               \/ /\ MovedTo(c, "done", call[c].gen, call[c].f)
                  /\ ~Current(call[c].gen, "Starting") /\ UNCHANGED filters
               \/ MovedTo(c, "fail", call[c].gen, call[c].f) /\ UNCHANGED filters
    <2>1. CASE /\ Current(call[c].gen, "Starting") /\ filters' = TRUE
               /\ call' = [call EXCEPT ![c].pc = "subscribe"]
      <3>1. MovedTo(c, "subscribe", call[c].gen, call[c].f)
        BY <2>1, MovesTo
      <3> QED
        BY <2>1, <3>1
    <2>2. CASE /\ ~Current(call[c].gen, "Starting") /\ UNCHANGED filters
               /\ call' = [call EXCEPT ![c].pc = "done"]
      <3>1. MovedTo(c, "done", call[c].gen, call[c].f)
        BY <2>2, MovesTo
      <3> QED
        BY <2>2, <3>1
    <2>3. CASE call' = [call EXCEPT ![c].pc = "fail"] /\ UNCHANGED filters
      <3>1. MovedTo(c, "fail", call[c].gen, call[c].f)
        BY <2>3, MovesTo
      <3> QED
        BY <2>3, <3>1
    <2> QED
      BY <1>3, <2>1, <2>2, <2>3 DEF StartFilters
  <1>4. ASSUME Subscribe(c)
        PROVE  \/ /\ MovedTo(c, "check", call[c].gen, call[c].f)
                  /\ subs' = [subs EXCEPT ![call[c].f] = call[c].gen]
               \/ /\ Moved(c, "undo", call[c].gen, 1, call[c].drains, "fail")
                  /\ UNCHANGED subs
    <2>1. CASE /\ call' = [call EXCEPT ![c].pc = "check"]
               /\ subs' = [subs EXCEPT ![call[c].f] = call[c].gen]
      <3>1. MovedTo(c, "check", call[c].gen, call[c].f)
        BY <2>1, MovesTo
      <3> QED
        BY <2>1, <3>1
    <2> DEFINE x == [call[c] EXCEPT !.pc = "undo", !.f = 1, !.then = "fail"]
    <2>2. CASE call' = [call EXCEPT ![c] = x] /\ UNCHANGED subs
      <3>1. /\ x \in CallRecord /\ x.pc = "undo" /\ x.gen = call[c].gen /\ x.f = 1
            /\ x.drains = call[c].drains /\ x.then = "fail"
        BY <1>1
      <3> HIDE DEF x
      <3>2. Moved(c, x.pc, x.gen, x.f, x.drains, x.then)
        BY <2>2, <3>1, Moves
      <3>3. Moved(c, "undo", call[c].gen, 1, call[c].drains, "fail")
        BY <3>1, <3>2
      <3> QED
        BY <2>2, <3>3
    <2> QED
      BY <1>4, <2>1, <2>2 DEF Subscribe
  <1>5. ASSUME Check(c)
        PROVE  \/ MovedTo(c, "undo", call[c].gen, 1) /\ ~Current(call[c].gen, "Starting")
               \/ MovedTo(c, "subscribe", call[c].gen, 2) /\ call[c].f = 1
               \/ MovedTo(c, "activate", call[c].gen, 2) /\ call[c].f = 2
    <2>1. CASE ~Current(call[c].gen, "Starting")
      BY <1>5, <2>1, MovesBack DEF Check
    <2>2. CASE Current(call[c].gen, "Starting") /\ call[c].f = 1
      BY <1>5, <2>2, MovesBack DEF Check
    <2>3. CASE Current(call[c].gen, "Starting") /\ call[c].f = 2
      <3>1. call' = [call EXCEPT ![c].pc = "activate"]
        BY <1>5, <2>3 DEF Check
      <3> QED
        BY <2>3, <3>1, MovesTo
    <2> QED
      BY <1>1, <2>1, <2>2, <2>3
  <1>6. ASSUME BecomeActive(c)
        PROVE  Moved(c, "recheck", call[c].gen, 1,
                     Current(call[c].gen, "Starting") /\ pending # <<>>, call[c].then)
    <2> DEFINE drains == Current(call[c].gen, "Starting") /\ pending # <<>>
    <2>1. call' = [call EXCEPT ![c] = [@ EXCEPT !.pc = "recheck", !.f = 1, !.drains = drains]]
      BY <1>6 DEF BecomeActive
    <2>2. drains \in BOOLEAN
      OBVIOUS
    <2> HIDE DEF drains
    <2>3. [call[c] EXCEPT !.pc = "recheck", !.f = 1, !.drains = drains] \in CallRecord
      BY <1>1, <2>2
    <2>4. Moved(c, "recheck", call[c].gen, 1, drains, call[c].then)
      BY <1>1, <2>1, <2>3, Moves
    <2> QED
      BY <2>4 DEF drains
  <1>7. ASSUME Recheck(c)
        PROVE  MovedTo(c, IF state = "Active" THEN "done" ELSE "undo", call[c].gen, call[c].f)
    <2> DEFINE to == IF state = "Active" THEN "done" ELSE "undo"
    <2>1. call' = [call EXCEPT ![c].pc = to] /\ to \in CallPlaces
      BY <1>7 DEF Recheck
    <2> HIDE DEF to
    <2>2. MovedTo(c, to, call[c].gen, call[c].f)
      BY <2>1, MovesTo
    <2> QED
      BY <2>2 DEF to
  <1>8. ASSUME Unsubscribe(c)
        PROVE  IF call[c].f = 1 THEN MovedTo(c, "undo", call[c].gen, 2)
               ELSE MovedTo(c, call[c].then, call[c].gen, call[c].f)
    <2>1. call[c].then \in CallPlaces
      BY <1>1
    <2>2. CASE call[c].f = 1
      <3> DEFINE x == [call[c] EXCEPT !.f = 2]
      <3>1. call' = [call EXCEPT ![c] = x] /\ call[c].pc = "undo"
        BY <1>8, <2>2 DEF Unsubscribe
      <3>2. /\ x \in CallRecord /\ x.pc = call[c].pc /\ x.gen = call[c].gen /\ x.f = 2
            /\ x.drains = call[c].drains /\ x.then = call[c].then
        BY <1>1
      <3> HIDE DEF x
      <3>3. Moved(c, x.pc, x.gen, x.f, x.drains, x.then)
        BY <3>1, <3>2, Moves
      <3> QED
        BY <2>2, <3>1, <3>2, <3>3 DEF MovedTo
    <2>3. CASE call[c].f # 1
      <3>1. call' = [call EXCEPT ![c].pc = call[c].then]
        BY <1>8, <2>3 DEF Unsubscribe
      <3> QED
        BY <2>1, <2>3, <3>1, MovesTo
    <2> QED
      BY <2>2, <2>3
  <1>9. ASSUME Fail(c) PROVE MovedTo(c, "done", call[c].gen, call[c].f)
    <2>1. call' = [call EXCEPT ![c].pc = "done"]
      BY <1>9 DEF Fail
    <2> QED
      BY <2>1, MovesTo
  <1>10. ASSUME StopBegin(c)
         PROVE  MovedTo(c, IF filters THEN "undo" ELSE "done", call[c].gen, call[c].f)
    <2> DEFINE to == IF filters THEN "undo" ELSE "done"
    <2>1. call' = [call EXCEPT ![c].pc = to] /\ to \in CallPlaces
      BY <1>10 DEF StopBegin
    <2> HIDE DEF to
    <2>2. MovedTo(c, to, call[c].gen, call[c].f)
      BY <2>1, MovesTo
    <2> QED
      BY <2>2 DEF to
  <1> QED
    BY <1>2, <1>3, <1>4, <1>5, <1>6, <1>7, <1>8, <1>9, <1>10

(* A call that begins takes the next generation, of which there are as     *)
(* many as calls.                                                          *)
LEMMA NextGeneration ==
  ASSUME InboxInv, NEW c \in Callers, call[c].pc = "idle"
  PROVE  /\ generation + 1 \in Generations
         /\ generation + 1 <= Cardinality(Begun \union {c})
  <1>1. IsFiniteSet(Begun) /\ Cardinality(Begun) \in Nat
    BY CommandInboxAssumption, FS_Subset, FS_CardinalityType DEF Begun
  <1>2. c \notin Begun /\ Cardinality(Begun \union {c}) = Cardinality(Begun) + 1
    BY <1>1, FS_AddElement DEF Begun
  <1>3. Cardinality(Callers) \in Nat /\ Cardinality(Begun \union {c}) <= Cardinality(Callers)
    BY CommandInboxAssumption, FS_Subset, FS_CardinalityType DEF Begun
  <1> QED
    BY <1>1, <1>2, <1>3 DEF InboxInv, InboxTypes, Counted, Generations

(* There are finitely many generations. *)
LEMMA CallersFinite == Cardinality(Callers) \in Nat
  BY CommandInboxAssumption, FS_CardinalityType

(* No more generations begin than calls. *)
LEMMA CountedInv ==
  ASSUME InboxInv, NEW c \in Callers, CallStep(c)
  PROVE  Counted'
  <1>5. ASSUME NEW to, NEW gen, NEW f, NEW drains, NEW then,
               Moved(c, to, gen, f, drains, then), to # "idle"
        PROVE  Begun' = Begun \union {c}
    BY <1>5 DEF Moved, Begun
  <1>6. call[c].pc # "idle" => Begun \union {c} = Begun
    BY DEF Begun
  <1>1. \/ /\ call[c].pc = "idle" /\ generation' \in {generation, generation + 1}
           /\ Begun' = Begun \union {c}
        \/ generation' = generation /\ Begun' = Begun
    <2>1. CASE StartBegin(c)
      <3>1. MovedTo(c, "done", call[c].gen, call[c].f) \/ MovedTo(c, "filters", generation + 1, call[c].f)
        BY <2>1, CallMoves
      <3>2. Begun' = Begun \union {c}
        BY <1>5, <3>1 DEF MovedTo
      <3>3. call[c].pc = "idle" /\ generation' \in {generation, generation + 1}
        BY <2>1 DEF StartBegin
      <3> QED
        BY <3>2, <3>3
    <2>2. CASE StartFilters(c)
      <3>1. \E to \in {"subscribe", "fail", "done"} : MovedTo(c, to, call[c].gen, call[c].f)
        BY <2>2, CallMoves
      <3>2. Begun' = Begun \union {c}
        BY <1>5, <3>1 DEF MovedTo
      <3>3. call[c].pc # "idle" /\ generation' = generation
        BY <2>2 DEF StartFilters
      <3> QED
        BY <1>6, <3>2, <3>3
    <2>3. CASE Subscribe(c)
      <3>1. \/ MovedTo(c, "check", call[c].gen, call[c].f)
            \/ Moved(c, "undo", call[c].gen, 1, call[c].drains, "fail")
        BY <2>3, CallMoves
      <3>2. Begun' = Begun \union {c}
        BY <1>5, <3>1 DEF MovedTo
      <3>3. call[c].pc # "idle" /\ generation' = generation
        BY <2>3 DEF Subscribe
      <3> QED
        BY <1>6, <3>2, <3>3
    <2>4. CASE Check(c)
      <3>1. \E to \in {"undo", "subscribe", "activate"}, f \in Filters :
               MovedTo(c, to, call[c].gen, f)
        BY <2>4, CallMoves
      <3>2. Begun' = Begun \union {c}
        BY <1>5, <3>1 DEF MovedTo
      <3>3. call[c].pc # "idle" /\ generation' = generation
        BY <2>4 DEF Check
      <3> QED
        BY <1>6, <3>2, <3>3
    <2>5. CASE BecomeActive(c)
      <3>1. \E drains : Moved(c, "recheck", call[c].gen, 1, drains, call[c].then)
        BY <2>5, CallMoves
      <3>2. Begun' = Begun \union {c}
        BY <1>5, <3>1 DEF MovedTo
      <3>3. call[c].pc # "idle" /\ generation' = generation
        BY <2>5 DEF BecomeActive
      <3> QED
        BY <1>6, <3>2, <3>3
    <2>6. CASE Recheck(c)
      <3>1. \E to \in {"undo", "done"} : MovedTo(c, to, call[c].gen, call[c].f)
        BY <2>6, CallMoves
      <3>2. Begun' = Begun \union {c}
        BY <1>5, <3>1 DEF MovedTo
      <3>3. call[c].pc # "idle" /\ generation' = generation
        BY <2>6 DEF Recheck
      <3> QED
        BY <1>6, <3>2, <3>3
    <2>7. CASE Unsubscribe(c)
      <3>1. \E to \in {"undo", "fail", "done"}, f \in Filters : MovedTo(c, to, call[c].gen, f)
        BY <2>7, CallMoves DEF Unsubscribe, InboxInv, InboxTypes
      <3>2. Begun' = Begun \union {c}
        BY <1>5, <3>1 DEF MovedTo
      <3>3. call[c].pc # "idle" /\ generation' = generation
        BY <2>7 DEF Unsubscribe
      <3> QED
        BY <1>6, <3>2, <3>3
    <2>8. CASE Fail(c)
      <3>1. MovedTo(c, "done", call[c].gen, call[c].f)
        BY <2>8, CallMoves
      <3>2. Begun' = Begun \union {c}
        BY <1>5, <3>1 DEF MovedTo
      <3>3. call[c].pc # "idle" /\ generation' = generation
        BY <2>8 DEF Fail
      <3> QED
        BY <1>6, <3>2, <3>3
    <2>9. CASE StopBegin(c)
      <3>1. \E to \in {"undo", "done"} : MovedTo(c, to, call[c].gen, call[c].f)
        BY <2>9, CallMoves
      <3>2. Begun' = Begun \union {c}
        BY <1>5, <3>1 DEF MovedTo
      <3>3. call[c].pc = "idle" /\ generation' \in {generation, generation + 1}
        BY <2>9 DEF StopBegin
      <3> QED
        BY <3>2, <3>3
    <2> QED
      BY <2>1, <2>2, <2>3, <2>4, <2>5, <2>6, <2>7, <2>8, <2>9 DEF CallStep
  <1>2. Cardinality(Begun) \in Nat /\ Cardinality(Begun \union {c}) \in Nat
    BY CommandInboxAssumption, FS_Subset, FS_CardinalityType DEF Begun
  <1>3. CASE /\ call[c].pc = "idle" /\ generation' \in {generation, generation + 1}
             /\ Begun' = Begun \union {c}
    <2>1. generation \in Nat /\ generation + 1 <= Cardinality(Begun \union {c})
      BY <1>3, NextGeneration DEF InboxInv, InboxTypes
    <2>2. generation' <= Cardinality(Begun \union {c})
      BY <1>2, <1>3, <2>1
    <2> QED
      BY <1>3, <2>2 DEF Counted
  <1>4. CASE generation' = generation /\ Begun' = Begun
    BY <1>4 DEF InboxInv, Counted
  <1> QED
    BY <1>1, <1>3, <1>4

(* What the invariants say of a call depends on these. *)
Changed(c, pc, gen, f) ==
    /\ \A d \in Callers : d # c => call'[d] = call[d]
    /\ call'[c].pc = pc /\ call'[c].gen = gen /\ call'[c].f = f


(* Each step of a call keeps the invariant: first its effects, then the    *)
(* parts one by one.                                                       *)
LEMMA StartBeginAgainInv ==
  ASSUME InboxInv, NEW c \in Callers, StartBegin(c), state \in {"Starting", "Active"}
  PROVE  InboxTypes' /\ Numbered' /\ Answerable' /\ Sequential' /\ GateInv'
  <1>1. MovedTo(c, "done", call[c].gen, call[c].f)
    BY CallMoves DEF StartBegin
  <1>2. /\ call[c].pc = "idle"
        /\ UNCHANGED <<lifecycle, gate, history, subs, drain, delivery, scene>>
    BY DEF StartBegin
  <1>3. /\ Numbered /\ Answerable /\ Sequential /\ GateInv
        /\ generation \in Nat /\ call[c].f \in Filters /\ call[c].then \in {"done", "fail"}
        /\ \A d \in Callers : call[d].gen \in Nat
        /\ subs \in [Filters -> Nat]
        /\ drain \in [Generations -> {"none", "loop", "over"} \union Requests]
    BY DEF InboxInv, InboxTypes
  <1>4. InboxTypes'
    <2>1. <<>> \in Seq(Requests) /\ InboxTypes
      BY DEF InboxInv
    <2>2. call' \in [Callers -> CallRecord]
      BY <1>1 DEF MovedTo, Moved
    <2> QED
      BY <1>1, <1>2, <2>1, <2>2 DEF InboxTypes
  <1>5. Changed(c, "done", call[c].gen, call[c].f)
    BY <1>1 DEF MovedTo, Moved, Changed
  <1>6. Numbered'
    BY <1>2, <1>3, <1>5, NextGeneration
    DEF Current, Changed, Numbered, Starter, Generations
  <1>7. Answerable'
    BY <1>2, <1>3, <1>5 DEF Current, Changed, Numbered, Answerable, Responsible
  <1>8. Sequential'
    BY <1>2, <1>3, <1>5 DEF Current, Changed, Numbered, Sequential, Answerable
  <1>9. GateInv'
    BY <1>2, <1>3, <1>5, CommandInboxAssumption, NextGeneration
    DEF Current, Changed, Numbered, GateInv, RetainedIsHeld, InHand, Starter
  <1> QED
    BY <1>4, <1>6, <1>7, <1>8, <1>9

LEMMA StartBeginInv ==
  ASSUME InboxInv, NEW c \in Callers, StartBegin(c), state \notin {"Starting", "Active"}
  PROVE  InboxTypes' /\ Numbered' /\ Answerable' /\ Sequential' /\ GateInv'
  <1>1. MovedTo(c, "filters", generation + 1, call[c].f)
    BY CallMoves DEF StartBegin
  <1>2. /\ call[c].pc = "idle"
        /\ generation' = generation + 1 /\ state' = "Starting" /\ EmptyGate /\ Overlaps
        /\ UNCHANGED <<filters, wiped, subs, drain, delivery, scene>>
    BY DEF StartBegin
  <1>3. /\ Numbered /\ Answerable /\ Sequential /\ GateInv
        /\ generation \in Nat /\ call[c].f \in Filters /\ call[c].then \in {"done", "fail"}
        /\ \A d \in Callers : call[d].gen \in Nat
        /\ subs \in [Filters -> Nat]
        /\ drain \in [Generations -> {"none", "loop", "over"} \union Requests]
    BY DEF InboxInv, InboxTypes
  <1>4. InboxTypes'
    <2>1. <<>> \in Seq(Requests) /\ InboxTypes
      BY DEF InboxInv
    <2>2. call' \in [Callers -> CallRecord]
      BY <1>1 DEF MovedTo, Moved
    <2>3. /\ pending' \in Seq(Requests) /\ retained' \in Nat /\ draining' \in BOOLEAN
          /\ overlap' \in BOOLEAN
      BY <1>2, <2>1 DEF EmptyGate, Overlaps, Quiet, InboxTypes
    <2> QED
      BY <1>2, <2>1, <2>2, <2>3 DEF InboxTypes
  <1>5. Changed(c, "filters", generation + 1, call[c].f)
    BY <1>1 DEF MovedTo, Moved, Changed
  <1>6. Numbered'
    <2>1. generation' = generation + 1 /\ generation + 1 \in Generations
      BY <1>2, NextGeneration
    <2>2. /\ \A f \in Filters : subs'[f] <= generation'
          /\ \A r \in Requests : delivery'[r].gen <= generation'
          /\ \A g \in Generations : g > generation' => drain'[g] = "none"
          /\ state' \in {"Starting", "Active"} => generation' >= 1
      BY <1>2, <1>3, <2>1 DEF InboxInv, InboxTypes, Numbered, Generations
    <2>3. \A d \in Callers :
              /\ call'[d].gen <= generation'
              /\ call'[d].pc \in {"idle", "filters", "recheck"} => call'[d].f = 1
              /\ Starter(d)' => call'[d].gen \in Generations /\ drain'[call'[d].gen] = "none"
      BY <1>2, <1>3, <1>5, <2>1 DEF Numbered, Changed, Starter, Generations
    <2>4. \A d, e \in Callers : call'[d].gen = call'[e].gen /\ call'[d].gen # 0 => d = e
      BY <1>3, <1>5, <2>1 DEF Numbered, Changed
    <2> QED
      BY <2>2, <2>3, <2>4 DEF Numbered
  <1>7. Answerable'
    BY <1>2, <1>3, <1>5
    DEF EmptyGate, Overlaps, Quiet, Current, Changed, Numbered, Answerable, Responsible
  <1>8. Sequential'
    BY <1>2, <1>3, <1>5
    DEF EmptyGate, Overlaps, Quiet, Current, Changed, Numbered, Sequential, Answerable
  <1>9. GateInv'
    <2>1. /\ generation' = generation + 1 /\ drain'[generation'] = "none"
          /\ \A r \in Requests : delivery'[r].gen # generation'
      <3>1. generation + 1 \in Generations
        BY <1>2, <1>3, NextGeneration
      <3>2. drain[generation + 1] = "none"
        <4>1. generation + 1 > generation
          BY <1>3
        <4> QED
          BY <1>3, <3>1, <4>1 DEF Numbered
      <3>3. \A r \in Requests : delivery[r].gen # generation + 1
        BY <1>3 DEF Numbered, InboxInv, InboxTypes
      <3> QED
        BY <1>2, <3>2, <3>3
    <2>2. InHand(generation)' = 0
      BY <2>1, CommandInboxAssumption DEF InHand
    <2>3. pending' = <<>> /\ retained' = 0 /\ Len(pending') = 0 /\ state' = "Starting"
      BY <1>2 DEF EmptyGate
    <2> QED
      BY <2>1, <2>2, <2>3 DEF GateInv, RetainedIsHeld
  <1> QED
    BY <1>4, <1>6, <1>7, <1>8, <1>9

LEMMA StartFiltersInv ==
  ASSUME InboxInv, NEW c \in Callers, StartFilters(c)
  PROVE  InboxTypes' /\ Numbered' /\ Answerable' /\ Sequential' /\ GateInv'
  <1>1. \/ /\ MovedTo(c, "subscribe", call[c].gen, call[c].f)
           /\ Current(call[c].gen, "Starting") /\ filters' = TRUE
        \/ /\ MovedTo(c, "done", call[c].gen, call[c].f)
           /\ ~Current(call[c].gen, "Starting") /\ UNCHANGED filters
        \/ MovedTo(c, "fail", call[c].gen, call[c].f) /\ UNCHANGED filters
    BY CallMoves DEF StartFilters
  <1>2. /\ call[c].pc = "filters"
        /\ UNCHANGED <<generation, state, gate, history, subs, drain, delivery, scene>>
    BY DEF StartFilters
  <1>3. /\ Numbered /\ Answerable /\ Sequential /\ GateInv
        /\ generation \in Nat /\ call[c].f \in Filters /\ call[c].then \in {"done", "fail"}
        /\ \A d \in Callers : call[d].gen \in Nat
        /\ subs \in [Filters -> Nat]
        /\ drain \in [Generations -> {"none", "loop", "over"} \union Requests]
    BY DEF InboxInv, InboxTypes
  <1>4. InboxTypes'
    <2>1. <<>> \in Seq(Requests) /\ InboxTypes
      BY DEF InboxInv
    <2>2. call' \in [Callers -> CallRecord]
      BY <1>1 DEF MovedTo, Moved
    <2> QED
      BY <1>1, <1>2, <2>1, <2>2 DEF InboxTypes
  <1>5. \/ /\ Changed(c, "subscribe", call[c].gen, call[c].f)
           /\ Current(call[c].gen, "Starting") /\ filters' = TRUE
        \/ /\ Changed(c, "done", call[c].gen, call[c].f)
           /\ ~Current(call[c].gen, "Starting") /\ UNCHANGED filters
        \/ Changed(c, "fail", call[c].gen, call[c].f) /\ UNCHANGED filters
    BY <1>1 DEF MovedTo, Moved, Changed
  <1>6. Numbered'
    BY <1>2, <1>3, <1>5 DEF Current, Changed, Numbered, Starter, Generations
  <1>7. Answerable'
    BY <1>2, <1>3, <1>5 DEF Current, Changed, Numbered, Answerable, Responsible
  <1>8. Sequential'
    BY <1>2, <1>3, <1>5 DEF Current, Changed, Numbered, Sequential, Answerable
  <1>9. GateInv'
    BY <1>2, <1>3, <1>5, CommandInboxAssumption
    DEF Current, Changed, Numbered, GateInv, RetainedIsHeld, InHand, Starter
  <1> QED
    BY <1>4, <1>6, <1>7, <1>8, <1>9

LEMMA SubscribeInv ==
  ASSUME InboxInv, NEW c \in Callers, Subscribe(c)
  PROVE  InboxTypes' /\ Numbered' /\ Answerable' /\ Sequential' /\ GateInv'
  <1>1. \/ /\ MovedTo(c, "check", call[c].gen, call[c].f)
           /\ subs' = [subs EXCEPT ![call[c].f] = call[c].gen]
        \/ Moved(c, "undo", call[c].gen, 1, call[c].drains, "fail") /\ UNCHANGED subs
    BY CallMoves DEF Subscribe
  <1>2. /\ call[c].pc = "subscribe"
        /\ UNCHANGED <<lifecycle, gate, history, drain, delivery, scene>>
    BY DEF Subscribe
  <1>3. /\ Numbered /\ Answerable /\ Sequential /\ GateInv
        /\ generation \in Nat /\ call[c].f \in Filters /\ call[c].then \in {"done", "fail"}
        /\ \A d \in Callers : call[d].gen \in Nat
        /\ subs \in [Filters -> Nat]
        /\ drain \in [Generations -> {"none", "loop", "over"} \union Requests]
    BY DEF InboxInv, InboxTypes
  <1>4. InboxTypes'
    <2>1. <<>> \in Seq(Requests) /\ InboxTypes
      BY DEF InboxInv
    <2>2. call' \in [Callers -> CallRecord]
      BY <1>1 DEF MovedTo, Moved
    <2> QED
      BY <1>1, <1>2, <2>1, <2>2 DEF InboxTypes
  <1>5. \/ /\ Changed(c, "check", call[c].gen, call[c].f)
           /\ subs' = [subs EXCEPT ![call[c].f] = call[c].gen]
        \/ Changed(c, "undo", call[c].gen, 1) /\ UNCHANGED subs
    BY <1>1 DEF MovedTo, Moved, Changed
  <1>6. Numbered'
    BY <1>2, <1>3, <1>5 DEF Current, Changed, Numbered, Starter, Generations
  <1>7. Answerable'
    BY <1>2, <1>3, <1>5 DEF Current, Changed, Numbered, Answerable, Responsible
  <1>8. Sequential'
    BY <1>2, <1>3, <1>5 DEF Current, Changed, Numbered, Sequential, Answerable
  <1>9. GateInv'
    BY <1>2, <1>3, <1>5, CommandInboxAssumption
    DEF Current, Changed, Numbered, GateInv, RetainedIsHeld, InHand, Starter
  <1> QED
    BY <1>4, <1>6, <1>7, <1>8, <1>9

LEMMA CheckInv ==
  ASSUME InboxInv, NEW c \in Callers, Check(c)
  PROVE  InboxTypes' /\ Numbered' /\ Answerable' /\ Sequential' /\ GateInv'
  <1>1. \/ MovedTo(c, "undo", call[c].gen, 1) /\ ~Current(call[c].gen, "Starting")
        \/ MovedTo(c, "subscribe", call[c].gen, 2) /\ call[c].f = 1
        \/ MovedTo(c, "activate", call[c].gen, 2) /\ call[c].f = 2
    BY CallMoves DEF Check
  <1>2. /\ call[c].pc = "check"
        /\ UNCHANGED <<lifecycle, gate, history, subs, drain, delivery, scene>>
    BY DEF Check
  <1>3. /\ Numbered /\ Answerable /\ Sequential /\ GateInv
        /\ generation \in Nat /\ call[c].f \in Filters /\ call[c].then \in {"done", "fail"}
        /\ \A d \in Callers : call[d].gen \in Nat
        /\ subs \in [Filters -> Nat]
        /\ drain \in [Generations -> {"none", "loop", "over"} \union Requests]
    BY DEF InboxInv, InboxTypes
  <1>4. InboxTypes'
    <2>1. <<>> \in Seq(Requests) /\ InboxTypes
      BY DEF InboxInv
    <2>2. call' \in [Callers -> CallRecord]
      BY <1>1 DEF MovedTo, Moved
    <2> QED
      BY <1>1, <1>2, <2>1, <2>2 DEF InboxTypes
  <1>5. \/ Changed(c, "undo", call[c].gen, 1) /\ ~Current(call[c].gen, "Starting")
        \/ Changed(c, "subscribe", call[c].gen, 2) /\ call[c].f = 1
        \/ Changed(c, "activate", call[c].gen, 2) /\ call[c].f = 2
    BY <1>1 DEF MovedTo, Moved, Changed
  <1>6. Numbered'
    BY <1>2, <1>3, <1>5 DEF Current, Changed, Numbered, Starter, Generations
  <1>7. Answerable'
    BY <1>2, <1>3, <1>5 DEF Current, Changed, Numbered, Answerable, Responsible
  <1>8. Sequential'
    BY <1>2, <1>3, <1>5 DEF Current, Changed, Numbered, Sequential, Answerable
  <1>9. GateInv'
    BY <1>2, <1>3, <1>5, CommandInboxAssumption
    DEF Current, Changed, Numbered, GateInv, RetainedIsHeld, InHand, Starter
  <1> QED
    BY <1>4, <1>6, <1>7, <1>8, <1>9

LEMMA BecomeActiveInv ==
  ASSUME InboxInv, NEW c \in Callers, BecomeActive(c)
  PROVE  InboxTypes' /\ Numbered' /\ Answerable' /\ Sequential' /\ GateInv'
  <1>1. Moved(c, "recheck", call[c].gen, 1,
             Current(call[c].gen, "Starting") /\ pending # <<>>, call[c].then)
    BY CallMoves DEF BecomeActive
  <1>2. /\ call[c].pc = "activate"
        /\ IF Current(call[c].gen, "Starting")
           THEN state' = "Active" /\ draining' = (pending # <<>>)
           ELSE UNCHANGED <<state, draining>>
        /\ UNCHANGED <<generation, filters, pending, retained, history, subs, drain,
                       delivery, scene>>
    BY DEF BecomeActive
  <1>3. /\ Numbered /\ Answerable /\ Sequential /\ GateInv
        /\ generation \in Nat /\ call[c].f \in Filters /\ call[c].then \in {"done", "fail"}
        /\ \A d \in Callers : call[d].gen \in Nat
        /\ subs \in [Filters -> Nat]
        /\ drain \in [Generations -> {"none", "loop", "over"} \union Requests]
    BY DEF InboxInv, InboxTypes
  <1>4. InboxTypes'
    <2>1. <<>> \in Seq(Requests) /\ InboxTypes
      BY DEF InboxInv
    <2>2. call' \in [Callers -> CallRecord]
      BY <1>1 DEF MovedTo, Moved
    <2> QED
      BY <1>1, <1>2, <2>1, <2>2 DEF InboxTypes
  <1>5. Changed(c, "recheck", call[c].gen, 1)
    BY <1>1 DEF MovedTo, Moved, Changed
  <1>6. Numbered'
    BY <1>2, <1>3, <1>5 DEF Current, Changed, Numbered, Starter, Generations
  <1>7. Answerable'
    BY <1>2, <1>3, <1>5 DEF Current, Changed, Numbered, Answerable, Responsible
  <1>8. Sequential'
    BY <1>2, <1>3, <1>5 DEF Current, Changed, Numbered, Sequential, Answerable
  <1>9. GateInv'
    BY <1>2, <1>3, <1>5, CommandInboxAssumption
    DEF Current, Changed, Numbered, GateInv, RetainedIsHeld, InHand, Starter
  <1> QED
    BY <1>4, <1>6, <1>7, <1>8, <1>9

LEMMA RecheckInv ==
  ASSUME InboxInv, NEW c \in Callers, Recheck(c)
  PROVE  InboxTypes' /\ Numbered' /\ Answerable' /\ Sequential' /\ GateInv'
  <1>1. MovedTo(c, IF state = "Active" THEN "done" ELSE "undo", call[c].gen, call[c].f)
    BY CallMoves DEF Recheck
  <1>2. /\ call[c].pc = "recheck"
        /\ drain' = IF state = "Active" /\ call[c].drains
                    THEN [drain EXCEPT ![call[c].gen] = "loop"] ELSE drain
        /\ UNCHANGED <<lifecycle, gate, history, subs, delivery, scene>>
    BY DEF Recheck
  <1>3. /\ Numbered /\ Answerable /\ Sequential /\ GateInv
        /\ generation \in Nat /\ call[c].f \in Filters /\ call[c].then \in {"done", "fail"}
        /\ \A d \in Callers : call[d].gen \in Nat
        /\ subs \in [Filters -> Nat]
        /\ drain \in [Generations -> {"none", "loop", "over"} \union Requests]
    BY DEF InboxInv, InboxTypes
  <1>4. InboxTypes'
    <2>1. <<>> \in Seq(Requests) /\ InboxTypes
      BY DEF InboxInv
    <2>2. call' \in [Callers -> CallRecord]
      BY <1>1 DEF MovedTo, Moved
    <2> QED
      BY <1>1, <1>2, <2>1, <2>2 DEF InboxTypes
  <1>5. Changed(c, IF state = "Active" THEN "done" ELSE "undo", call[c].gen, call[c].f)
    BY <1>1 DEF MovedTo, Moved, Changed
  <1>6. Numbered'
    BY <1>2, <1>3, <1>5 DEF Current, Changed, Numbered, Starter, Generations
  <1>7. Answerable'
    BY <1>2, <1>3, <1>5 DEF Current, Changed, Numbered, Answerable, Responsible
  <1>8. Sequential'
    BY <1>2, <1>3, <1>5 DEF Current, Changed, Numbered, Sequential, Answerable
  <1>9. GateInv'
    BY <1>2, <1>3, <1>5, CommandInboxAssumption
    DEF Current, Changed, Numbered, GateInv, RetainedIsHeld, InHand, Starter
  <1> QED
    BY <1>4, <1>6, <1>7, <1>8, <1>9

LEMMA UnsubscribeInv ==
  ASSUME InboxInv, NEW c \in Callers, Unsubscribe(c)
  PROVE  InboxTypes' /\ Numbered' /\ Answerable' /\ Sequential' /\ GateInv'
  <1>1. IF call[c].f = 1 THEN MovedTo(c, "undo", call[c].gen, 2)
        ELSE MovedTo(c, call[c].then, call[c].gen, call[c].f)
    BY CallMoves DEF Unsubscribe, Undone, InboxInv, InboxTypes
  <1>2. /\ call[c].pc = "undo"
        /\ subs' \in [Filters -> Nat] /\ subs'[call[c].f] = 0
        /\ \A f \in Filters : f # call[c].f => subs'[f] = subs[f]
        /\ UNCHANGED <<lifecycle, gate, history, drain, delivery, scene>>
    BY DEF Unsubscribe, Undone, InboxInv, InboxTypes
  <1>3. /\ Numbered /\ Answerable /\ Sequential /\ GateInv
        /\ generation \in Nat /\ call[c].f \in Filters /\ call[c].then \in {"done", "fail"}
        /\ \A d \in Callers : call[d].gen \in Nat
        /\ subs \in [Filters -> Nat]
        /\ drain \in [Generations -> {"none", "loop", "over"} \union Requests]
    BY DEF InboxInv, InboxTypes
  <1>4. InboxTypes'
    <2>1. <<>> \in Seq(Requests) /\ InboxTypes
      BY DEF InboxInv
    <2>2. call' \in [Callers -> CallRecord]
      BY <1>1 DEF MovedTo, Moved
    <2> QED
      BY <1>1, <1>2, <2>1, <2>2 DEF InboxTypes
  <1>5. IF call[c].f = 1 THEN Changed(c, "undo", call[c].gen, 2)
        ELSE Changed(c, call[c].then, call[c].gen, call[c].f)
    BY <1>1 DEF MovedTo, Moved, Changed
  <1>6. Numbered'
    BY <1>2, <1>3, <1>5 DEF Current, Changed, Numbered, Starter, Generations
  <1>7. Answerable'
    BY <1>2, <1>3, <1>5 DEF Current, Changed, Numbered, Answerable, Responsible
  <1>8. Sequential'
    BY <1>2, <1>3, <1>5 DEF Current, Changed, Numbered, Sequential, Answerable
  <1>9. GateInv'
    BY <1>2, <1>3, <1>5, CommandInboxAssumption
    DEF Current, Changed, Numbered, GateInv, RetainedIsHeld, InHand, Starter
  <1> QED
    BY <1>4, <1>6, <1>7, <1>8, <1>9

LEMMA FailInv ==
  ASSUME InboxInv, NEW c \in Callers, Fail(c)
  PROVE  InboxTypes' /\ Numbered' /\ Answerable' /\ Sequential' /\ GateInv'
  <1>1. MovedTo(c, "done", call[c].gen, call[c].f)
    BY CallMoves DEF Fail
  <1>2. /\ call[c].pc = "fail"
        /\ IF Current(call[c].gen, "Starting")
           THEN state' = "Failed" /\ filters' = FALSE /\ EmptyGate
           ELSE UNCHANGED <<state, filters, gate>>
        /\ UNCHANGED <<generation, history, subs, drain, delivery, scene>>
    BY DEF Fail
  <1>3. /\ Numbered /\ Answerable /\ Sequential /\ GateInv
        /\ generation \in Nat /\ call[c].f \in Filters /\ call[c].then \in {"done", "fail"}
        /\ \A d \in Callers : call[d].gen \in Nat
        /\ subs \in [Filters -> Nat]
        /\ drain \in [Generations -> {"none", "loop", "over"} \union Requests]
    BY DEF InboxInv, InboxTypes
  <1>4. InboxTypes'
    <2>1. <<>> \in Seq(Requests) /\ InboxTypes
      BY DEF InboxInv
    <2>2. call' \in [Callers -> CallRecord]
      BY <1>1 DEF MovedTo, Moved
    <2>3. /\ pending' \in Seq(Requests) /\ retained' \in Nat /\ draining' \in BOOLEAN
          /\ overlap' \in BOOLEAN
      <3>1. CASE EmptyGate /\ UNCHANGED overlap
        BY <2>1, <3>1 DEF EmptyGate, InboxTypes
      <3>2. CASE UNCHANGED <<gate, overlap>>
        BY <2>1, <3>2 DEF InboxTypes
      <3> QED
        BY <1>2, <3>1, <3>2
    <2> QED
      BY <1>2, <2>1, <2>2, <2>3 DEF InboxTypes
  <1>5. Changed(c, "done", call[c].gen, call[c].f)
    BY <1>1 DEF MovedTo, Moved, Changed
  <1>6. Numbered'
    BY <1>2, <1>3, <1>5 DEF EmptyGate, Current, Changed, Numbered, Starter, Generations
  <1>7. Answerable'
    BY <1>2, <1>3, <1>5 DEF EmptyGate, Current, Changed, Numbered, Answerable, Responsible
  <1>8. Sequential'
    BY <1>2, <1>3, <1>5 DEF EmptyGate, Current, Changed, Numbered, Sequential, Answerable
  <1>9. GateInv'
    BY <1>2, <1>3, <1>5, CommandInboxAssumption
    DEF EmptyGate, Current, Changed, Numbered, GateInv, RetainedIsHeld, InHand, Starter
  <1> QED
    BY <1>4, <1>6, <1>7, <1>8, <1>9

LEMMA StopBeginInv ==
  ASSUME InboxInv, NEW c \in Callers, StopBegin(c)
  PROVE  InboxTypes' /\ Numbered' /\ Answerable' /\ Sequential' /\ GateInv'
  <1>1. MovedTo(c, IF filters THEN "undo" ELSE "done", call[c].gen, call[c].f)
    BY CallMoves DEF StopBegin
  <1>2. /\ call[c].pc = "idle"
        /\ generation' = generation + 1 /\ state' = "Stopped" /\ filters' = FALSE
        /\ EmptyGate /\ Overlaps
        /\ UNCHANGED <<wiped, subs, drain, delivery, scene>>
    BY DEF StopBegin
  <1>3. /\ Numbered /\ Answerable /\ Sequential /\ GateInv
        /\ generation \in Nat /\ call[c].f \in Filters /\ call[c].then \in {"done", "fail"}
        /\ \A d \in Callers : call[d].gen \in Nat
        /\ subs \in [Filters -> Nat]
        /\ drain \in [Generations -> {"none", "loop", "over"} \union Requests]
    BY DEF InboxInv, InboxTypes
  <1>4. InboxTypes'
    <2>1. <<>> \in Seq(Requests) /\ InboxTypes
      BY DEF InboxInv
    <2>2. call' \in [Callers -> CallRecord]
      BY <1>1 DEF MovedTo, Moved
    <2>3. /\ pending' \in Seq(Requests) /\ retained' \in Nat /\ draining' \in BOOLEAN
          /\ overlap' \in BOOLEAN
      BY <1>2, <2>1 DEF EmptyGate, Overlaps, Quiet, InboxTypes
    <2>4. generation' \in Nat /\ state' \in {"Stopped"} /\ filters' = FALSE
      BY <1>2, <1>3
    <2>5. filters' \in BOOLEAN
      BY <2>4
    <2> QED
      BY <1>2, <2>1, <2>2, <2>3, <2>4, <2>5 DEF InboxTypes
  <1>5. Changed(c, IF filters THEN "undo" ELSE "done", call[c].gen, call[c].f)
    BY <1>1 DEF MovedTo, Moved, Changed
  <1>6. Numbered'
    <2>1. generation' = generation + 1 /\ generation + 1 \in Generations
      BY <1>2, NextGeneration
    <2>2. /\ \A f \in Filters : subs'[f] <= generation'
          /\ \A r \in Requests : delivery'[r].gen <= generation'
          /\ \A g \in Generations : g > generation' => drain'[g] = "none"
          /\ state' \in {"Starting", "Active"} => generation' >= 1
      BY <1>2, <1>3, <2>1 DEF InboxInv, InboxTypes, Numbered, Generations
    <2>3. \A d \in Callers :
              /\ call'[d].gen <= generation'
              /\ call'[d].pc \in {"idle", "filters", "recheck"} => call'[d].f = 1
              /\ Starter(d)' => call'[d].gen \in Generations /\ drain'[call'[d].gen] = "none"
      BY <1>2, <1>3, <1>5, <2>1 DEF Numbered, Changed, Starter, Generations
    <2>4. \A d, e \in Callers : call'[d].gen = call'[e].gen /\ call'[d].gen # 0 => d = e
      BY <1>3, <1>5, <2>1 DEF Numbered, Changed
    <2> QED
      BY <2>2, <2>3, <2>4 DEF Numbered
  <1>7. Answerable'
    BY <1>2, <1>3, <1>5
    DEF EmptyGate, Overlaps, Quiet, Current, Changed, Numbered, Answerable, Responsible
  <1>8. Sequential'
    <2>1. /\ \A d \in Callers : d # c => call'[d] = call[d]
          /\ call'[c].pc \in {"undo", "done"} /\ state' = "Stopped"
          /\ ~overlap' => \A d \in Callers : call[d].pc \in {"idle", "done"}
      BY <1>2, <1>5 DEF Overlaps, Quiet, Changed
    <2> QED
      BY <2>1 DEF Sequential
  <1>9. GateInv'
    BY <1>2, <1>3, <1>5, CommandInboxAssumption, NextGeneration
    DEF EmptyGate, Overlaps, Quiet, Current, Changed, Numbered, GateInv, RetainedIsHeld,
        InHand, Starter
  <1> QED
    BY <1>4, <1>6, <1>7, <1>8, <1>9

-----------------------------------------------------------------------------
(* The deliveries. *)
LEMMA Delivers ==
  ASSUME InboxInv, NEW r \in Requests, NEW to \in DeliveryPlaces, DeliveryTo(r, to)
  PROVE  /\ delivery' \in [Requests -> [at : DeliveryPlaces, gen : Nat]]
         /\ delivery'[r].at = to /\ delivery'[r].gen = delivery[r].gen
         /\ \A q \in Requests : q # r => delivery'[q] = delivery[q]
  <1>1. delivery[r] \in [at : DeliveryPlaces, gen : Nat]
        /\ delivery \in [Requests -> [at : DeliveryPlaces, gen : Nat]]
    BY DEF InboxInv, InboxTypes
  <1>2. [delivery[r] EXCEPT !.at = to] \in [at : DeliveryPlaces, gen : Nat]
    BY <1>1
  <1> QED
    BY <1>1, <1>2 DEF DeliveryTo

LEMMA ReceiveInv ==
  ASSUME InboxInv, NEW r \in Requests, Receive(r)
  PROVE  InboxInv'
  <1>1. /\ generation \in Nat /\ pending \in Seq(Requests) /\ retained \in Nat
        /\ Numbered /\ GateInv
    BY DEF InboxInv, InboxTypes
  <1>2. /\ UNCHANGED <<lifecycle, draining, subs, call, drain, scene, history>>
        /\ delivery[r].at = "received"
    BY DEF Receive
  <1>3. \E to \in {"gated", "direct", "dropped"} :
           /\ DeliveryTo(r, to)
           /\ to = "gated" => /\ generation = delivery[r].gen /\ Gated
                              /\ pending' = Append(pending, r) /\ retained' = retained + 1
           /\ to # "gated" => UNCHANGED <<pending, retained>>
           /\ to = "direct" => generation = delivery[r].gen /\ ~Gated /\ state = "Active"
    BY DEF Receive
  <1>4. PICK to \in {"gated", "direct", "dropped"} :
           /\ DeliveryTo(r, to)
           /\ to = "gated" => /\ generation = delivery[r].gen /\ Gated
                              /\ pending' = Append(pending, r) /\ retained' = retained + 1
           /\ to # "gated" => UNCHANGED <<pending, retained>>
           /\ to = "direct" => generation = delivery[r].gen /\ ~Gated /\ state = "Active"
    BY <1>3
  <1>5. /\ delivery' \in [Requests -> [at : DeliveryPlaces, gen : Nat]]
        /\ delivery'[r].at = to /\ delivery'[r].gen = delivery[r].gen
        /\ \A q \in Requests : q # r => delivery'[q] = delivery[q]
    BY <1>4, Delivers
  <1>6. /\ pending' \in Seq(Requests) /\ retained' \in Nat
        /\ to = "gated" => Len(pending') = Len(pending) + 1
    <2>1. CASE to = "gated"
      BY <1>1, <1>4, <2>1
    <2>2. CASE to # "gated"
      BY <1>1, <1>4, <2>2
    <2> QED
      BY <2>1, <2>2
  <1>7. InboxTypes'
    BY <1>2, <1>5, <1>6 DEF InboxInv, InboxTypes
  <1>8. Counted' /\ Numbered' /\ Answerable' /\ Sequential'
    <2>1. \A q \in Requests : delivery'[q].gen <= generation
      BY <1>1, <1>5 DEF Numbered
    <2>2. Numbered'
      BY <1>1, <1>2, <2>1 DEF Numbered, Starter
    <2> QED
      BY <1>2, <2>2
      DEF InboxInv, Counted, Begun, Answerable, Responsible, Current, Sequential
  <1>9. GateInv'
    <2>1. RetainedIsHeld'
      <3>1. InHand(generation) \in Nat /\ UNCHANGED InHand(generation)
        BY <1>2 DEF InHand
      <3> QED
        BY <1>1, <1>2, <1>4, <1>6, <3>1 DEF GateInv, RetainedIsHeld
    <2>2. state' = "Active" /\ ~draining' /\ generation' \notin wiped' =>
              pending' = <<>> /\ InHand(generation)' = 0
      BY <1>1, <1>2, <1>4 DEF GateInv, Gated, InHand
    <2>3. \A q \in Requests : delivery'[q].at = "direct" /\ delivery'[q].gen = generation' =>
              state' = "Active" /\ ~draining'
      BY <1>1, <1>2, <1>4, <1>5 DEF GateInv, Gated
    <2> QED
      BY <2>1, <2>2, <2>3 DEF GateInv
  <1> QED
    BY <1>7, <1>8, <1>9 DEF InboxInv

LEMMA ArriveInv ==
  ASSUME InboxInv, NEW r \in Requests, Arrive(r)
  PROVE  InboxInv'
  <1>1. /\ UNCHANGED <<lifecycle, gate, subs, call, drain, scene, history>>
        /\ delivery' = [delivery EXCEPT ![r] = [at |-> "received", gen |-> subs[Address[r]]]]
        /\ subs[Address[r]] \in Nat /\ subs[Address[r]] <= generation
    BY CommandInboxAssumption DEF Arrive, InboxInv, InboxTypes, Numbered
  <1>2. InboxTypes'
    BY <1>1 DEF InboxInv, InboxTypes
  <1>3. Numbered'
    BY <1>1 DEF InboxInv, InboxTypes, Numbered, Starter
  <1>4. Counted' /\ Answerable' /\ Sequential' /\ GateInv'
    BY <1>1
    DEF InboxInv, InboxTypes, Counted, Begun, Answerable, Responsible, Current, Sequential,
        GateInv, RetainedIsHeld, InHand
  <1> QED
    BY <1>2, <1>3, <1>4 DEF InboxInv

(* The drain tasks. *)
LEMMA DrainEmptyInv ==
  ASSUME InboxInv, NEW g \in Generations, DrainEmpty(g)
  PROVE  InboxInv'
  <1>1. /\ UNCHANGED <<lifecycle, subs, call, delivery, scene, overlap>>
        /\ EmptyGate /\ drain[g] = "loop" /\ drain' = [drain EXCEPT ![g] = "over"]
        /\ wiped' = IF generation = g THEN wiped ELSE wiped \union {generation}
        /\ generation \in Nat /\ g \in Nat
        /\ drain \in [Generations -> {"none", "loop", "over"} \union Requests]
        /\ <<>> \in Seq(Requests)
    BY CallersFinite DEF DrainEmpty, InboxInv, InboxTypes, Generations
  <1>2. InboxTypes'
    <2>1. /\ pending' \in Seq(Requests) /\ retained' \in Nat /\ draining' \in BOOLEAN
          /\ wiped' \subseteq Nat
      BY <1>1 DEF EmptyGate, InboxInv, InboxTypes
    <2> QED
      BY <1>1, <2>1 DEF InboxInv, InboxTypes
  <1>3. Numbered'
    BY <1>1 DEF InboxInv, Numbered, Starter
  <1>4. Counted' /\ Answerable' /\ Sequential'
    BY <1>1 DEF InboxInv, Counted, Begun, Answerable, Responsible, Current, Sequential
  <1>5. GateInv'
    <2>1. generation' \notin wiped' => InHand(generation)' = 0
      BY <1>1, CommandInboxAssumption DEF InHand
    <2>2. pending' = <<>> /\ retained' = 0 /\ Len(pending') = 0 /\ ~draining'
      BY <1>1 DEF EmptyGate
    <2> QED
      BY <1>1, <2>1, <2>2 DEF InboxInv, GateInv, RetainedIsHeld
  <1> QED
    BY <1>2, <1>3, <1>4, <1>5 DEF InboxInv

LEMMA DrainPopInv ==
  ASSUME InboxInv, NEW g \in Generations, DrainPop(g)
  PROVE  InboxInv'
  <1>1. /\ UNCHANGED <<lifecycle, retained, draining, subs, call, scene, history>>
        /\ drain[g] = "loop" /\ drain' = [drain EXCEPT ![g] = Head(pending)]
        /\ pending # <<>> /\ pending' = Tail(pending) /\ DeliveryTo(Head(pending), "drained")
        /\ generation = g /\ state = "Active"
        /\ drain \in [Generations -> {"none", "loop", "over"} \union Requests]
        /\ pending \in Seq(Requests)
    BY DEF DrainPop, InboxInv, InboxTypes, Current
  <1>2. /\ Head(pending) \in Requests /\ pending' \in Seq(Requests)
        /\ Len(pending') = Len(pending) - 1 /\ Len(pending) \in Nat
    BY <1>1
  <1>3. /\ delivery' \in [Requests -> [at : DeliveryPlaces, gen : Nat]]
        /\ delivery'[Head(pending)].at = "drained"
        /\ delivery'[Head(pending)].gen = delivery[Head(pending)].gen
        /\ \A q \in Requests : q # Head(pending) => delivery'[q] = delivery[q]
    BY <1>1, <1>2, Delivers
  <1>4. InboxTypes'
    BY <1>1, <1>2, <1>3 DEF InboxInv, InboxTypes
  <1>5. Numbered'
    <2>1. \A q \in Requests : delivery'[q].gen <= generation
      BY <1>2, <1>3 DEF InboxInv, Numbered
    <2>2. generation \in Nat
      BY DEF InboxInv, InboxTypes
    <2> QED
      BY <1>1, <2>1, <2>2 DEF InboxInv, Numbered, Starter
  <1>6. Counted' /\ Answerable' /\ Sequential'
    BY <1>1 DEF InboxInv, Counted, Begun, Answerable, Responsible, Current, Sequential
  <1>7. GateInv'
    <2>1. InHand(generation) = 0 /\ InHand(generation)' = 1
      BY <1>1, <1>2, CommandInboxAssumption DEF InHand
    <2>2. RetainedIsHeld'
      BY <1>1, <1>2, <2>1 DEF InboxInv, InboxTypes, GateInv, RetainedIsHeld
    <2>3. ~(state' = "Active" /\ ~draining' /\ generation' \notin wiped')
      BY <1>1 DEF InboxInv, GateInv
    <2>4. \A q \in Requests : delivery'[q].at = "direct" /\ delivery'[q].gen = generation' =>
              state' = "Active" /\ ~draining'
      BY <1>1, <1>2, <1>3 DEF InboxInv, GateInv
    <2> QED
      BY <2>2, <2>3, <2>4 DEF GateInv
  <1> QED
    BY <1>4, <1>5, <1>6, <1>7 DEF InboxInv

LEMMA DrainDoneInv ==
  ASSUME InboxInv, NEW g \in Generations, DrainDone(g)
  PROVE  InboxInv'
  <1>1. /\ UNCHANGED <<lifecycle, pending, draining, subs, call, delivery, scene, history>>
        /\ drain[g] \in Requests /\ drain' = [drain EXCEPT ![g] = "loop"]
        /\ retained' = retained - GivenBack(g)
        /\ drain \in [Generations -> {"none", "loop", "over"} \union Requests]
        /\ retained \in Nat
    BY DEF DrainDone, InboxInv, InboxTypes
  <1>2. /\ retained' \in Nat
        /\ generation # g => retained' = retained
        /\ generation = g /\ retained > 0 => retained' = retained - 1
    BY <1>1 DEF GivenBack
  <1>3. InboxTypes'
    <2>1. drain' \in [Generations -> {"none", "loop", "over"} \union Requests]
      BY <1>1
    <2> QED
      BY <1>1, <1>2, <2>1 DEF InboxInv, InboxTypes
  <1>4. Numbered'
    BY <1>1, CommandInboxAssumption DEF InboxInv, InboxTypes, Numbered, Starter
  <1>5. Counted' /\ Answerable' /\ Sequential'
    BY <1>1 DEF InboxInv, Counted, Begun, Answerable, Responsible, Current, Sequential
  <1>6. GateInv'
    <2>1. CASE generation = g
      <3>1. InHand(generation) = 1 /\ InHand(generation)' = 0
        BY <1>1, <2>1, CommandInboxAssumption DEF InHand
      <3>2. RetainedIsHeld'
        BY <1>1, <1>2, <2>1, <3>1 DEF InboxInv, InboxTypes, GateInv, RetainedIsHeld
      <3> QED
        BY <1>1, <3>1, <3>2 DEF InboxInv, GateInv
    <2>2. CASE generation # g
      <3>1. UNCHANGED InHand(generation)
        BY <1>1, <2>2 DEF InHand
      <3>2. retained' = retained
        BY <1>1, <1>2, <2>2
      <3>3. RetainedIsHeld'
        BY <1>1, <3>1, <3>2 DEF InboxInv, GateInv, RetainedIsHeld
      <3> QED
        BY <1>1, <3>1, <3>3 DEF InboxInv, GateInv
    <2> QED
      BY <2>1, <2>2
  <1> QED
    BY <1>3, <1>4, <1>5, <1>6 DEF InboxInv

LEMMA FrameInv ==
  ASSUME InboxInv, InboxFrame
  PROVE  InboxInv'
  BY DEF InboxFrame, InboxInv, InboxTypes, Counted, Begun, Numbered, Starter, Answerable,
     Responsible, Current, Sequential, GateInv, RetainedIsHeld, InHand, Generations

-----------------------------------------------------------------------------
(* Every step of the specification keeps both invariants.                  *)
Inv == DeferredInv /\ InboxInv

LEMMA InitInv == Init => Inv
  <1> SUFFICES ASSUME Init PROVE Inv
    OBVIOUS
  <1>1. DeferredInv
    BY DeferredInitInv DEF Init
  <1>2. InboxTypes
    <2>1. call \in [Callers -> CallRecord] /\ subs \in [Filters -> Nat]
      BY DEF Init
    <2>2. delivery \in [Requests -> [at : DeliveryPlaces, gen : Nat]]
      BY DEF Init
    <2>3. drain \in [Generations -> {"none", "loop", "over"} \union Requests]
      BY DEF Init
    <2>4. pending \in Seq(Requests)
      BY DEF Init
    <2> QED
      BY <2>1, <2>2, <2>3, <2>4 DEF Init, InboxTypes
  <1>3. Counted /\ GateInv
    <2>1. Begun = {} /\ Cardinality(Begun) = 0
      <3>1. Begun = {}
        BY DEF Init, Begun
      <3> QED
        BY <3>1, FS_EmptySet
    <2> QED
      BY <2>1 DEF Init, Counted, GateInv, RetainedIsHeld
  <1>4. Numbered
    BY DEF Init, Numbered, Starter
  <1>5. Answerable /\ Sequential
    BY DEF Init, Answerable, Sequential
  <1> QED
    BY <1>1, <1>2, <1>3, <1>4, <1>5 DEF Inv, InboxInv

LEMMA CallStepInv ==
  ASSUME InboxInv, NEW c \in Callers, CallStep(c)
  PROVE  InboxInv'
  <1>1. Counted'
    BY CountedInv
  <1>2. InboxTypes' /\ Numbered' /\ Answerable' /\ Sequential' /\ GateInv'
    BY StartBeginAgainInv, StartBeginInv, StartFiltersInv, SubscribeInv, CheckInv,
       BecomeActiveInv, RecheckInv, UnsubscribeInv, FailInv, StopBeginInv DEF CallStep
  <1> QED
    BY <1>1, <1>2 DEF InboxInv

LEMMA NextInv == Inv /\ [Next]_vars => Inv'
  <1> SUFFICES ASSUME Inv, [Next]_vars PROVE Inv'
    OBVIOUS
  <1> USE DEF Inv
  <1>1. ASSUME UNCHANGED deferredVars PROVE DeferredInv'
    <2>1. UNCHANGED <<handler, form, entry, kept, late, settle, by, attempts, arrived,
                      continuation, stopping, replies, early>>
      BY <1>1 DEF deferredVars, registry, settlement
    <2>2. kept' \subseteq kept /\ Running' \subseteq Running
      BY <2>1 DEF Running
    <2>3. DeferredTypes' /\ Bounded'
      BY <2>1, <2>2, Fewer DEF DeferredInv, DeferredTypes
    <2>4. /\ \A q \in Requests : Life(q)' /\ Dispatching(q)'
          /\ \A q \in Requests \ early' : Once(q)'
          /\ Behind'
      BY <2>1 DEF DeferredInv, Life, Dispatching, Once, Behind
    <2> QED
      BY <2>3, <2>4 DEF DeferredInv
  <1>2. ASSUME NEW c \in Callers, CallStep(c) PROVE Inv'
    <2>1. UNCHANGED deferredVars
      BY <1>2
      DEF CallStep, StartBegin, StartFilters, Subscribe, Check, BecomeActive, Recheck,
          Unsubscribe, Fail, StopBegin
    <2> QED
      BY <1>1, <1>2, <2>1, CallStepInv
  <1>3. ASSUME NEW r \in Requests, Arrive(r) \/ Receive(r) PROVE Inv'
    <2>1. UNCHANGED deferredVars
      BY <1>3 DEF Arrive, Receive
    <2> QED
      BY <1>1, <1>3, <2>1, ArriveInv, ReceiveInv
  <1>4. ASSUME NEW r \in Requests, Dispatch(r) PROVE Inv'
    <2>1. InboxFrame
      BY <1>4 DEF Dispatch, InboxFrame
    <2> QED
      BY <1>4, <2>1, FrameInv, DispatchedInv DEF Dispatch
  <1>5. ASSUME NEW g \in Generations, DrainStep(g) PROVE Inv'
    <2>1. UNCHANGED deferredVars
      BY <1>5 DEF DrainStep, DrainEmpty, DrainPop, DrainDone
    <2> QED
      BY <1>1, <1>5, <2>1, DrainEmptyInv, DrainPopInv, DrainDoneInv DEF DrainStep
  <1>6. ASSUME InboxFrame, DeferredNext PROVE Inv'
    BY <1>6, FrameInv, DeferredNextInv
  <1>7. ASSUME InboxFrame, NEW r \in Requests, AnswerNow(r) PROVE Inv'
    BY <1>7, FrameInv, HandlerInv DEF HandlerStep
  <1>8. CASE UNCHANGED vars
    BY <1>1, <1>8, FrameInv DEF vars, InboxFrame
  <1> QED
    BY <1>2, <1>3, <1>4, <1>5, <1>6, <1>7, <1>8 DEF Next

LEMMA AlwaysInv == Spec => []Inv
  BY InitInv, NextInv, PTL DEF Spec

-----------------------------------------------------------------------------
(* The types hold; in particular the registry and the continuations never  *)
(* pass their capacities, an entry in SETTLING has somebody who settles    *)
(* it, and the places counted at the gate are those of the deliveries that *)
(* wait there or that the drain has in hand.                               *)
THEOREM TypeCorrect == Spec => []TypeOK
  <1>1. Inv => TypeOK
    <2> SUFFICES ASSUME Inv PROVE TypeOK
      OBVIOUS
    <2>1. generation \in 0..Cardinality(Callers)
      <3>1. /\ Cardinality(Begun) <= Cardinality(Callers)
            /\ Cardinality(Begun) \in Nat /\ Cardinality(Callers) \in Nat
        BY CommandInboxAssumption, FS_Subset, FS_CardinalityType DEF Begun
      <3> QED
        BY <3>1 DEF Inv, InboxInv, InboxTypes, Counted
    <2>2. subs \in [Filters -> 0..generation]
      BY DEF Inv, InboxInv, InboxTypes, Numbered
    <2> QED
      BY <2>1, <2>2, DeferredTypeInv DEF Inv, InboxInv, InboxTypes, GateInv, TypeOK
  <1> QED
    BY <1>1, AlwaysInv, PTL

(* A request is answered once, and a settlement that was told Ok was the   *)
(* answer and stays it, whichever way handler, settlement, expiry and      *)
(* shutdown_deferred cross.                                                *)
THEOREM AnsweredOnceCorrect == Spec => []AnsweredOnce
  <1>1. Inv => AnsweredOnce
    BY AnsweredOnceInv DEF Inv
  <1> QED
    BY <1>1, AlwaysInv, PTL

(* A shutdown that is over leaves no entry behind that nobody settles,     *)
(* also none that was deferred while it went through its snapshot.         *)
THEOREM NothingBehindShutdownCorrect == Spec => []NothingBehindShutdown
  <1>1. Inv => NothingBehindShutdown
    BY NothingBehindInv DEF Inv
  <1> QED
    BY <1>1, AlwaysInv, PTL

(* Whichever way any number of starts and stops cross, an inbox that is    *)
(* not active has no handler subscribed once the calls are over; if none   *)
(* of them overlapped, an active one has both, of its own generation.      *)
THEOREM SubscriptionsFollowCorrect == Spec => []SubscriptionsFollow
  <1>1. Inv => SubscriptionsFollow
    <2> SUFFICES ASSUME Inv PROVE SubscriptionsFollow
      OBVIOUS
    <2>1. Quiet => ~\E c \in Callers, f \in Filters : Responsible(c, f)
      BY DEF Quiet, Responsible
    <2>2. NoStaleSubscription
      BY <2>1 DEF NoStaleSubscription, Inv, InboxInv, Answerable
    <2>3. ActiveIsSubscribed
      BY DEF ActiveIsSubscribed, Inv, InboxInv, Sequential
    <2> QED
      BY <2>2, <2>3 DEF SubscriptionsFollow
  <1> QED
    BY <1>1, AlwaysInv, PTL

(* No delivery of a generation is dispatched past the gate while another   *)
(* one still waits there or is in the hand of the drain.                   *)
THEOREM GateBeforeDirectCorrect == Spec => []GateBeforeDirect
  <1>1. Inv => GateBeforeDirect
    BY DEF Inv, InboxInv, GateInv, GateBeforeDirect
  <1> QED
    BY <1>1, AlwaysInv, PTL
=============================================================================
