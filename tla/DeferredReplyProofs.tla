------------------------- MODULE DeferredReplyProofs -------------------------
(***************************************************************************)
(* What DeferredReply keeps, for any number of requests, any capacity of   *)
(* the registry and any number of continuations.  Its theorems are about   *)
(* the steps of DeferredReply; CommandInboxProofs makes them theorems of   *)
(* the specification that dispatches requests to it.                       *)
(***************************************************************************)
EXTENDS DeferredReply, FiniteSetTheorems, TLAPS

Handlers == {"none", "running", "provisional", "activating", "active", "returned",
             "done", "dropped"}
Settlements == {"idle", "loop", "sent", "ok", "err", "dropped"}
Answers == {"immediate", "invalid", "answer", "stopping"}

DeferredTypes ==
    /\ handler \in [Requests -> Handlers]
    /\ form \in [Requests -> {"plain", "continuation"}]
    /\ entry \in [Requests -> Live \union {"none", "settled", "discarded",
                                          "expired", "cancelled"}]
    /\ kept \subseteq Requests /\ IsFiniteSet(kept)
    /\ late \subseteq Requests
    /\ settle \in [Requests -> Settlements]
    /\ by \in [Requests -> {"task", "continuation"}]
    /\ attempts \in [Requests -> Nat]
    /\ arrived \subseteq Requests
    /\ continuation \in [Requests -> {"none", "running", "refused", "ended", "failed",
                                      "dropped"}]
    /\ IsFiniteSet(Running)
    /\ stopping \in [pc : {"no", "notified", "flagged", "entries", "reply", "close", "done"},
                     todo : SUBSET Requests, at : SUBSET Requests]
    /\ replies \in [Requests -> SUBSET Answers]
    /\ early \subseteq Requests

Bounded == Cardinality(kept) <= Capacity /\ Cardinality(Running) <= Continuations

(* The life of an entry: the registry keeps it while it is live, and       *)
(* whoever moved it to SETTLING is the only one to settle it.              *)
Life(r) ==
    /\ r \in kept => entry[r] \in Live \union {"settled"}
    /\ entry[r] \in Live => r \in kept
    /\ entry[r] \in {"none", "provisional", "open"} => settle[r] = "idle"
    /\ r \in stopping.at => settle[r] = "idle" /\ entry[r] \in {"settling", "expired"}
    /\ entry[r] = "settling" => settle[r] \in {"loop", "sent", "dropped"} \/ r \in stopping.at
    /\ r \in arrived => "answer" \in replies[r]
    /\ settle[r] = "ok" => "answer" \in replies[r] /\ entry[r] = "settled"

(* Until its dispatch is over a request has no answer, unless its token    *)
(* was used early.                                                         *)
Dispatching(r) ==
    /\ handler[r] \in {"none", "running", "dropped"} => entry[r] = "none" /\ r \notin early
    /\ handler[r] \in {"provisional", "activating"} =>
           entry[r] \in {"provisional", "expired", "cancelled"} /\ r \notin early
    /\ entry[r] = "provisional" => handler[r] \in {"provisional", "activating", "returned"}
    /\ entry[r] = "none" => handler[r] \in {"none", "running", "dropped", "done"}

(* One answer: an entry that can still be taken has none, and who took it  *)
(* gives his own.                                                          *)
Once(r) ==
    /\ handler[r] # "done" => replies[r] = {} /\ settle[r] = "idle" /\ r \notin stopping.at
    /\ entry[r] \in {"provisional", "open"} => replies[r] = {}
    /\ settle[r] # "idle" => replies[r] \subseteq {"answer"}
    /\ r \in stopping.at =>
           replies[r] \subseteq IF stopping.pc = "reply" THEN {} ELSE {"stopping"}
    /\ \E a \in Answers : replies[r] \subseteq {a}

(* Shutdown goes through the entries of its snapshot, one at a time, and   *)
(* leaves none open behind it.                                             *)
Behind ==
    /\ stopping.pc \in {"reply", "close"} => \E r \in Requests : stopping.at = {r}
    /\ stopping.pc \notin {"reply", "close"} => stopping.at = {}
    /\ stopping.pc \in {"entries", "reply", "close", "done"} =>
           \A r \in kept \ stopping.todo : entry[r] \in {"settling", "settled"}
    /\ stopping.pc = "done" => stopping.todo = {}

DeferredInv ==
    /\ DeferredTypes
    /\ Bounded
    /\ \A r \in Requests : Life(r) /\ Dispatching(r)
    /\ \A r \in Requests \ early : Once(r)
    /\ Behind

USE DEF registry, settlement, At, Becomes, Answered, SettleTo, Live,
        Handlers, Settlements, Answers

-----------------------------------------------------------------------------
(* The registry and the continuations keep their bounds when they shrink.  *)
LEMMA Fewer ==
  ASSUME DeferredInv, kept' \subseteq kept, Running' \subseteq Running
  PROVE  IsFiniteSet(kept') /\ IsFiniteSet(Running') /\ Bounded'
  <1>1. /\ Cardinality(kept) \in Nat /\ Cardinality(Running) \in Nat
        /\ IsFiniteSet(kept) /\ IsFiniteSet(Running)
    BY FS_CardinalityType DEF DeferredInv, DeferredTypes
  <1>2. /\ IsFiniteSet(kept') /\ Cardinality(kept') \in Nat
        /\ Cardinality(kept') <= Cardinality(kept)
    BY <1>1, FS_Subset, FS_CardinalityType
  <1>3. /\ IsFiniteSet(Running') /\ Cardinality(Running') \in Nat
        /\ Cardinality(Running') <= Cardinality(Running)
    BY <1>1, FS_Subset, FS_CardinalityType
  <1> QED
    BY <1>1, <1>2, <1>3, DeferredReplyAssumption DEF DeferredInv, Bounded

(* One more, when there was a place. *)
LEMMA OneMore ==
  ASSUME NEW S, IsFiniteSet(S), NEW x, NEW n \in Nat, Cardinality(S) < n
  PROVE  IsFiniteSet(S \union {x}) /\ Cardinality(S \union {x}) <= n
  <1>1. Cardinality(S) \in Nat
    BY FS_CardinalityType
  <1>2. /\ IsFiniteSet(S \union {x})
        /\ Cardinality(S \union {x}) =
               IF x \in S THEN Cardinality(S) ELSE Cardinality(S) + 1
    BY FS_AddElement
  <1> QED
    BY <1>1, <1>2

(* The handler, and the dispatcher that takes its outcome. *)
LEMMA HandlerInv ==
  ASSUME DeferredInv, NEW r \in Requests, HandlerStep(r)
  PROVE  DeferredInv'
  <1>1. CASE AnswerNow(r)
    <2>1. kept' \subseteq kept /\ Running' \subseteq Running
      BY <1>1 DEF AnswerNow, Running
    <2>2. DeferredTypes'
      BY <1>1, <2>1, Fewer DEF AnswerNow, DeferredInv, DeferredTypes
    <2>3. /\ \A q \in Requests : Life(q)' /\ Dispatching(q)'
          /\ \A q \in Requests \ early' : Once(q)'
          /\ Behind'
      BY <1>1 DEF AnswerNow, DeferredInv, DeferredTypes, Life, Dispatching, Once, Behind
    <2> QED
      BY <2>1, <2>2, <2>3, Fewer DEF DeferredInv
  <1>2. ASSUME NEW f \in {"plain", "continuation"}, Defer(r, f)
        PROVE  DeferredInv'
    <2>1. /\ kept' = kept \union {r} /\ UNCHANGED Running
          /\ IsFiniteSet(kept') /\ Cardinality(kept') <= Capacity
      BY <1>2, OneMore, DeferredReplyAssumption
      DEF Defer, Admits, Running, DeferredInv, DeferredTypes
    <2>2. DeferredTypes' /\ Bounded'
      BY <1>2, <2>1 DEF Defer, Bounded, DeferredInv, DeferredTypes
    <2>3. /\ \A q \in Requests : Life(q)' /\ Dispatching(q)'
          /\ \A q \in Requests \ early' : Once(q)'
          /\ Behind'
      BY <1>2
      DEF Defer, Admits, ShuttingDown, DeferredInv, DeferredTypes, Life, Dispatching,
          Once, Behind
    <2> QED
      BY <2>2, <2>3 DEF DeferredInv
  <1>3. CASE DiscardAndFail(r)
    <2>1. kept' \subseteq kept /\ Running' \subseteq Running
      BY <1>3 DEF DiscardAndFail, Running
    <2>2. DeferredTypes'
      BY <1>3, <2>1, Fewer DEF DiscardAndFail, DeferredInv, DeferredTypes
    <2>3. /\ \A q \in Requests : Life(q)' /\ Dispatching(q)'
          /\ \A q \in Requests \ early' : Once(q)'
          /\ Behind'
      BY <1>3
      DEF DiscardAndFail, DeferredInv, DeferredTypes, Life, Dispatching, Once, Behind
    <2> QED
      BY <2>1, <2>2, <2>3, Fewer DEF DeferredInv
  <1>4. CASE ActivateBegin(r)
    <2>1. kept' \subseteq kept /\ Running' \subseteq Running
      BY <1>4 DEF ActivateBegin, Running
    <2>2. DeferredTypes'
      BY <1>4, <2>1, Fewer DEF ActivateBegin, DeferredInv, DeferredTypes
    <2>3. /\ \A q \in Requests : Life(q)' /\ Dispatching(q)'
          /\ \A q \in Requests \ early' : Once(q)'
          /\ Behind'
      BY <1>4
      DEF ActivateBegin, DeferredInv, DeferredTypes, Life, Dispatching, Once, Behind
    <2> QED
      BY <2>1, <2>2, <2>3, Fewer DEF DeferredInv
  <1>5. CASE Activate(r)
    <2>1. kept' \subseteq kept /\ Running' \subseteq Running
      BY <1>5 DEF Activate, Running
    <2>2. DeferredTypes'
      BY <1>5, <2>1, Fewer DEF Activate, DeferredInv, DeferredTypes
    <2>3. /\ \A q \in Requests : Life(q)' /\ Dispatching(q)'
          /\ \A q \in Requests \ early' : Once(q)'
          /\ Behind'
      BY <1>5 DEF Activate, DeferredInv, DeferredTypes, Life, Dispatching, Once, Behind
    <2> QED
      BY <2>1, <2>2, <2>3, Fewer DEF DeferredInv
  <1>6. CASE Return(r)
    <2>1. kept' \subseteq kept /\ Running' \subseteq Running
      BY <1>6 DEF Return, Running
    <2>2. DeferredTypes'
      BY <1>6, <2>1, Fewer DEF Return, DeferredInv, DeferredTypes
    <2>3. /\ \A q \in Requests : Life(q)' /\ Dispatching(q)'
          /\ \A q \in Requests \ early' : Once(q)'
          /\ Behind'
      BY <1>6 DEF Return, DeferredInv, DeferredTypes, Life, Dispatching, Once, Behind
    <2> QED
      BY <2>1, <2>2, <2>3, Fewer DEF DeferredInv
  <1>7. CASE Accept(r)
    <2>1. /\ UNCHANGED kept /\ IsFiniteSet(kept)
          /\ IsFiniteSet(Running) /\ Cardinality(Running) <= Continuations
      BY <1>7 DEF Accept, DeferredInv, DeferredTypes, Bounded
    <2>2. IsFiniteSet(Running') /\ Bounded'
      <3>1. CASE form[r] # "plain" /\ Cardinality(Running) < Continuations
        <4>1. Running' = Running \union {r}
          BY <1>7, <3>1 DEF Accept, Running, DeferredInv, DeferredTypes
        <4> QED
          BY <2>1, <3>1, <4>1, OneMore, DeferredReplyAssumption
          DEF Bounded, DeferredInv
      <3>2. CASE ~(form[r] # "plain" /\ Cardinality(Running) < Continuations)
        <4>1. Running' \subseteq Running
          BY <1>7, <3>2 DEF Accept, Running, DeferredInv, DeferredTypes
        <4> QED
          BY <2>1, <4>1, Fewer
      <3> QED
        BY <3>1, <3>2
    <2>3. DeferredTypes'
      BY <1>7, <2>1, <2>2 DEF Accept, DeferredInv, DeferredTypes
    <2>4. /\ \A q \in Requests : Life(q)' /\ Dispatching(q)'
          /\ \A q \in Requests \ early' : Once(q)'
          /\ Behind'
      BY <1>7
      DEF Accept, Valid, DeferredInv, DeferredTypes, Life, Dispatching, Once, Behind
    <2> QED
      BY <2>2, <2>3, <2>4 DEF DeferredInv
  <1>8. CASE RejectOutcome(r)
    <2>1. kept' \subseteq kept /\ Running' \subseteq Running
      BY <1>8 DEF RejectOutcome, Valid, Running
    <2>2. DeferredTypes'
      BY <1>8, <2>1, Fewer DEF RejectOutcome, Valid, DeferredInv, DeferredTypes
    <2>3. /\ \A q \in Requests : Life(q)' /\ Dispatching(q)'
          /\ \A q \in Requests \ early' : Once(q)'
          /\ Behind'
      BY <1>8
      DEF RejectOutcome, Valid, DeferredInv, DeferredTypes, Life, Dispatching, Once,
          Behind
    <2> QED
      BY <2>1, <2>2, <2>3, Fewer DEF DeferredInv
  <1> QED
    BY <1>1, <1>2, <1>3, <1>4, <1>5, <1>6, <1>7, <1>8 DEF HandlerStep

(* Settlement.  It starts from an open entry only, and its Ok is final. *)
LEMMA SettleInv ==
  ASSUME DeferredInv, NEW r \in Requests, SettleStep(r)
  PROVE  DeferredInv'
  <1>1. ASSUME NEW who \in {"task", "continuation"}, BeginSettle(r, who)
        PROVE  DeferredInv'
    <2>1. kept' \subseteq kept /\ Running' \subseteq Running
      BY <1>1 DEF BeginSettle, Running
    <2>2. DeferredTypes'
      BY <1>1, <2>1, Fewer DEF BeginSettle, DeferredInv, DeferredTypes
    <2>3. /\ \A q \in Requests : Life(q)' /\ Dispatching(q)'
          /\ \A q \in Requests \ early' : Once(q)'
          /\ Behind'
      BY <1>1 DEF BeginSettle, DeferredInv, DeferredTypes, Life, Dispatching, Once, Behind
    <2> QED
      BY <2>1, <2>2, <2>3, Fewer DEF DeferredInv
  <1>2. CASE Attempt(r)
    <2>1. kept' \subseteq kept /\ Running' \subseteq Running
      BY <1>2 DEF Attempt, Running
    <2>2. DeferredTypes'
      BY <1>2, <2>1, Fewer DEF Attempt, DeferredInv, DeferredTypes
    <2>3. /\ \A q \in Requests : Life(q)' /\ Dispatching(q)'
          /\ \A q \in Requests \ early' : Once(q)'
          /\ Behind'
      BY <1>2 DEF Attempt, DeferredInv, DeferredTypes, Life, Dispatching, Once, Behind
    <2> QED
      BY <2>1, <2>2, <2>3, Fewer DEF DeferredInv
  <1>3. CASE Confirmed(r)
    <2>1. kept' \subseteq kept /\ Running' \subseteq Running
      BY <1>3 DEF Confirmed, Running
    <2>2. DeferredTypes'
      BY <1>3, <2>1, Fewer DEF Confirmed, DeferredInv, DeferredTypes
    <2>3. /\ \A q \in Requests : Life(q)' /\ Dispatching(q)'
          /\ \A q \in Requests \ early' : Once(q)'
          /\ Behind'
      BY <1>3 DEF Confirmed, DeferredInv, DeferredTypes, Life, Dispatching, Once, Behind
    <2> QED
      BY <2>1, <2>2, <2>3, Fewer DEF DeferredInv
  <1>4. CASE Unconfirmed(r)
    <2>1. kept' \subseteq kept /\ Running' \subseteq Running
      BY <1>4 DEF Unconfirmed, Running
    <2>2. DeferredTypes'
      BY <1>4, <2>1, Fewer DEF Unconfirmed, DeferredInv, DeferredTypes
    <2>3. /\ \A q \in Requests : Life(q)' /\ Dispatching(q)'
          /\ \A q \in Requests \ early' : Once(q)'
          /\ Behind'
      BY <1>4 DEF Unconfirmed, DeferredInv, DeferredTypes, Life, Dispatching, Once, Behind
    <2> QED
      BY <2>1, <2>2, <2>3, Fewer DEF DeferredInv
  <1>5. CASE GiveUp(r)
    <2>1. kept' \subseteq kept /\ Running' \subseteq Running
      BY <1>5 DEF GiveUp, Running
    <2>2. DeferredTypes'
      BY <1>5, <2>1, Fewer DEF GiveUp, DeferredInv, DeferredTypes
    <2>3. /\ \A q \in Requests : Life(q)' /\ Dispatching(q)'
          /\ \A q \in Requests \ early' : Once(q)'
          /\ Behind'
      BY <1>5 DEF GiveUp, DeferredInv, DeferredTypes, Life, Dispatching, Once, Behind
    <2> QED
      BY <2>1, <2>2, <2>3, Fewer DEF DeferredInv
  <1> QED
    BY <1>1, <1>2, <1>3, <1>4, <1>5 DEF SettleStep

(* Continuations, time and expiry. *)
LEMMA ContinuationInv ==
  ASSUME DeferredInv, NEW r \in Requests, ContinuationStep(r) \/ Elapse(r) \/ Expire(r)
  PROVE  DeferredInv'
  <1>1. CASE ContinuationEnds(r)
    <2>1. kept' \subseteq kept /\ Running' \subseteq Running
      BY <1>1 DEF ContinuationEnds, Running, DeferredTypes, DeferredInv
    <2>2. DeferredTypes'
      BY <1>1, <2>1, Fewer DEF ContinuationEnds, DeferredInv, DeferredTypes
    <2>3. /\ \A q \in Requests : Life(q)' /\ Dispatching(q)'
          /\ \A q \in Requests \ early' : Once(q)'
          /\ Behind'
      BY <1>1
      DEF ContinuationEnds, DeferredInv, DeferredTypes, Life, Dispatching, Once, Behind
    <2> QED
      BY <2>1, <2>2, <2>3, Fewer DEF DeferredInv
  <1>2. CASE ContinuationDropped(r)
    <2>1. kept' \subseteq kept /\ Running' \subseteq Running
      BY <1>2 DEF ContinuationDropped, Running, DeferredTypes, DeferredInv
    <2>2. DeferredTypes'
      BY <1>2, <2>1, Fewer DEF ContinuationDropped, DeferredInv, DeferredTypes
    <2>3. /\ \A q \in Requests : Life(q)' /\ Dispatching(q)'
          /\ \A q \in Requests \ early' : Once(q)'
          /\ Behind'
      BY <1>2
      DEF ContinuationDropped, DeferredInv, DeferredTypes, Life, Dispatching, Once, Behind
    <2> QED
      BY <2>1, <2>2, <2>3, Fewer DEF DeferredInv
  <1>3. CASE Elapse(r)
    <2>1. kept' \subseteq kept /\ Running' \subseteq Running
      BY <1>3 DEF Elapse, Running
    <2>2. DeferredTypes'
      BY <1>3, <2>1, Fewer DEF Elapse, DeferredInv, DeferredTypes
    <2>3. /\ \A q \in Requests : Life(q)' /\ Dispatching(q)'
          /\ \A q \in Requests \ early' : Once(q)'
          /\ Behind'
      BY <1>3 DEF Elapse, DeferredInv, DeferredTypes, Life, Dispatching, Once, Behind
    <2> QED
      BY <2>1, <2>2, <2>3, Fewer DEF DeferredInv
  <1>4. CASE Expire(r)
    <2>1. kept' \subseteq kept /\ Running' \subseteq Running
      BY <1>4 DEF Expire, Forgotten, Running
    <2>2. DeferredTypes'
      BY <1>4, <2>1, Fewer DEF Expire, Forgotten, DeferredInv, DeferredTypes
    <2>3. /\ \A q \in Requests : Life(q)' /\ Dispatching(q)'
          /\ \A q \in Requests \ early' : Once(q)'
          /\ Behind'
      BY <1>4
      DEF Expire, Forgotten, DeferredInv, DeferredTypes, Life, Dispatching, Once, Behind
    <2> QED
      BY <2>1, <2>2, <2>3, Fewer DEF DeferredInv
  <1> QED
    BY <1>1, <1>2, <1>3, <1>4 DEF ContinuationStep

(* Shutdown. *)
LEMMA ShutdownInv ==
  ASSUME DeferredInv, ShutdownStep
  PROVE  DeferredInv'
  <1>1. CASE ShutdownFlag
    <2>1. kept' \subseteq kept /\ Running' \subseteq Running
      BY <1>1 DEF ShutdownFlag, Stops, Running
    <2>2. DeferredTypes'
      BY <1>1, <2>1, Fewer DEF ShutdownFlag, Stops, DeferredInv, DeferredTypes
    <2>3. /\ \A q \in Requests : Life(q)' /\ Dispatching(q)'
          /\ \A q \in Requests \ early' : Once(q)'
          /\ Behind'
      BY <1>1
      DEF ShutdownFlag, Stops, DeferredInv, DeferredTypes, Life, Dispatching, Once, Behind
    <2> QED
      BY <2>1, <2>2, <2>3, Fewer DEF DeferredInv
  <1>2. CASE ShutdownSnapshot
    <2>1. kept' \subseteq kept /\ Running' \subseteq Running
      BY <1>2 DEF ShutdownSnapshot, Running
    <2>2. DeferredTypes'
      BY <1>2, <2>1, Fewer DEF ShutdownSnapshot, DeferredInv, DeferredTypes
    <2>3. /\ \A q \in Requests : Life(q)' /\ Dispatching(q)'
          /\ \A q \in Requests \ early' : Once(q)'
          /\ Behind'
      BY <1>2
      DEF ShutdownSnapshot, DeferredInv, DeferredTypes, Life, Dispatching, Once, Behind
    <2> QED
      BY <2>1, <2>2, <2>3, Fewer DEF DeferredInv
  <1>3. ASSUME NEW r \in Requests, ShutdownEntry(r)
        PROVE  DeferredInv'
    <2>1. kept' \subseteq kept /\ Running' \subseteq Running
      BY <1>3 DEF ShutdownEntry, TakenOver, Running
    <2>2. DeferredTypes'
      BY <1>3, <2>1, Fewer DEF ShutdownEntry, TakenOver, DeferredInv, DeferredTypes
    <2>3. /\ \A q \in Requests : Life(q)' /\ Dispatching(q)'
          /\ \A q \in Requests \ early' : Once(q)'
          /\ Behind'
      BY <1>3
      DEF ShutdownEntry, TakenOver, DeferredInv, DeferredTypes, Life, Dispatching, Once,
          Behind
    <2> QED
      BY <2>1, <2>2, <2>3, Fewer DEF DeferredInv
  <1>4. ASSUME NEW r \in Requests, ShutdownReply(r)
        PROVE  DeferredInv'
    <2>1. kept' \subseteq kept /\ Running' \subseteq Running
      BY <1>4 DEF ShutdownReply, Stops, Running
    <2>2. DeferredTypes'
      BY <1>4, <2>1, Fewer DEF ShutdownReply, Stops, DeferredInv, DeferredTypes
    <2>3. /\ \A q \in Requests : Life(q)' /\ Dispatching(q)'
          /\ \A q \in Requests \ early' : Once(q)'
          /\ Behind'
      BY <1>4
      DEF ShutdownReply, Stops, DeferredInv, DeferredTypes, Life, Dispatching, Once,
          Behind
    <2> QED
      BY <2>1, <2>2, <2>3, Fewer DEF DeferredInv
  <1>5. ASSUME NEW r \in Requests, ShutdownClose(r)
        PROVE  DeferredInv'
    <2>1. kept' \subseteq kept /\ Running' \subseteq Running
      BY <1>5 DEF ShutdownClose, Running
    <2>2. DeferredTypes'
      BY <1>5, <2>1, Fewer DEF ShutdownClose, DeferredInv, DeferredTypes
    <2>3. /\ \A q \in Requests : Life(q)' /\ Dispatching(q)'
          /\ \A q \in Requests \ early' : Once(q)'
          /\ Behind'
      BY <1>5
      DEF ShutdownClose, DeferredInv, DeferredTypes, Life, Dispatching, Once, Behind
    <2> QED
      BY <2>1, <2>2, <2>3, Fewer DEF DeferredInv
  <1>6. CASE ShutdownDone
    <2>1. kept' \subseteq kept /\ Running' \subseteq Running
      BY <1>6 DEF ShutdownDone, Stops, Running
    <2>2. DeferredTypes'
      BY <1>6, <2>1, Fewer DEF ShutdownDone, Stops, DeferredInv, DeferredTypes
    <2>3. /\ \A q \in Requests : Life(q)' /\ Dispatching(q)'
          /\ \A q \in Requests \ early' : Once(q)'
          /\ Behind'
      BY <1>6
      DEF ShutdownDone, Stops, DeferredInv, DeferredTypes, Life, Dispatching, Once, Behind
    <2> QED
      BY <2>1, <2>2, <2>3, Fewer DEF DeferredInv
  <1> QED
    BY <1>1, <1>2, <1>3, <1>4, <1>5, <1>6 DEF ShutdownStep

LEMMA DeferredNextInv == DeferredInv /\ DeferredNext => DeferredInv'
  BY HandlerInv, SettleInv, ContinuationInv, ShutdownInv DEF DeferredNext

LEMMA DeferredInitInv == DeferredInit => DeferredInv
  <1> SUFFICES ASSUME DeferredInit PROVE DeferredInv
    OBVIOUS
  <1>1. kept = {} /\ Running = {}
    BY DEF DeferredInit, Running
  <1>2. IsFiniteSet(kept) /\ IsFiniteSet(Running) /\ Bounded
    BY <1>1, FS_EmptySet, DeferredReplyAssumption DEF Bounded
  <1> QED
    BY <1>2
    DEF DeferredInit, Bounded, DeferredInv, DeferredTypes, Life, Dispatching, Once, Behind

(* A request that is handed to its handler, or that nobody will handle. *)
LEMMA DispatchedInv ==
  ASSUME DeferredInv, NEW r \in Requests,
         At(r, "none", "running") \/ At(r, "none", "dropped"),
         UNCHANGED <<form, registry, settlement, continuation, stopping, replies, early>>
  PROVE  DeferredInv'
  <1>1. kept' \subseteq kept /\ Running' \subseteq Running
    BY DEF Running
  <1>2. DeferredTypes'
    BY <1>1, Fewer DEF DeferredInv, DeferredTypes
  <1>3. /\ \A q \in Requests : Life(q)' /\ Dispatching(q)'
        /\ \A q \in Requests \ early' : Once(q)'
        /\ Behind'
    BY DEF DeferredInv, DeferredTypes, Life, Dispatching, Once, Behind
  <1> QED
    BY <1>1, <1>2, <1>3, Fewer DEF DeferredInv

-----------------------------------------------------------------------------
(* Once an entry settled, the one answer the requester got is the one      *)
(* confirmed.                                                              *)
LEMMA AnsweredOnceInv == DeferredInv => AnsweredOnce
  <1> SUFFICES ASSUME DeferredInv PROVE AnsweredOnce
    OBVIOUS
  <1>1. ASSUME NEW r \in Requests \ early
        PROVE  Cardinality(replies[r]) <= 1
    <2>1. PICK a : replies[r] \subseteq {a}
      BY <1>1 DEF DeferredInv, Once
    <2>2. replies[r] = {} \/ replies[r] = {a}
      BY <2>1
    <2>3. Cardinality({}) = 0
      BY FS_EmptySet
    <2>4. Cardinality({a}) = 1
      BY FS_Singleton
    <2> QED
      BY <2>2, <2>3, <2>4
  <1> QED
    BY <1>1 DEF AnsweredOnce, OneAnswer, OkIsFinal, DeferredInv, Life

LEMMA NothingBehindInv == DeferredInv => NothingBehindShutdown
  BY DEF DeferredInv, Behind, NothingBehindShutdown

LEMMA DeferredTypeInv == DeferredInv => DeferredTypeOK
  BY DEF DeferredInv, DeferredTypes, Bounded, Life, DeferredTypeOK
=============================================================================
