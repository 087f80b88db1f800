--------------------------- MODULE DeferredReply ---------------------------
(***************************************************************************)
(* The deferred replies of the command inbox (commands/deferred.rs) and    *)
(* the dispatch of one request to its handler (dispatch, accept_deferred_  *)
(* token and start_post_accept_continuation of commands.rs).               *)
(*                                                                         *)
(* A handler answers at once, or retains the request in the registry and   *)
(* returns a token; whoever holds the token settles it later, with retries *)
(* until the broker confirms.  Expiry, shutdown and settlement compete for *)
(* the state of an entry by compare-and-set.                               *)
(*                                                                         *)
(* Every request here has a reply_to; the module has no Init or Next of    *)
(* its own for the lifecycle that delivers requests: see CommandInbox.     *)
(***************************************************************************)
EXTENDS Integers, Sequences, FiniteSets

CONSTANTS
    Requests,
    Capacity,       \* DEFERRED_REPLY_CAPACITY
    Continuations,  \* POST_ACCEPT_CONTINUATION_CAPACITY
    MaxAttempts     \* model bound: confirmed replies attempted by a settlement

ASSUME DeferredReplyAssumption ==
    {Capacity, Continuations, MaxAttempts} \subseteq Nat \ {0}

VARIABLES
    handler,      \* where the dispatch of each request is
    form,         \* outcome it will return: a token alone, or a continuation too
    entry,        \* state of its entry, also after the registry forgot it
    kept,         \* entries in the registry
    late,         \* entries whose lifetime is over
    settle,       \* the settlement that moved the entry to SETTLING
    by,           \* who settles: a task of its own, or the continuation
    attempts,
    arrived,      \* settlements whose reply in flight reached the requester
    continuation, \* post-accept continuations
    stopping,     \* shutdown_deferred
    replies       \* replies each requester got, repetitions aside

(* History: requests whose token was used before the dispatcher saw it. *)
VARIABLE early

registry == <<entry, kept, late>>
settlement == <<settle, by, attempts, arrived>>
deferredVars == <<handler, form, registry, settlement, continuation, stopping,
                  replies, early>>

Live == {"provisional", "open", "settling"}
Running == {r \in Requests : continuation[r] = "running"}

DeferredInit ==
    /\ handler = [r \in Requests |-> "none"]
    /\ form = [r \in Requests |-> "plain"]
    /\ entry = [r \in Requests |-> "none"]
    /\ kept = {}
    /\ late = {}
    /\ settle = [r \in Requests |-> "idle"]
    /\ by = [r \in Requests |-> "task"]
    /\ attempts = [r \in Requests |-> 0]
    /\ arrived = {}
    /\ continuation = [r \in Requests |-> "none"]
    /\ stopping = [pc |-> "no", todo |-> {}, at |-> {}]
    /\ replies = [r \in Requests |-> {}]
    /\ early = {}

ShuttingDown == stopping.pc \notin {"no", "notified"}

At(r, from, to) == handler[r] = from /\ handler' = [handler EXCEPT ![r] = to]
Becomes(r, state) == entry' = [entry EXCEPT ![r] = state]
Answered(r, what) == replies' = [replies EXCEPT ![r] = @ \union {what}]

-----------------------------------------------------------------------------
(* The handler.  Unknown verbs, refused addresses, immediate handlers and  *)
(* errors end in one reply.                                                *)
AnswerNow(r) ==
    /\ At(r, "running", "done")
    /\ Answered(r, "immediate")
    /\ UNCHANGED <<form, registry, settlement, continuation, stopping, early>>

(* Mutant: shutdown is not asked for again under the lock. *)
Admits_Stopping(r) == Cardinality(kept) < Capacity

Admits(r) == ~ShuttingDown /\ Cardinality(kept) < Capacity

Defer(r, f) ==
    /\ At(r, "running", "provisional")
    /\ Admits(r)
    /\ form' = [form EXCEPT ![r] = f]
    /\ Becomes(r, "provisional")
    /\ kept' = kept \union {r}
    /\ UNCHANGED <<late, settlement, continuation, stopping, replies, early>>

(* The application did not accept the work, or could not activate the      *)
(* token: discard it and return an error.                                  *)
DiscardAndFail(r) ==
    /\ At(r, "provisional", "done")
    /\ IF entry[r] = "provisional"
       THEN Becomes(r, "discarded") /\ kept' = kept \ {r}
       ELSE UNCHANGED <<entry, kept>>
    /\ Answered(r, "immediate")
    /\ UNCHANGED <<form, late, settlement, continuation, stopping, early>>

(* activate looks at the shutdown flag before its compare-and-set. *)
ActivateBegin(r) ==
    /\ At(r, "provisional", "activating")
    /\ ~ShuttingDown
    /\ UNCHANGED <<form, registry, settlement, continuation, stopping, replies,
                   early>>

Activate(r) ==
    /\ At(r, "activating", IF entry[r] = "provisional" THEN "active"
                           ELSE "provisional")
    /\ IF entry[r] = "provisional" THEN Becomes(r, "open") ELSE UNCHANGED entry
    /\ UNCHANGED <<form, kept, late, settlement, continuation, stopping,
                   replies, early>>

(* The outcome reaches the dispatcher, also that of a handler which forgot *)
(* to activate its token.                                                  *)
Return(r) ==
    /\ \/ At(r, "provisional", "returned")
       \/ At(r, "active", "returned")
    /\ UNCHANGED <<form, registry, settlement, continuation, stopping, replies,
                   early>>

Valid(r) == r \in kept /\ entry[r] = "open"

Accept(r) ==
    /\ At(r, "returned", "done")
    /\ Valid(r)
    /\ continuation' = [continuation EXCEPT ![r] =
           IF form[r] = "plain" THEN "none"
           ELSE IF Cardinality(Running) < Continuations THEN "running"
           ELSE "refused"]
    /\ UNCHANGED <<form, registry, settlement, stopping, replies, early>>

RejectOutcome(r) ==
    /\ At(r, "returned", "done")
    /\ ~Valid(r)
    /\ IF entry[r] = "provisional"
       THEN Becomes(r, "discarded") /\ kept' = kept \ {r}
       ELSE UNCHANGED <<entry, kept>>
    /\ Answered(r, "invalid")
    /\ UNCHANGED <<form, late, settlement, continuation, stopping, early>>

-----------------------------------------------------------------------------
(* Settlement.  The application may settle a plain token from the moment   *)
(* it is open; the continuation settles while it runs; a continuation that *)
(* failed or was refused is settled by a task of its own.                  *)
MaySettle(r, who) ==
    IF who = "continuation" THEN continuation[r] = "running"
    ELSE \/ form[r] = "plain" /\ handler[r] \in {"active", "returned", "done"}
         \/ continuation[r] \in {"refused", "failed"}

BeginSettle(r, who) ==
    /\ MaySettle(r, who)
    /\ r \in kept
    /\ entry[r] = "open"
    /\ settle[r] = "idle"
    /\ Becomes(r, "settling")
    /\ settle' = [settle EXCEPT ![r] = "loop"]
    /\ by' = [by EXCEPT ![r] = who]
    /\ early' = IF handler[r] = "done" THEN early ELSE early \union {r}
    /\ UNCHANGED <<handler, form, kept, late, attempts, arrived, continuation,
                   stopping, replies>>

SettleTo(r, to) == settle' = [settle EXCEPT ![r] = to]

(* One reply_confirmed; the reply may arrive although it is not confirmed. *)
Attempt(r) ==
    /\ settle[r] = "loop"
    /\ entry[r] = "settling"
    /\ r \notin late
    /\ attempts[r] < MaxAttempts
    /\ SettleTo(r, "sent")
    /\ attempts' = [attempts EXCEPT ![r] = @ + 1]
    /\ \/ arrived' = arrived \union {r} /\ Answered(r, "answer")
       \/ arrived' = arrived \ {r} /\ UNCHANGED replies
    /\ UNCHANGED <<handler, form, registry, by, continuation, stopping, early>>

Confirmed(r) ==
    /\ settle[r] = "sent"
    /\ r \in arrived
    /\ IF entry[r] = "settling"
       THEN Becomes(r, "settled") /\ SettleTo(r, "ok")
       ELSE UNCHANGED entry /\ SettleTo(r, "err")
    /\ UNCHANGED <<handler, form, kept, late, by, attempts, arrived,
                   continuation, stopping, replies, early>>

Unconfirmed(r) ==
    /\ settle[r] = "sent"
    /\ SettleTo(r, "loop")
    /\ UNCHANGED <<handler, form, registry, by, attempts, arrived,
                   continuation, stopping, replies, early>>

GiveUp(r) ==
    /\ settle[r] = "loop"
    /\ entry[r] # "settling"
    /\ SettleTo(r, "err")
    /\ UNCHANGED <<handler, form, registry, by, attempts, arrived,
                   continuation, stopping, replies, early>>

-----------------------------------------------------------------------------
(* Time. *)
Elapse(r) ==
    /\ r \in kept \ late
    /\ late' = late \union {r}
    /\ UNCHANGED <<handler, form, entry, kept, settlement, continuation,
                   stopping, replies, early>>

(* Mutant: an entry that is settled already is left alone. *)
Forgotten_Unsettled(r) == IF entry[r] \in Live THEN {r} ELSE {}

Forgotten(r) == {r}

(* expire, by the timer of the entry or by the settlement that finds its   *)
(* time over.                                                              *)
Expire(r) ==
    /\ r \in kept \intersect late
    /\ IF entry[r] \in Live THEN Becomes(r, "expired") ELSE UNCHANGED entry
    /\ kept' = kept \ Forgotten(r)
    /\ UNCHANGED <<handler, form, late, settlement, continuation, stopping,
                   replies, early>>

-----------------------------------------------------------------------------
(* Continuations. *)
ContinuationEnds(r) ==
    /\ continuation[r] = "running"
    /\ settle[r] # "loop" /\ settle[r] # "sent"
    /\ \E to \in {"ended", "failed"} :
          continuation' = [continuation EXCEPT ![r] = to]
    /\ UNCHANGED <<handler, form, registry, settlement, stopping, replies, early>>

(* Shutdown drops a continuation wherever it waits, its settlement too. *)
ContinuationDropped(r) ==
    /\ continuation[r] = "running"
    /\ stopping.pc # "no"
    /\ continuation' = [continuation EXCEPT ![r] = "dropped"]
    /\ IF settle[r] \in {"loop", "sent"} THEN SettleTo(r, "dropped")
       ELSE UNCHANGED settle
    /\ UNCHANGED <<handler, form, registry, by, attempts, arrived, stopping,
                   replies, early>>

-----------------------------------------------------------------------------
(* shutdown_deferred: wake the continuations, raise the flag, take a       *)
(* snapshot of the registry, and go through it.                            *)
Stops(from, to) == stopping.pc = from /\ stopping' = [stopping EXCEPT !.pc = to]

ShutdownFlag ==
    /\ \/ Stops("no", "notified")
       \/ Stops("notified", "flagged")
    /\ UNCHANGED <<handler, form, registry, settlement, continuation, replies,
                   early>>

ShutdownSnapshot ==
    /\ stopping.pc = "flagged"
    /\ stopping' = [pc |-> "entries", todo |-> kept, at |-> {}]
    /\ UNCHANGED <<handler, form, registry, settlement, continuation, replies,
                   early>>

(* Mutant: an entry that somebody is settling is taken over. *)
TakenOver_Settling == {"open", "settling"}

TakenOver == {"open"}

ShutdownEntry(r) ==
    /\ stopping.pc = "entries"
    /\ r \in stopping.todo
    /\ \/ /\ entry[r] = "provisional"
          /\ Becomes(r, "cancelled")
          /\ kept' = kept \ {r}
          /\ stopping' = [stopping EXCEPT !.todo = @ \ {r}]
          /\ UNCHANGED early
       \/ /\ entry[r] \in TakenOver
          /\ Becomes(r, "settling")
          /\ stopping' = [pc |-> IF r \in late THEN "close" ELSE "reply",
                          todo |-> stopping.todo \ {r}, at |-> {r}]
          /\ early' = IF handler[r] = "done" THEN early ELSE early \union {r}
          /\ UNCHANGED kept
       \/ /\ entry[r] \notin TakenOver \union {"provisional"}
          /\ stopping' = [stopping EXCEPT !.todo = @ \ {r}]
          /\ UNCHANGED <<entry, kept, early>>
    /\ UNCHANGED <<handler, form, late, settlement, continuation, replies>>

ShutdownReply(r) ==
    /\ r \in stopping.at
    /\ Stops("reply", "close")
    /\ Answered(r, "stopping") \/ UNCHANGED replies
    /\ UNCHANGED <<handler, form, registry, settlement, continuation, early>>

ShutdownClose(r) ==
    /\ r \in stopping.at
    /\ stopping.pc = "close"
    /\ stopping' = [stopping EXCEPT !.pc = "entries", !.at = {}]
    /\ Becomes(r, "cancelled")
    /\ kept' = kept \ {r}
    /\ UNCHANGED <<handler, form, late, settlement, continuation, replies, early>>

ShutdownDone ==
    /\ stopping.todo = {}
    /\ Stops("entries", "done")
    /\ UNCHANGED <<handler, form, registry, settlement, continuation, replies,
                   early>>

-----------------------------------------------------------------------------
HandlerStep(r) ==
    \/ AnswerNow(r)
    \/ \E f \in {"plain", "continuation"} : Defer(r, f)
    \/ DiscardAndFail(r)
    \/ ActivateBegin(r)
    \/ Activate(r)
    \/ Return(r)
    \/ Accept(r)
    \/ RejectOutcome(r)

SettleStep(r) ==
    \/ \E who \in {"task", "continuation"} : BeginSettle(r, who)
    \/ Attempt(r)
    \/ Confirmed(r)
    \/ Unconfirmed(r)
    \/ GiveUp(r)

ContinuationStep(r) == ContinuationEnds(r) \/ ContinuationDropped(r)

ShutdownStep ==
    \/ ShutdownFlag
    \/ ShutdownSnapshot
    \/ \E r \in Requests : ShutdownEntry(r) \/ ShutdownReply(r) \/ ShutdownClose(r)
    \/ ShutdownDone

DeferredNext ==
    \/ \E r \in Requests :
          HandlerStep(r) \/ SettleStep(r) \/ ContinuationStep(r) \/ Elapse(r) \/ Expire(r)
    \/ ShutdownStep

-----------------------------------------------------------------------------
DeferredTypeOK ==
    /\ entry \in [Requests -> Live \union {"none", "settled", "discarded",
                                          "expired", "cancelled"}]
    /\ kept \subseteq {r \in Requests : entry[r] \in Live \union {"settled"}}
    /\ Cardinality(kept) <= Capacity
    /\ Cardinality(Running) <= Continuations
    /\ \A r \in Requests : entry[r] = "settling" =>
           settle[r] \in {"loop", "sent", "dropped"} \/ r \in stopping.at

(* A request gets one answer: settlement, expiry, shutdown and the reply   *)
(* to an invalid outcome never answer it twice, unless its token was       *)
(* settled or cancelled before the dispatcher had accepted it.             *)
OneAnswer == \A r \in Requests : Cardinality(replies[r]) <= 1 \/ r \in early

(* A settlement that returned Ok is the answer, and stays so: the requester *)
(* has it, and neither expiry nor shutdown changes the entry afterwards.   *)
OkIsFinal == \A r \in Requests :
    settle[r] = "ok" => "answer" \in replies[r] /\ entry[r] = "settled"

(* Whoever answers first, there is one answer, and who was told that it is *)
(* his was told the truth.                                                 *)
AnsweredOnce == OneAnswer /\ OkIsFinal

(* Nothing slips behind the snapshot of a shutdown: when it is over, the   *)
(* registry holds only what is settled or somebody was settling.           *)
NothingBehindShutdown == stopping.pc = "done" =>
    \A r \in kept : entry[r] \in {"settling", "settled"}

(* The bounded registry gives every place back, also that of a settlement  *)
(* that was dropped.                                                       *)
RegistryDrains == \A r \in Requests : r \in kept ~> r \notin kept
=============================================================================
