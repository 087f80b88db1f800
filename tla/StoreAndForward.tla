--------------------------- MODULE StoreAndForward ---------------------------
(***************************************************************************)
(* What a stream of edgestreamlog promises its producers and its sink,     *)
(* without files, cursor, checkpoint, batches or threads: a record that    *)
(* was accepted stays due until the sink stored it, or it was dropped or   *)
(* given up, through every restart of the process.                         *)
(***************************************************************************)
EXTENDS Naturals

CONSTANTS
    Records,   \* records, in the order they are submitted
    InOrder,   \* the sink stores what it is sent as a whole, or nothing of it
    MayDrop,   \* the oldest records give way to new ones
    MayGiveUp  \* sending is not tried for ever

VARIABLES
    store_type, \* "disk", or "memory"
    running,    \* the process is up
    accepted,   \* records whose append returned Ok
    due,        \* the ones among them that the stream has, and will send
    sent,       \* stored by the sink
    dropped,    \* gave way to new ones
    given_up    \* no longer tried

vars == <<store_type, running, accepted, due, sent, dropped, given_up>>

Init ==
    /\ store_type \in {"disk", "memory"}
    /\ running = TRUE
    /\ accepted = {}
    /\ due = {}
    /\ sent = {}
    /\ dropped = {}
    /\ given_up = {}

Out == sent \union dropped \union given_up

(* Producers are told Ok, in the order of submission.  All of it is due,   *)
(* but for what is out already: a record may be sent before that.          *)
Accept(ids) ==
    /\ running
    /\ accepted' = accepted \union ids
    /\ \A a \in ids, b \in accepted : b < a
    /\ UNCHANGED <<store_type, running, sent, dropped, given_up>>
    /\ \E early \in SUBSET (ids \intersect Out) : due' = due \union (ids \ early)

(* The sink stores records.  Nothing due is overtaken, and what is settled *)
(* is not sent again, unless it was dropped while it was on its way.       *)
Send(ids) ==
    /\ running
    /\ sent' = sent \union ids
    /\ UNCHANGED <<store_type, running, accepted, dropped, given_up>>
    /\ ids \intersect accepted \subseteq due \union dropped
    /\ InOrder => \A a \in ids, b \in due : b < a => b \in ids \union Out
    /\ UNCHANGED due

GiveUp(ids) ==
    /\ running
    /\ MayGiveUp
    /\ given_up' = given_up \union ids
    /\ UNCHANGED <<store_type, running, accepted, due, sent, dropped>>

(* What is out is settled, and only that. *)
Settle(ids) ==
    /\ running
    /\ ids \subseteq Out
    /\ UNCHANGED <<store_type, running, accepted, sent, dropped, given_up>>
    /\ due' = due \ ids

(* The oldest records give way. *)
Drop(ids) ==
    /\ running
    /\ MayDrop
    /\ dropped' = dropped \union ids
    /\ UNCHANGED <<store_type, running, accepted, sent, given_up>>
    /\ due' = due \ ids
    /\ \A a \in ids, b \in due' : a < b

(* The process ends.  On disk, everything due remains, and what was        *)
(* settled but for a drop may be due again; in memory, nothing remains.    *)
Stop ==
    /\ running
    /\ running' = FALSE
    /\ \/ /\ store_type = "disk"
          /\ due \subseteq due'
          /\ due' \ due \subseteq (accepted \intersect (sent \union given_up)) \ dropped
          /\ UNCHANGED accepted
       \/ /\ store_type = "memory"
          /\ accepted' = {}
          /\ due' = {}
    /\ UNCHANGED <<store_type, sent, dropped, given_up>>

Start ==
    /\ ~running
    /\ running' = TRUE
    /\ UNCHANGED <<store_type, accepted, due, sent, dropped, given_up>>

Next ==
    \/ Stop \/ Start
    \/ \E ids \in SUBSET Records :
          Accept(ids) \/ Send(ids) \/ GiveUp(ids) \/ Settle(ids) \/ Drop(ids)

Spec == Init /\ [][Next]_vars
=============================================================================
