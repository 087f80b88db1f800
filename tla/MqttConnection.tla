--------------------------- MODULE MqttConnection ---------------------------
(***************************************************************************)
(* One broker connection of the Rust library (messaging/provider/mqtt.rs)  *)
(* and the request/reply on top of it (messaging/service.rs): callers that *)
(* subscribe, publish with confirmation, or send a request; the publish    *)
(* funnel; the task that drives the event loop of the MQTT client.         *)
(*                                                                         *)
(* The MQTT client and the broker are external.  The client takes requests *)
(* from a bounded channel in order and gives its QoS 1 publishes a free    *)
(* packet id each.  The session is clean: with the connection the broker   *)
(* forgets the subscriptions, and the client the publishes that are not    *)
(* acknowledged and the requests it finds in the channel.                  *)
(* The wire is ordered and breaks at any point.                            *)
(*                                                                         *)
(* A caller makes one call and names its filter, its reply topic and its   *)
(* message: filters are distinct, and reply topics are fresh.              *)
(***************************************************************************)
EXTENDS Integers, SequencesExt

CONSTANTS
    Subscribers,    \* callers of subscribe_acknowledged
    Confirmers,     \* callers of publish_confirmed
    Requesters,     \* callers of request
    ChannelCap,     \* EVENTLOOP_CAP
    MaxInflight,    \* packet ids of the client: it takes no request while all are used
    MaxTracked,     \* MAX_TRACKED_PUBLISHES
    RequestQos,     \* QoS of ordinary publishes: 0 or 1
    Rejects,        \* callers whose filter the broker refuses
    Timeouts,       \* callers whose deadline may pass
    Cancellers,     \* callers that may give up their call
    MaxReplies,     \* model bound: replies sent to one request
    MaxDisconnects  \* model bound: connections lost

Callers == Subscribers \union Confirmers \union Requesters

ASSUME MqttConnectionAssumption ==
    /\ Subscribers \intersect (Confirmers \union Requesters) = {}
    /\ Confirmers \intersect Requesters = {}
    /\ {ChannelCap, MaxInflight, MaxTracked} \subseteq Nat \ {0}
    /\ RequestQos \in {0, 1}
    /\ Rejects \union Timeouts \union Cancellers \subseteq Callers
    /\ {MaxReplies, MaxDisconnects} \subseteq Nat

VARIABLES
    pc,        \* where each caller is in its call
    outcome,   \* what its call returned, or will return after its cleanup
    registry,  \* filters with a routing entry
    mailbox,   \* requesters whose reply queue, of one place, is taken
    pending_subacks,   \* FIFO of callers that wait for a SUBACK
    answer,    \* what the waiter of a caller was handed
    publish_queue,     \* commands to the publish funnel
    funnel,    \* the command in the hands of the funnel
    awaiting_outgoing, \* markers of publishes not yet on the wire
    inflight,  \* markers by packet id
    confirming,\* markers that still hold a confirmation sender
    confirmed, \* confirmation senders that sent Ok, and those that sent Err
    failed,
    loop,      \* the event-loop task
    connected  \* the watch that connected() reads

(* The MQTT client, the wire and the broker. *)
VARIABLES
    channel,   \* requests of the client
    unacked,   \* publishes sent and not acknowledged, by packet id
    broken,    \* the wire is cut, and nobody noticed yet
    incoming,  \* packets on their way to the client
    bsubs,     \* subscriptions of the session
    stored,    \* messages the broker took
    replies,   \* replies sent to each requester
    disconnects

(* History. *)
VARIABLES
    granted,   \* callers whose own SUBSCRIBE the broker acknowledged
    shifted,   \* the FIFO of waiters no longer lines up with the SUBACKs
    leaky,     \* filters left to the broker: released while the loop was about
               \* to subscribe them again, or abandoned before their UNSUBSCRIBE
    lapsed     \* a connection was lost with publishes that had left the funnel

subs == <<registry, pending_subacks, answer>>
tracker == <<awaiting_outgoing, inflight, confirming, confirmed, failed>>
client == <<channel, unacked>>
wire == <<broken, incoming, bsubs, stored, replies, disconnects>>
history == <<granted, shifted, leaky, lapsed>>
vars == <<pc, outcome, subs, mailbox, publish_queue, funnel, tracker, loop,
          connected, client, wire, history>>

None == "none"
Polling == [pc |-> "poll", todo |-> <<>>]

Init ==
    /\ pc = [c \in Callers |-> "idle"]
    /\ outcome = [c \in Callers |-> None]
    /\ registry = {}
    /\ mailbox = {}
    /\ pending_subacks = <<>>
    /\ answer = [c \in Callers |-> None]
    /\ publish_queue = <<>>
    /\ funnel = [pc |-> "recv", who |-> None]
    /\ awaiting_outgoing = <<>>
    /\ inflight = <<>>
    /\ confirming = {}
    /\ confirmed = {}
    /\ failed = {}
    /\ loop = Polling
    /\ connected = TRUE
    /\ channel = <<>>
    /\ unacked = <<>>
    /\ broken = FALSE
    /\ incoming = <<>>
    /\ bsubs = {}
    /\ stored = {}
    /\ replies = [c \in Requesters |-> 0]
    /\ disconnects = 0
    /\ granted = {}
    /\ shifted = FALSE
    /\ leaky = {}
    /\ lapsed = FALSE

Goto(c, at) == pc' = [pc EXCEPT ![c] = at]
Returns(c, what) == outcome' = [outcome EXCEPT ![c] = what]

(* AsyncClient::subscribe, unsubscribe, publish: wait for room in the      *)
(* channel.                                                                *)
Send(op, c) ==
    /\ Len(channel) < ChannelCap
    /\ channel' = Append(channel, [op |-> op, who |-> c])
    /\ UNCHANGED unacked

-----------------------------------------------------------------------------
(* subscribe_with_acknowledgement: a routing entry, a waiter at the end of *)
(* the FIFO, the SUBSCRIBE, and the wait for the SUBACK.                   *)
SubscribeRegister(c) ==
    /\ c \in Subscribers \union Requesters
    /\ pc[c] = "idle"
    /\ Goto(c, "subscribe")
    /\ registry' = registry \union {c}
    /\ pending_subacks' = Append(pending_subacks, c)
    /\ UNCHANGED <<outcome, answer, mailbox, publish_queue, funnel, tracker,
                   loop, connected, client, wire, history>>

(* A waiter ahead of c whose SUBSCRIBE is not sent yet, or never will be. *)
Overtakes(c) == \E i, j \in DOMAIN pending_subacks :
    /\ i < j
    /\ pending_subacks[j] = c
    /\ pc[pending_subacks[i]] \in {"subscribe", "guards"}

SubscribeSend(c) ==
    /\ pc[c] = "subscribe"
    /\ Send("sub", c)
    /\ Goto(c, "suback")
    /\ shifted' = (shifted \/ Overtakes(c))
    /\ UNCHANGED <<outcome, subs, mailbox, publish_queue, funnel, tracker,
                   loop, connected, wire, granted, leaky,
                   lapsed>>

SubscribeAcknowledged(c) ==
    /\ pc[c] = "suback"
    /\ answer[c] = "ok"
    /\ IF c \in Requesters
       THEN Goto(c, "publish") /\ UNCHANGED outcome
       ELSE Goto(c, "done") /\ Returns(c, "ok")
    /\ UNCHANGED <<subs, mailbox, publish_queue, funnel, tracker, loop,
                   connected, client, wire, history>>

SubscribeFails(c) ==
    /\ pc[c] = "suback"
    /\ \/ answer[c] = "err"
       \/ answer[c] = None /\ c \in Timeouts
    /\ Goto(c, "unsubscribe")
    /\ Returns(c, "err")
    /\ UNCHANGED <<subs, mailbox, publish_queue, funnel, tracker, loop,
                   connected, client, wire, history>>

(* The caller drops the future of its call at an await, before its         *)
(* supervisor runs: the guards run, and no UNSUBSCRIBE is sent.            *)
Abandon(c) ==
    /\ \/ pc[c] \in {"subscribe", "suback"}
       \/ pc[c] = "unsubscribe" /\ c \in registry
       \/ c \in Requesters /\ pc[c] \in {"publish", "submitted"}
    /\ c \in Cancellers
    /\ Goto(c, "guards")
    /\ Returns(c, "cancelled")
    /\ leaky' = leaky \union {c}
    /\ UNCHANGED <<subs, mailbox, publish_queue, funnel, tracker, loop,
                   connected, client, wire, granted, shifted,
                   lapsed>>

(* The UNSUBSCRIBE of a failed subscribe, or of a request that is over. *)
Unsubscribe(c) ==
    /\ pc[c] = "unsubscribe"
    /\ Send("unsub", c)
    /\ Goto(c, IF c \in registry THEN "guards" ELSE "done")
    /\ leaky' = IF Contains(loop.todo, c) THEN leaky \union {c} ELSE leaky
    /\ UNCHANGED <<outcome, subs, mailbox, publish_queue, funnel, tracker,
                   loop, connected, wire, granted, shifted,
                   lapsed>>

(* The guards of a failed subscribe take back its waiter and its entry. *)
DropGuards(c) ==
    /\ pc[c] = "guards"
    /\ registry' = registry \ {c}
    /\ pending_subacks' = RemoveFirst(pending_subacks, c)
    /\ Goto(c, "done")
    /\ shifted' = (shifted \/ Contains(pending_subacks, c))
    /\ UNCHANGED <<outcome, answer, mailbox, publish_queue, funnel, tracker,
                   loop, connected, client, wire, granted, leaky,
                   lapsed>>

-----------------------------------------------------------------------------
(* publish and publish_confirmed: a command to the funnel. *)
Submit(c) ==
    /\ \/ c \in Requesters /\ pc[c] = "publish"
       \/ c \in Confirmers /\ pc[c] = "idle" /\ connected
    /\ publish_queue' = Append(publish_queue, c)
    /\ Goto(c, "submitted")
    /\ UNCHANGED <<outcome, subs, mailbox, funnel, tracker, loop, connected,
                   client, wire, history>>

ConfirmDisconnected(c) ==
    /\ c \in Confirmers
    /\ pc[c] = "idle"
    /\ ~connected
    /\ Goto(c, "done")
    /\ Returns(c, "err")
    /\ UNCHANGED <<subs, mailbox, publish_queue, funnel, tracker, loop,
                   connected, client, wire, history>>

Submitted(c) == ~Contains(publish_queue, c) /\ funnel.who # c

(* The wait for the PUBACK, within the timeout. *)
ConfirmReturns(c) ==
    /\ c \in Confirmers
    /\ pc[c] = "submitted"
    /\ \/ c \in confirmed /\ Submitted(c) /\ Returns(c, "ok")
       \/ c \in failed /\ Submitted(c) /\ Returns(c, "err")
       \/ c \in Timeouts /\ Returns(c, "err")
    /\ Goto(c, "done")
    /\ UNCHANGED <<subs, mailbox, publish_queue, funnel, tracker, loop,
                   connected, client, wire, history>>

(* The publish task: one command after the other gets its marker, waits    *)
(* for a place in the tracker (a permit of publish_space is never lost),   *)
(* and goes to the client.                                                 *)
FunnelTake ==
    /\ funnel.pc = "recv"
    /\ publish_queue # <<>>
    /\ funnel' = [pc |-> "register", who |-> Head(publish_queue)]
    /\ publish_queue' = Tail(publish_queue)
    /\ UNCHANGED <<pc, outcome, subs, mailbox, tracker, loop, connected,
                   client, wire, history>>

FunnelRegister ==
    /\ funnel.pc = "register"
    /\ Len(awaiting_outgoing) + Cardinality(DOMAIN inflight) < MaxTracked
    /\ awaiting_outgoing' = Append(awaiting_outgoing, funnel.who)
    /\ confirming' = confirming \union ({funnel.who} \intersect Confirmers)
    /\ funnel' = [funnel EXCEPT !.pc = "send"]
    /\ UNCHANGED <<pc, outcome, subs, mailbox, publish_queue, inflight,
                   confirmed, failed, loop, connected, client, wire, history>>

FunnelSend ==
    /\ funnel.pc = "send"
    /\ Send("pub", funnel.who)
    /\ funnel' = [pc |-> "recv", who |-> None]
    /\ UNCHANGED <<pc, outcome, subs, mailbox, publish_queue, tracker, loop,
                   connected, wire, history>>

-----------------------------------------------------------------------------
(* The supervisor of a request (start_request): the first of reply,        *)
(* deadline and cancel decides; then the entry, the UNSUBSCRIBE, and the   *)
(* outcome.                                                                *)
Supervise(c) ==
    /\ c \in Requesters
    /\ pc[c] = "submitted"
    /\ Submitted(c)
    /\ Goto(c, "wait")
    /\ UNCHANGED <<outcome, subs, mailbox, publish_queue, funnel, tracker,
                   loop, connected, client, wire, history>>

Decide(c, what) ==
    /\ pc[c] = "wait"
    /\ Returns(c, what)
    /\ Goto(c, "release")
    /\ UNCHANGED <<subs, mailbox, publish_queue, funnel, tracker, loop,
                   connected, client, wire, history>>

Replied(c) == c \in mailbox /\ Decide(c, "reply")
Expired(c) == c \in Timeouts /\ Decide(c, "timeout")
Cancelled(c) == c \in Cancellers /\ Decide(c, "cancelled")

(* Mutant: a request that got its reply does not unsubscribe. *)
AfterRelease_Reply(c) == IF outcome[c] = "reply" THEN "done" ELSE "unsubscribe"

AfterRelease(c) == "unsubscribe"

Release(c) ==
    /\ pc[c] = "release"
    /\ registry' = registry \ {c}
    /\ Goto(c, AfterRelease(c))
    /\ UNCHANGED <<outcome, pending_subacks, answer, mailbox, publish_queue,
                   funnel, tracker, loop, connected, client, wire, history>>

-----------------------------------------------------------------------------
(* PublishTracking. *)
QosOf(c) == IF c \in Confirmers THEN 1 ELSE RequestQos

Retransmitted(pkid) == pkid # 0 /\ pkid \in DOMAIN inflight

(* A table of packet ids with one more entry. *)
Filed(table, pkid, c) ==
    [p \in DOMAIN table \union {pkid} |-> IF p = pkid THEN c ELSE table[p]]

(* The marker at the front belongs to the publish on the wire, or so it    *)
(* should; it is filed only if its QoS goes with the packet id.            *)
ObserveOutgoing(pkid) ==
    LET c == Head(awaiting_outgoing) IN
    IF Retransmitted(pkid) \/ awaiting_outgoing = <<>>
    THEN UNCHANGED tracker
    ELSE /\ awaiting_outgoing' = Tail(awaiting_outgoing)
         /\ IF pkid # 0 /\ QosOf(c) = 1
            THEN inflight' = Filed(inflight, pkid, c) /\ UNCHANGED <<confirming, failed>>
            ELSE /\ failed' = failed \union ({c} \intersect confirming)
                 /\ confirming' = confirming \ {c}
                 /\ UNCHANGED inflight
         /\ UNCHANGED confirmed

(* Mutant: the marker stays after its PUBACK. *)
InflightWithout_Keep(pkid) == inflight

InflightWithout(pkid) == Restrict(inflight, DOMAIN inflight \ {pkid})

ObservePuback(pkid) ==
    IF pkid \notin DOMAIN inflight
    THEN UNCHANGED tracker
    ELSE /\ confirmed' = confirmed \union ({inflight[pkid]} \intersect confirming)
         /\ confirming' = confirming \ {inflight[pkid]}
         /\ inflight' = InflightWithout(pkid)
         /\ UNCHANGED <<awaiting_outgoing, failed>>

(* Mutant: a lost connection leaves the waiters as they are. *)
FailConfirmations_Not == UNCHANGED tracker

FailConfirmations ==
    /\ failed' = failed \union confirming
    /\ confirming' = {}
    /\ UNCHANGED <<awaiting_outgoing, inflight, confirmed>>

-----------------------------------------------------------------------------
(* What the client writes reaches the broker unless the wire is cut; the   *)
(* broker answers SUBSCRIBE and QoS 1 PUBLISH.                             *)
Reaches(packets, subscribed, took) ==
    /\ IF broken
       THEN UNCHANGED <<incoming, bsubs, stored, granted>>
       ELSE /\ incoming' = incoming \o packets
            /\ bsubs' = subscribed
            /\ stored' = stored \union took
            /\ granted' = granted \union (subscribed \ bsubs)
    /\ UNCHANGED <<broken, replies, disconnects>>

Suback(c) == [op |-> "suback", who |-> c, pkid |-> 0]
Puback(pkid) == [op |-> "puback", who |-> None, pkid |-> pkid]
Reply(c) == [op |-> "publish", who |-> c, pkid |-> 0]

Polls == loop.pc = "poll"

(* The next request of the channel. *)
Writes(op) ==
    /\ Polls
    /\ channel # <<>>
    /\ Head(channel).op = op
    /\ Cardinality(DOMAIN unacked) < MaxInflight
    /\ channel' = Tail(channel)
    /\ UNCHANGED <<pc, outcome, subs, mailbox, publish_queue, funnel, loop,
                   connected, shifted, leaky, lapsed>>

LoopSubscribe ==
    /\ Writes("sub")
    /\ LET c == Head(channel).who IN
       Reaches(<<Suback(c)>>, bsubs \union ({c} \ Rejects), {})
    /\ UNCHANGED <<tracker, unacked>>

LoopUnsubscribe ==
    /\ Writes("unsub")
    /\ Reaches(<<>>, bsubs \ {Head(channel).who}, {})
    /\ UNCHANGED <<tracker, unacked>>

LoopPublish ==
    /\ Writes("pub")
    /\ LET c == Head(channel).who
           pkids == IF QosOf(c) = 0 THEN {0} ELSE (1..MaxInflight) \ DOMAIN unacked
       IN \E pkid \in pkids :
          /\ ObserveOutgoing(pkid)
          /\ unacked' = IF pkid = 0 THEN unacked ELSE Filed(unacked, pkid, c)
          /\ Reaches(IF pkid = 0 THEN <<>> ELSE <<Puback(pkid)>>, bsubs, {c})

Reads(op) ==
    /\ Polls
    /\ incoming # <<>>
    /\ Head(incoming).op = op
    /\ incoming' = Tail(incoming)
    /\ UNCHANGED <<pc, outcome, registry, publish_queue, funnel, loop,
                   connected, channel, broken, bsubs, stored, replies,
                   disconnects, history>>

(* Mutant: the return codes of a SUBACK are not looked at. *)
Accepted_Always(c) == TRUE

Accepted(c) == c \notin Rejects

(* A SUBACK wakes the waiter at the front, whoever it is. *)
LoopSuback ==
    /\ Reads("suback")
    /\ IF pending_subacks = <<>>
       THEN UNCHANGED <<pending_subacks, answer>>
       ELSE /\ pending_subacks' = Tail(pending_subacks)
            /\ answer' = [answer EXCEPT ![Head(pending_subacks)] =
                   IF Accepted(Head(incoming).who) THEN "ok" ELSE "err"]
    /\ UNCHANGED <<mailbox, tracker, unacked>>

LoopPuback ==
    /\ Reads("puback")
    /\ ObservePuback(Head(incoming).pkid)
    /\ unacked' = Restrict(unacked, DOMAIN unacked \ {Head(incoming).pkid})
    /\ UNCHANGED <<mailbox, pending_subacks, answer>>

(* A reply goes to the reply queue; one too many is dropped. *)
LoopReply ==
    /\ Reads("publish")
    /\ mailbox' = mailbox \union ({Head(incoming).who} \intersect registry)
    /\ UNCHANGED <<pending_subacks, answer, tracker, unacked>>

(* The confirmations fail, and the markers stay. *)
LoopError ==
    /\ Polls
    /\ broken
    /\ loop' = [pc |-> "down", todo |-> <<>>]
    /\ connected' = FALSE
    /\ FailConfirmations
    /\ broken' = FALSE
    /\ incoming' = <<>>
    /\ bsubs' = {}
    /\ channel' = <<>>
    /\ unacked' = <<>>
    /\ lapsed' = (lapsed \/ unacked # <<>> \/ \E i \in DOMAIN channel : channel[i].op = "pub")
    /\ UNCHANGED <<pc, outcome, subs, mailbox, publish_queue, funnel, stored,
                   replies, disconnects, granted, shifted, leaky>>

(* An attempt to connect again fails. *)
LoopRetry ==
    /\ loop.pc = "down"
    /\ FailConfirmations
    /\ UNCHANGED <<pc, outcome, subs, mailbox, publish_queue, funnel, loop,
                   connected, client, wire, history>>

(* Mutant: nothing is subscribed again. *)
ToResubscribe_Nothing == {}

ToResubscribe == registry

(* CONNACK: the filters as they are now, subscribed again one by one       *)
(* through the channel that only this task empties.                        *)
LoopConnack ==
    /\ loop.pc = "down"
    /\ \E todo \in SetToSeqs(ToResubscribe) :
          loop' = [pc |-> "resubscribe", todo |-> todo]
    /\ shifted' = (shifted \/ registry # {})
    /\ leaky' = leaky \union {c \in registry : pc[c] = "guards"}
    /\ UNCHANGED <<pc, outcome, subs, mailbox, publish_queue, funnel, tracker,
                   connected, client, wire, granted, lapsed>>

LoopResubscribe ==
    /\ loop.pc = "resubscribe"
    /\ loop.todo # <<>>
    /\ Send("sub", Head(loop.todo))
    /\ loop' = [loop EXCEPT !.todo = Tail(@)]
    /\ UNCHANGED <<pc, outcome, subs, mailbox, publish_queue, funnel, tracker,
                   connected, wire, history>>

LoopReady ==
    /\ loop.pc = "resubscribe"
    /\ loop.todo = <<>>
    /\ loop' = Polling
    /\ connected' = TRUE
    /\ UNCHANGED <<pc, outcome, subs, mailbox, publish_queue, funnel, tracker,
                   client, wire, history>>

-----------------------------------------------------------------------------
WireBreaks ==
    /\ ~broken
    /\ Polls
    /\ disconnects < MaxDisconnects
    /\ broken' = TRUE
    /\ disconnects' = disconnects + 1
    /\ UNCHANGED <<pc, outcome, subs, mailbox, publish_queue, funnel, tracker,
                   loop, connected, client, incoming, bsubs, stored, replies,
                   history>>

Respond(c) ==
    /\ c \in stored \intersect bsubs
    /\ ~broken
    /\ replies[c] < MaxReplies
    /\ replies' = [replies EXCEPT ![c] = @ + 1]
    /\ incoming' = Append(incoming, Reply(c))
    /\ UNCHANGED <<pc, outcome, subs, mailbox, publish_queue, funnel, tracker,
                   loop, connected, client, broken, bsubs, stored, disconnects,
                   history>>

(* Every call has returned. *)
Finished ==
    /\ \A c \in Callers : pc[c] = "done"
    /\ UNCHANGED vars

CallerStep(c) ==
    \/ SubscribeSend(c)
    \/ SubscribeAcknowledged(c)
    \/ SubscribeFails(c)
    \/ Unsubscribe(c)
    \/ DropGuards(c)
    \/ pc[c] = "publish" /\ Submit(c)
    \/ ConfirmReturns(c)
    \/ Supervise(c)
    \/ Replied(c)
    \/ Expired(c)
    \/ Release(c)

BeginCall(c) ==
    \/ SubscribeRegister(c)
    \/ pc[c] = "idle" /\ Submit(c)
    \/ ConfirmDisconnected(c)

Funnel == FunnelTake \/ FunnelRegister \/ FunnelSend

LoopRead == LoopSuback \/ LoopPuback \/ LoopReply
LoopWrite == LoopSubscribe \/ LoopUnsubscribe \/ LoopPublish
LoopConnect == LoopConnack \/ LoopResubscribe \/ LoopReady

Next ==
    \/ \E c \in Callers : BeginCall(c) \/ CallerStep(c) \/ Cancelled(c) \/ Abandon(c)
    \/ Funnel
    \/ LoopRead
    \/ LoopWrite
    \/ LoopError
    \/ LoopRetry
    \/ LoopConnect
    \/ WireBreaks
    \/ \E c \in Requesters : Respond(c)
    \/ Finished

Spec == Init /\ [][Next]_vars

(* Threads run, timers fire, and a broken connection is noticed and comes  *)
(* back.                                                                   *)
Fairness ==
    /\ \A c \in Callers : WF_vars(CallerStep(c))
    /\ WF_vars(Funnel)
    /\ WF_vars(LoopRead)
    /\ WF_vars(LoopWrite)
    /\ WF_vars(LoopError)
    /\ WF_vars(LoopConnect)

FairSpec == Spec /\ Fairness

-----------------------------------------------------------------------------
(* Nothing is on its way in either direction. *)
Quiet ==
    /\ Polls /\ ~broken
    /\ channel = <<>> /\ incoming = <<>>

Publishes(requests) == {k \in DOMAIN requests : requests[k].op = "pub"}

(* The markers from lo + 1 to hi are those of these publishes, one for one *)
(* and in the same order.                                                  *)
LinedUp(requests, markers, lo, hi) ==
    \E at \in [lo + 1 .. hi -> Publishes(requests)] :
        /\ \A i, j \in lo + 1 .. hi : i < j => at[i] < at[j]
        /\ \A i \in lo + 1 .. hi : markers[i] = requests[at[i]].who
        /\ \A k \in Publishes(requests) : \E i \in lo + 1 .. hi : at[i] = k

(* The markers line up with the wire: behind some that a lost connection   *)
(* left, those of the publishes in the channel and the one in the hands of *)
(* the funnel, so that none is taken by a publish before its own; and      *)
(* until a connection is lost with publishes on their way, there are no    *)
(* others, and those in flight are filed as the client has them.           *)
MarkersAligned ==
    LET n == Len(awaiting_outgoing)
        sent == IF funnel.pc = "send" THEN n - 1 ELSE n
    IN /\ funnel.pc = "send" => n > 0 /\ awaiting_outgoing[n] = funnel.who
       /\ \E left \in 0..sent :
              /\ LinedUp(channel, awaiting_outgoing, left, sent)
              /\ ~lapsed => left = 0
       /\ ~lapsed => inflight = unacked

(* Types, the bound of the tracker, and its markers. *)
TypeOK ==
    /\ pc \in [Callers -> {"idle", "subscribe", "suback", "unsubscribe",
                           "guards", "publish", "submitted", "wait",
                           "release", "done"}]
    /\ outcome \in [Callers -> {None, "ok", "err", "reply", "timeout",
                                "cancelled"}]
    /\ registry \subseteq Subscribers \union Requesters
    /\ mailbox \subseteq Requesters
    /\ \A i \in DOMAIN pending_subacks : pending_subacks[i] \in registry
    /\ answer \in [Callers -> {None, "ok", "err"}]
    /\ Len(channel) <= ChannelCap
    /\ Len(awaiting_outgoing) + Cardinality(DOMAIN inflight) <= MaxTracked
    /\ confirming \union confirmed \union failed \subseteq Confirmers
    /\ MarkersAligned

(* A publish is reported as confirmed only if the broker took this very    *)
(* message, whatever was lost, and whatever markers an earlier connection  *)
(* left in front of its own (publish_confirmed, PublishTracking).          *)
ConfirmedIsStored == \A c \in Confirmers : outcome[c] = "ok" => c \in stored

(* A subscribe that returned success is active at the broker, unless the   *)
(* FIFO was shifted before: by a waiter that gave up, by two that          *)
(* overtook each other, or by subscriptions made again after a reconnect.  *)
AckedIsGranted == \A c \in Callers :
    answer[c] = "ok" /\ ~shifted => c \in granted

(* Subscriptions survive reconnects: when the connection is quiet, the     *)
(* broker has every filter with a routing entry that it accepts and whose  *)
(* SUBSCRIBE was sent.                                                     *)
RegisteredIsSubscribed == Quiet =>
    \A c \in registry \ Rejects : pc[c] \in {"subscribe", "guards"} \/ c \in bsubs

(* A request that is over left nothing behind, whichever way it ended: no  *)
(* entry, no waiter, and its UNSUBSCRIBE is on the way.                    *)
ReleasedWhenDone == \A c \in Requesters : pc[c] = "done" =>
    c \notin registry /\ ~Contains(pending_subacks, c)

(* No reply subscription is orphaned: when the connection is quiet, the    *)
(* broker holds subscriptions with a routing entry only, but for those     *)
(* abandoned before their UNSUBSCRIBE, and those released while the loop   *)
(* was about to subscribe them again; and at the client a request that is  *)
(* over left nothing at any time.                                          *)
NoOrphan ==
    /\ Quiet => \A c \in bsubs : c \in registry \/ c \in leaky \/ pc[c] = "unsubscribe"
    /\ ReleasedWhenDone

(* After every CONNACK the task subscribes all registered filters again    *)
(* and goes back to its event loop, so that subscriptions survive          *)
(* reconnects.                                                             *)
Reconnects == loop.pc # "poll" ~> loop.pc = "poll"

(* Only the matching PUBACK settles a waiter: a marker that still has one  *)
(* is filed under the packet id of its own publish ("a reconnect cannot    *)
(* shift a later PUBACK onto the wrong waiter").  It holds until a         *)
(* connection is lost with publishes on their way.                         *)
OwnPuback == \A p \in DOMAIN inflight \intersect DOMAIN unacked :
    inflight[p] \in confirming => unacked[p] = inflight[p]

(* The funnel never waits for ever for a place in the tracker, whose       *)
(* markers leave with their PUBACK; those of lost publishes do not.        *)
FunnelMoves == funnel.pc = "register" ~> funnel.pc # "register"
=============================================================================
