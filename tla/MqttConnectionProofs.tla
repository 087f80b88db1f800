------------------------ MODULE MqttConnectionProofs ------------------------
(***************************************************************************)
(* Proofs about MqttConnection, for every number of callers, every size of *)
(* the channel and of the tracker, and any number of lost connections.     *)
(*                                                                         *)
(* Three inductive invariants rest on one another.  Basis has the types,   *)
(* the waiters of the FIFO, and the markers: those of the publishes in the *)
(* channel come behind those that lost connections left, and these have no *)
(* waiter, so that a PUBACK never confirms for a publish before its own.   *)
(* Subscribing follows every filter from its routing entry to the broker   *)
(* and back.  FifoInOrder says that, as long as nothing shifted it, the    *)
(* FIFO of waiters is in the order of the SUBACKs and of the SUBSCRIBEs on *)
(* their way.                                                              *)
(***************************************************************************)
EXTENDS MqttConnection, FiniteSetTheorems, TLAPS

USE DEF None

Filters == Subscribers \union Requesters
Publishers == Confirmers \union Requesters

Request == [op : {"sub", "unsub", "pub"}, who : Callers]
Packet ==
    [op : {"suback"}, who : Filters, pkid : {0}]
    \union [op : {"puback"}, who : {None}, pkid : Nat \ {0}]
    \union [op : {"publish"}, who : Requesters, pkid : {0}]

-----------------------------------------------------------------------------
(* Sequences and sets. *)

LEMMA TailIs ==
  ASSUME NEW S, NEW s \in Seq(S), s # <<>>
  PROVE  /\ Len(s) \in Nat \ {0} /\ 1 \in DOMAIN s /\ Head(s) = s[1] /\ s[1] \in S
         /\ Tail(s) \in Seq(S) /\ Len(Tail(s)) = Len(s) - 1
         /\ \A i \in 1..Len(s) - 1 : Tail(s)[i] = s[i + 1]
  OBVIOUS

LEMMA AppendIs ==
  ASSUME NEW S, NEW s \in Seq(S), NEW x \in S
  PROVE  /\ Append(s, x) \in Seq(S) /\ Len(Append(s, x)) = Len(s) + 1
         /\ \A i \in 1..Len(s) : Append(s, x)[i] = s[i]
         /\ Append(s, x)[Len(s) + 1] = x
  OBVIOUS

LEMMA JoinIs ==
  ASSUME NEW S, NEW a \in Seq(S), NEW b \in Seq(S)
  PROVE  /\ a \o b \in Seq(S) /\ Len(a) \in Nat /\ Len(b) \in Nat
         /\ Len(a \o b) = Len(a) + Len(b)
         /\ \A i \in 1..Len(a) : (a \o b)[i] = a[i]
         /\ \A i \in 1..Len(b) : (a \o b)[Len(a) + i] = b[i]
  OBVIOUS

(* A set laid out as a sequence has each element at one place. *)
LEMMA LaidOut ==
  ASSUME NEW S, IsFiniteSet(S), NEW f \in SetToSeqs(S)
  PROVE  /\ f \in Seq(S)
         /\ \A x \in S : \E i \in DOMAIN f : f[i] = x
         /\ \A i, j \in DOMAIN f : f[i] = f[j] => i = j
  <1> DEFINE n == Cardinality(S)
  <1>1. n \in Nat
    BY FS_CardinalityType
  <1>2. f \in [1..n -> S] /\ \A i, j \in 1..n : i # j => f[i] # f[j]
    BY DEF SetToSeqs
  <1> HIDE DEF n
  <1>3. f \in Injection(1..n, S)
    BY <1>2 DEF Injection, IsInjective
  <1>4. Cardinality(1..n) = n
    BY <1>1, FS_Interval
  <1>5. f \in Surjection(1..n, S)
    BY <1>3, <1>4, FS_Injection DEF n
  <1>6. \A x \in S : \E i \in 1..n : f[i] = x
    BY <1>5 DEF Surjection
  <1> QED
    BY <1>1, <1>2, <1>6

(* A waiter that occurs once is taken out of the queue, and the others     *)
(* close up.                                                               *)
LEMMA TakenOut ==
  ASSUME NEW S, NEW s \in Seq(S), NEW c,
         NEW k \in 1..Len(s), s[k] = c,
         \A i, j \in DOMAIN s : s[i] = s[j] => i = j
  PROVE  /\ RemoveFirst(s, c) \in Seq(S) /\ Len(RemoveFirst(s, c)) = Len(s) - 1
         /\ \A i \in 1..Len(s) - 1 :
               RemoveFirst(s, c)[i] = IF i < k THEN s[i] ELSE s[i + 1]
  <1>1. {i \in 1..Len(s) : s[i] = c} = {k}
    OBVIOUS
  <1>2. Min({k}) = k
    BY DEF Min
  <1>3. SelectInSeq(s, LAMBDA v : v = c) = k
    BY <1>1, <1>2 DEF SelectInSeq
  <1>4. RemoveFirst(s, c) = SubSeq(s, 1, k - 1) \o SubSeq(s, k + 1, Len(s))
    BY <1>3 DEF RemoveFirst, RemoveAt
  <1>5. /\ SubSeq(s, 1, k - 1) \in Seq(S) /\ Len(SubSeq(s, 1, k - 1)) = k - 1
        /\ \A i \in 1..k - 1 : SubSeq(s, 1, k - 1)[i] = s[i]
    OBVIOUS
  <1>6. /\ SubSeq(s, k + 1, Len(s)) \in Seq(S)
        /\ Len(SubSeq(s, k + 1, Len(s))) = Len(s) - k
        /\ \A i \in 1..Len(s) - k : SubSeq(s, k + 1, Len(s))[i] = s[i + k]
    OBVIOUS
  <1> DEFINE a == SubSeq(s, 1, k - 1)
             b == SubSeq(s, k + 1, Len(s))
             r == RemoveFirst(s, c)
  <1>7. r = a \o b /\ a \in Seq(S) /\ b \in Seq(S)
    BY <1>4, <1>5, <1>6
  <1>8. Len(a) = k - 1 /\ Len(b) = Len(s) - k /\ Len(s) \in Nat /\ k \in Int
    BY <1>5, <1>6
  <1>9. /\ \A i \in 1..k - 1 : a[i] = s[i]
        /\ \A i \in 1..Len(s) - k : b[i] = s[i + k]
    BY <1>5, <1>6
  <1> HIDE DEF a, b, r
  <1>10. /\ r \in Seq(S) /\ Len(r) = Len(s) - 1
         /\ \A i \in 1..k - 1 : r[i] = a[i]
         /\ \A i \in 1..Len(s) - k : r[k - 1 + i] = b[i]
    <2>1. /\ a \o b \in Seq(S) /\ Len(a \o b) = Len(a) + Len(b)
          /\ \A i \in 1..Len(a) : (a \o b)[i] = a[i]
          /\ \A i \in 1..Len(b) : (a \o b)[Len(a) + i] = b[i]
      BY <1>7, JoinIs
    <2>2. \A i \in 1..Len(s) - k : (a \o b)[k - 1 + i] = b[i]
      BY <1>8, <2>1
    <2> QED
      BY <1>7, <1>8, <2>1, <2>2
  <1>11. ASSUME NEW i \in 1..Len(s) - 1
         PROVE  r[i] = IF i < k THEN s[i] ELSE s[i + 1]
    <2>1. CASE i < k
      BY <1>8, <1>9, <1>10, <2>1
    <2>2. CASE i >= k
      <3>1. PICK j \in 1..Len(s) - k : k - 1 + j = i /\ j + k = i + 1
        <4>1. i - k + 1 \in 1..Len(s) - k
          BY <1>8, <2>2
        <4> QED
          BY <1>8, <4>1
      <3>2. r[k - 1 + j] = b[j] /\ b[j] = s[j + k]
        BY <1>9, <1>10
      <3> QED
        BY <1>8, <2>2, <3>1, <3>2
    <2> QED
      BY <1>8, <2>1, <2>2
  <1> QED
    BY <1>10, <1>11 DEF r

LEMMA WithoutIt ==
  ASSUME NEW S, NEW s \in Seq(S), NEW c,
         \A i, j \in DOMAIN s : s[i] = s[j] => i = j
  PROVE  /\ RemoveFirst(s, c) \in Seq(S)
         /\ \A i \in DOMAIN RemoveFirst(s, c) :
               /\ RemoveFirst(s, c)[i] # c
               /\ \E k \in DOMAIN s : s[k] = RemoveFirst(s, c)[i]
         /\ \A i, j \in DOMAIN RemoveFirst(s, c) :
               RemoveFirst(s, c)[i] = RemoveFirst(s, c)[j] => i = j
  <1> DEFINE r == RemoveFirst(s, c)
  <1>1. CASE \E k \in 1..Len(s) : s[k] = c
    <2>1. PICK k \in 1..Len(s) : s[k] = c
      BY <1>1
    <2>2. /\ r \in Seq(S) /\ Len(r) = Len(s) - 1
          /\ \A i \in 1..Len(s) - 1 : r[i] = IF i < k THEN s[i] ELSE s[i + 1]
      BY <2>1, TakenOut
    <2> HIDE DEF r
    <2>3. DOMAIN r = 1..Len(s) - 1 /\ DOMAIN s = 1..Len(s) /\ Len(s) \in Nat
      BY <2>2
    <2>4. ASSUME NEW i \in DOMAIN r
          PROVE  r[i] # c /\ \E l \in DOMAIN s : s[l] = r[i]
      BY <2>1, <2>2, <2>3
    <2>5. ASSUME NEW i \in DOMAIN r, NEW j \in DOMAIN r, r[i] = r[j] PROVE i = j
      <3>1. PICK a \in DOMAIN s : s[a] = r[i] /\ a = IF i < k THEN i ELSE i + 1
        BY <2>2, <2>3
      <3>2. PICK b \in DOMAIN s : s[b] = r[j] /\ b = IF j < k THEN j ELSE j + 1
        BY <2>2, <2>3
      <3>3. a = b
        BY <2>5, <3>1, <3>2
      <3> QED
        BY <2>3, <3>1, <3>2, <3>3
    <2> QED
      BY <2>2, <2>4, <2>5 DEF r
  <1>2. CASE ~\E k \in 1..Len(s) : s[k] = c
    <2>1. r = s
      BY <1>2 DEF RemoveFirst
    <2> QED
      BY <1>2, <2>1
  <1> QED
    BY <1>1, <1>2

LEMMA NothingOut ==
  ASSUME NEW S, NEW s \in Seq(S), NEW c, ~Contains(s, c)
  PROVE  RemoveFirst(s, c) = s
  BY DEF RemoveFirst, Contains

-----------------------------------------------------------------------------
(* Types. *)
Places == {"idle", "subscribe", "suback", "unsubscribe", "guards", "publish",
           "submitted", "wait", "release", "done"}

Types ==
    /\ pc \in [Callers -> Places]
    /\ \A c \in Confirmers : pc[c] \in {"idle", "submitted", "done"}
    /\ \A c \in Subscribers : pc[c] \notin {"publish", "submitted", "wait", "release"}
    /\ outcome \in [Callers -> {None, "ok", "err", "reply", "timeout",
                                "cancelled"}]
    /\ registry \in SUBSET Filters /\ IsFiniteSet(registry)
    /\ mailbox \in SUBSET Requesters
    /\ pending_subacks \in Seq(Filters)
    /\ answer \in [Callers -> {None, "ok", "err"}]
    /\ publish_queue \in Seq(Publishers)
    /\ funnel \in [pc : {"recv", "register", "send"}, who : Publishers \union {None}]
    /\ funnel.pc # "recv" => funnel.who \in Publishers
    /\ awaiting_outgoing \in Seq(Publishers)
    /\ inflight \in [DOMAIN inflight -> Publishers] /\ IsFiniteSet(DOMAIN inflight)
    /\ unacked \in [DOMAIN unacked -> Publishers]
    /\ DOMAIN unacked \in SUBSET (Nat \ {0}) /\ IsFiniteSet(DOMAIN unacked)
    /\ confirming \in SUBSET Confirmers
    /\ confirmed \in SUBSET Confirmers
    /\ failed \in SUBSET Confirmers
    /\ loop \in [pc : {"poll", "down", "resubscribe"}, todo : Seq(Filters)]
    /\ loop.pc # "resubscribe" => loop.todo = <<>>
    /\ connected \in BOOLEAN /\ broken \in BOOLEAN
    /\ shifted \in BOOLEAN /\ lapsed \in BOOLEAN
    /\ channel \in Seq(Request)
    /\ incoming \in Seq(Packet)
    /\ bsubs \in SUBSET Filters /\ granted \in SUBSET Filters
    /\ leaky \in SUBSET Filters
    /\ stored \in SUBSET Publishers
    /\ replies \in [Requesters -> Nat]
    /\ disconnects \in Nat

(* A request belongs to a caller that can have sent it. *)
WellFormed(r) == r.who \in IF r.op = "pub" THEN Publishers ELSE Filters

Shapes ==
    /\ \A i \in DOMAIN channel : WellFormed(channel[i])
    /\ Len(channel) <= ChannelCap

Ask(op, c) == [op |-> op, who |-> c]

LEMMA ChannelIs ==
  ASSUME channel \in Seq(Request)
  PROVE  DOMAIN channel = 1..Len(channel) /\ Len(channel) \in Nat
  OBVIOUS

LEMMA ChannelStays == UNCHANGED client => channel' = channel
  BY DEF client

(* The client's channel takes one more request, at the end. *)
LEMMA Sends ==
  ASSUME channel \in Seq(Request),
         NEW op \in {"sub", "unsub", "pub"}, NEW c \in Callers, Send(op, c)
  PROVE  /\ channel' = Append(channel, Ask(op, c)) /\ unacked' = unacked
         /\ Ask(op, c) \in Request
         /\ channel' \in Seq(Request) /\ DOMAIN channel' = 1..Len(channel) + 1
         /\ Len(channel') = Len(channel) + 1 /\ Len(channel') <= ChannelCap
         /\ \A i \in DOMAIN channel : channel'[i] = channel[i]
         /\ channel'[Len(channel) + 1] = Ask(op, c)
  <1>1. Ask(op, c) \in Request
    BY DEF Ask, Request
  <1>2. /\ channel' = Append(channel, Ask(op, c)) /\ unacked' = unacked
        /\ Len(channel) < ChannelCap
    BY DEF Send, Ask
  <1> HIDE DEF Ask
  <1>3. /\ channel' \in Seq(Request) /\ Len(channel') = Len(channel) + 1
        /\ Len(channel) \in Nat /\ DOMAIN channel = 1..Len(channel)
        /\ DOMAIN channel' = 1..Len(channel')
        /\ \A i \in 1..Len(channel) : channel'[i] = channel[i]
        /\ channel'[Len(channel) + 1] = Ask(op, c)
    BY <1>1, <1>2, AppendIs
  <1>4. ChannelCap \in Nat
    BY MqttConnectionAssumption
  <1> QED
    BY <1>1, <1>2, <1>3, <1>4

(* The client writes the first of its requests. *)
LEMMA Wrote ==
  ASSUME channel \in Seq(Request), NEW op, Writes(op)
  PROVE  /\ channel # <<>> /\ Len(channel) \in Nat \ {0} /\ 1 \in DOMAIN channel
         /\ Head(channel) = channel[1] /\ channel[1].op = op /\ channel[1] \in Request
         /\ channel' = Tail(channel)
         /\ channel' \in Seq(Request) /\ DOMAIN channel' = 1..Len(channel) - 1
         /\ Len(channel') = Len(channel) - 1
         /\ \A i \in 1..Len(channel) - 1 : channel'[i] = channel[i + 1]
  <1>1. channel # <<>> /\ Head(channel).op = op /\ channel' = Tail(channel)
    BY DEF Writes
  <1> QED
    BY <1>1, TailIs

LEMMA CallersAre ==
  /\ Filters \subseteq Callers /\ Publishers \subseteq Callers
  /\ Confirmers \subseteq Publishers /\ Requesters \subseteq Publishers
  /\ Subscribers \subseteq Filters /\ Requesters \subseteq Filters
  /\ Confirmers \intersect Filters = {} /\ Subscribers \intersect Publishers = {}
  /\ Callers = Filters \union Confirmers
  /\ \A c \in Publishers : c \in Confirmers \/ c \in Requesters
  /\ \A c \in Filters : c \in Subscribers \/ c \in Requesters
  BY MqttConnectionAssumption DEF Callers, Filters, Publishers

(* The steps of a caller that change only where it is in its call. *)
Moves(c) ==
    \/ SubscribeAcknowledged(c) \/ SubscribeFails(c) \/ Abandon(c)
    \/ ConfirmDisconnected(c) \/ ConfirmReturns(c)
    \/ Supervise(c) \/ Replied(c) \/ Expired(c) \/ Cancelled(c)

(* Where they may lead. *)
Leads(from, to, c) ==
    \/ c \in Requesters /\ from = "suback" /\ to = "publish" /\ answer[c] = "ok"
    \/ c \in Filters /\ from = "suback" /\ to = "unsubscribe"
    \/ c \in Subscribers /\ from = "suback" /\ to = "done" /\ answer[c] = "ok"
    \/ /\ c \in Filters /\ to = "guards"
       /\ \/ from \in {"subscribe", "suback", "publish", "submitted"}
          \/ from = "unsubscribe" /\ c \in registry
    \/ c \in Confirmers /\ from \in {"idle", "submitted"} /\ to = "done"
    \/ c \in Requesters /\ from = "submitted" /\ to = "wait"
    \/ c \in Requesters /\ from = "wait" /\ to = "release"

Goes(c, to) ==
    /\ pc' = [pc EXCEPT ![c] = to]
    /\ Leads(pc[c], to, c)
    /\ leaky' = IF to = "guards" THEN leaky \union {c} ELSE leaky

Outcomes == {None, "ok", "err", "reply", "timeout", "cancelled"}

Ends(c, what) ==
    /\ outcome' = [outcome EXCEPT ![c] = what]
    /\ what = "ok" => c \in Subscribers \/ c \in confirmed

LEMMA MovesAre ==
  ASSUME NEW c \in Callers, Types, Moves(c)
  PROVE  /\ \E to : Goes(c, to)
         /\ outcome' = outcome \/ \E what \in Outcomes : Ends(c, what)
         /\ UNCHANGED <<subs, mailbox, publish_queue, funnel, tracker, loop,
                        connected, client, wire, granted, shifted, lapsed>>
  <1> DEFINE Rest == UNCHANGED <<subs, mailbox, publish_queue, funnel, tracker, loop,
                                 connected, client, wire, granted, shifted, lapsed>>
             Told == outcome' = outcome \/ \E what \in Outcomes : Ends(c, what)
             Went == \E to : Goes(c, to)
  <1>0. /\ \A q \in Confirmers : pc[q] \in {"idle", "submitted", "done"}
        /\ \A q \in Subscribers : pc[q] \notin {"publish", "submitted", "wait", "release"}
        /\ c \in Filters \/ c \in Confirmers
        /\ c \in Filters => c \in Subscribers \/ c \in Requesters
    BY CallersAre DEF Types
  <1>1. CASE SubscribeAcknowledged(c)
    <2>1. pc[c] = "suback" /\ answer[c] = "ok" /\ c \in Filters
      BY <1>0, <1>1 DEF SubscribeAcknowledged
    <2>2. Rest /\ leaky' = leaky
      BY <1>1 DEF SubscribeAcknowledged, history
    <2>3. CASE c \in Requesters
      <3>1. Goes(c, "publish") /\ outcome' = outcome
        BY <1>1, <2>1, <2>2, <2>3 DEF SubscribeAcknowledged, Goto, Goes, Leads
      <3> QED
        BY <2>2, <3>1
    <2>4. CASE c \notin Requesters
      <3>1. Goes(c, "done") /\ Ends(c, "ok")
        BY <1>0, <1>1, <2>1, <2>2, <2>4
           DEF SubscribeAcknowledged, Goto, Returns, Goes, Leads, Ends
      <3>2. Told
        BY <3>1 DEF Outcomes
      <3> QED
        BY <2>2, <3>1, <3>2
    <2> QED
      BY <2>3, <2>4
  <1>2. CASE SubscribeFails(c)
    <2>1. Goes(c, "unsubscribe") /\ Ends(c, "err") /\ Rest
      BY <1>0, <1>2 DEF SubscribeFails, Goto, Returns, Goes, Leads, Ends, history
    <2>2. Told
      BY <2>1 DEF Outcomes
    <2> QED
      BY <2>1, <2>2
  <1>3. CASE Abandon(c)
    <2>1. Goes(c, "guards") /\ Ends(c, "cancelled") /\ Rest
      BY <1>0, <1>3, CallersAre DEF Abandon, Goto, Returns, Goes, Leads, Ends, Types
    <2>2. Told
      BY <2>1 DEF Outcomes
    <2> QED
      BY <2>1, <2>2
  <1>4. CASE ConfirmDisconnected(c)
    <2>1. Goes(c, "done") /\ Ends(c, "err") /\ Rest
      BY <1>4 DEF ConfirmDisconnected, Goto, Returns, Goes, Leads, Ends, history
    <2>2. Told
      BY <2>1 DEF Outcomes
    <2> QED
      BY <2>1, <2>2
  <1>5. CASE ConfirmReturns(c)
    <2>1. Goes(c, "done") /\ Rest
      BY <1>5 DEF ConfirmReturns, Goto, Goes, Leads, history
    <2>2. Ends(c, "ok") \/ Ends(c, "err")
      BY <1>5 DEF ConfirmReturns, Returns, Ends
    <2>3. Told
      BY <2>2 DEF Outcomes
    <2> QED
      BY <2>1, <2>3
  <1>6. CASE Supervise(c)
    <2>1. Goes(c, "wait") /\ Rest /\ outcome' = outcome
      BY <1>6 DEF Supervise, Goto, Goes, Leads, history
    <2> QED
      BY <2>1
  <1>7. CASE Replied(c) \/ Expired(c) \/ Cancelled(c)
    <2>1. PICK what \in {"reply", "timeout", "cancelled"} : Decide(c, what)
      BY <1>7 DEF Replied, Expired, Cancelled
    <2>2. c \in Requesters
      BY <1>0, <2>1 DEF Decide
    <2>3. Goes(c, "release") /\ Ends(c, what) /\ Rest
      BY <2>1, <2>2 DEF Decide, Goto, Returns, Goes, Leads, Ends, history
    <2>4. Told
      BY <2>3 DEF Outcomes
    <2> QED
      BY <2>3, <2>4
  <1> QED
    BY <1>1, <1>2, <1>3, <1>4, <1>5, <1>6, <1>7 DEF Moves

Bounded == Len(awaiting_outgoing) + Cardinality(DOMAIN inflight) <= MaxTracked

(* Every waiter waits once. *)
Distinct == \A i, j \in DOMAIN pending_subacks :
    pending_subacks[i] = pending_subacks[j] => i = j

(* The next publish is written, with a packet id that is free. *)
Publishing(c, pkid) ==
    /\ c = channel[1].who /\ c \in Publishers /\ Writes("pub")
    /\ \/ QosOf(c) = 0 /\ pkid = 0
       \/ QosOf(c) = 1 /\ pkid # 0 /\ pkid \notin DOMAIN unacked
    /\ pkid \in Nat
    /\ ObserveOutgoing(pkid)
    /\ unacked' = IF pkid = 0 THEN unacked ELSE Filed(unacked, pkid, c)
    /\ Reaches(IF pkid = 0 THEN <<>> ELSE <<Puback(pkid)>>, bsubs, {c})

LEMMA PublishIs ==
  ASSUME Types, Shapes, LoopPublish
  PROVE  \E c, pkid : Publishing(c, pkid)
  <1> DEFINE c == channel[1].who
             pkids == IF QosOf(c) = 0 THEN {0} ELSE (1..MaxInflight) \ DOMAIN unacked
  <1>1. Writes("pub") /\ channel \in Seq(Request)
    BY DEF LoopPublish, Types
  <1>2. Head(channel) = channel[1] /\ channel[1].op = "pub" /\ 1 \in DOMAIN channel
    BY <1>1, Wrote
  <1>3. c \in Publishers
    BY <1>2 DEF Shapes, WellFormed
  <1>4. QosOf(c) \in {0, 1}
    BY MqttConnectionAssumption DEF QosOf
  <1>5. PICK pkid \in pkids :
           /\ ObserveOutgoing(pkid)
           /\ unacked' = IF pkid = 0 THEN unacked ELSE Filed(unacked, pkid, c)
           /\ Reaches(IF pkid = 0 THEN <<>> ELSE <<Puback(pkid)>>, bsubs, {c})
    BY <1>2 DEF LoopPublish
  <1>6. /\ \/ QosOf(c) = 0 /\ pkid = 0
           \/ QosOf(c) = 1 /\ pkid # 0 /\ pkid \notin DOMAIN unacked
        /\ pkid \in Nat
    BY <1>4, <1>5, MqttConnectionAssumption
  <1>7. Publishing(c, pkid)
    BY <1>1, <1>3, <1>5, <1>6 DEF Publishing
  <1> QED
    BY <1>7

(* What the broker gets of a packet it is sent. *)
LEMMA ReachesIs ==
  ASSUME Types, NEW packets \in Seq(Packet), NEW subscribed \in SUBSET Filters,
         NEW took \in SUBSET Publishers, Reaches(packets, subscribed, took)
  PROVE  /\ incoming' \in Seq(Packet) /\ bsubs' \in SUBSET Filters
         /\ stored' \in SUBSET Publishers /\ stored \subseteq stored'
         /\ granted' \in SUBSET Filters /\ granted \subseteq granted'
         /\ broken' = broken /\ replies' = replies /\ disconnects' = disconnects
  <1>1. /\ incoming \in Seq(Packet) /\ bsubs \in SUBSET Filters
        /\ stored \in SUBSET Publishers /\ granted \in SUBSET Filters
    BY DEF Types
  <1>2. incoming \o packets \in Seq(Packet)
    BY <1>1
  <1>3. CASE broken
    BY <1>1, <1>3 DEF Reaches
  <1>4. CASE ~broken
    BY <1>1, <1>2, <1>4 DEF Reaches
  <1> QED
    BY <1>3, <1>4

LEMMA SendShapes ==
  ASSUME Types, Shapes, NEW op \in {"sub", "unsub", "pub"}, NEW c \in Callers, Send(op, c),
         IF op = "pub" THEN c \in Publishers ELSE c \in Filters
  PROVE  Shapes'
  <1>1. channel \in Seq(Request)
    BY DEF Types
  <1>2. /\ DOMAIN channel' = 1..Len(channel) + 1 /\ Len(channel') <= ChannelCap
        /\ \A i \in DOMAIN channel : channel'[i] = channel[i]
        /\ channel'[Len(channel) + 1] = Ask(op, c)
    BY <1>1, Sends
  <1>3. DOMAIN channel = 1..Len(channel) /\ Len(channel) \in Nat
    BY <1>1, ChannelIs
  <1>4. WellFormed(Ask(op, c))
    BY DEF WellFormed, Ask
  <1>5. \A i \in DOMAIN channel' : WellFormed(channel'[i])
    BY <1>2, <1>3, <1>4 DEF Shapes
  <1> QED
    BY <1>2, <1>5 DEF Shapes

LEMMA MovesTypes ==
  ASSUME NEW c \in Callers, Types, Shapes, Bounded, Moves(c)
  PROVE  Types' /\ Shapes' /\ Bounded'
  <1>1. /\ \E to : Goes(c, to)
        /\ outcome' = outcome \/ \E what \in Outcomes : Ends(c, what)
        /\ UNCHANGED <<subs, mailbox, publish_queue, funnel, tracker, loop,
                       connected, client, wire, granted, shifted, lapsed>>
    BY MovesAre
  <1>2. outcome' \in [Callers -> {None, "ok", "err", "reply", "timeout", "cancelled"}]
    BY <1>1 DEF Types, Ends, Outcomes
  <1>3. PICK to : Goes(c, to)
    BY <1>1
  <1>4. /\ pc' \in [Callers -> Places]
        /\ \A q \in Confirmers : pc'[q] \in {"idle", "submitted", "done"}
        /\ \A q \in Subscribers : pc'[q] \notin {"publish", "submitted", "wait", "release"}
        /\ leaky' \in SUBSET Filters
    BY <1>3, CallersAre DEF Types, Goes, Leads, Places
  <1>5. channel' = channel
    BY <1>1, ChannelStays
  <1> QED
    BY <1>1, <1>2, <1>4, <1>5
       DEF Types, Shapes, Bounded, subs, tracker, client, wire

LEMMA CallerTypes ==
  ASSUME NEW c \in Callers, Types, Shapes, Bounded, Distinct,
         \/ SubscribeRegister(c) \/ SubscribeSend(c) \/ Unsubscribe(c)
         \/ DropGuards(c) \/ Submit(c) \/ Release(c)
  PROVE  Types' /\ Shapes' /\ Bounded'
  <1>0. c \in Filters \/ c \in Confirmers
    BY CallersAre
  <1>1. CASE SubscribeRegister(c)
    <2>1. c \in Filters /\ channel' = channel /\ IsFiniteSet(registry \union {c})
      BY <1>1, ChannelStays, FS_AddElement DEF SubscribeRegister, Filters, Types
    <2> QED
      BY <1>1, <2>1, CallersAre DEF SubscribeRegister, Goto, Types, Places, Shapes, Bounded,
                        tracker, client, wire, history
  <1>2. CASE SubscribeSend(c) \/ Unsubscribe(c)
    <2>1. PICK op \in {"sub", "unsub"} : Send(op, c)
      BY <1>2 DEF SubscribeSend, Unsubscribe
    <2>2. c \in Filters
      BY <1>0, <1>2 DEF SubscribeSend, Unsubscribe, Types
    <2>3. channel \in Seq(Request)
      BY DEF Types
    <2>4. channel' \in Seq(Request) /\ unacked' = unacked
      BY <2>1, <2>3, Sends
    <2>5. Shapes'
      BY <2>1, <2>2, SendShapes
    <2>6. /\ \E at \in {"suback", "guards", "done"} : pc' = [pc EXCEPT ![c] = at]
          /\ leaky' \in {leaky, leaky \union {c}} /\ shifted' \in BOOLEAN
          /\ UNCHANGED <<outcome, subs, mailbox, publish_queue, funnel, tracker,
                         loop, connected, wire, granted, lapsed>>
      BY <1>2 DEF SubscribeSend, Unsubscribe, Goto, Types
    <2>7. /\ pc' \in [Callers -> Places]
          /\ \A q \in Confirmers : pc'[q] \in {"idle", "submitted", "done"}
          /\ \A q \in Subscribers : pc'[q] \notin {"publish", "submitted", "wait", "release"}
      BY <2>2, <2>6, CallersAre DEF Types, Places
    <2> QED
      BY <2>2, <2>3, <2>4, <2>5, <2>6, <2>7
         DEF Types, Bounded, subs, tracker, client, wire
  <1>3. CASE DropGuards(c)
    <2>1. pending_subacks' \in Seq(Filters)
      BY <1>3, WithoutIt DEF DropGuards, Distinct, Types
    <2>2. IsFiniteSet(registry \ {c}) /\ channel' = channel /\ c \in Filters
      BY <1>0, <1>3, ChannelStays, FS_RemoveElement DEF DropGuards, Types
    <2> QED
      BY <1>3, <2>1, <2>2, CallersAre DEF DropGuards, Goto, Types, Places, Shapes, Bounded,
                        tracker, client, wire
  <1>4. CASE Submit(c)
    <2>1. channel' = channel /\ c \in Publishers /\ publish_queue' \in Seq(Publishers)
      BY <1>4, ChannelStays DEF Submit, Publishers, Types
    <2> QED
      BY <1>4, <2>1, CallersAre DEF Submit, Goto, Types, Places, Shapes, Bounded, subs,
                        tracker, client, wire, history
  <1>5. CASE Release(c)
    <2>1. channel' = channel /\ IsFiniteSet(registry \ {c}) /\ c \in Filters
      BY <1>0, <1>5, ChannelStays, FS_RemoveElement DEF Release, Types
    <2> QED
      BY <1>5, <2>1, CallersAre DEF Release, AfterRelease, Goto, Types, Places, Shapes, Bounded,
                        tracker, client, wire, history
  <1> QED
    BY <1>1, <1>2, <1>3, <1>4, <1>5

LEMMA FunnelTypes ==
  ASSUME Types, Shapes, Bounded, Funnel
  PROVE  Types' /\ Shapes' /\ Bounded'
  <1> IsFiniteSet(DOMAIN inflight)
    BY DEF Types
  <1>1. CASE FunnelTake
    <2>1. /\ channel' = channel /\ publish_queue' \in Seq(Publishers)
          /\ Head(publish_queue) \in Publishers
      BY <1>1, ChannelStays, TailIs DEF FunnelTake, Types
    <2> QED
      BY <1>1, <2>1 DEF FunnelTake, Types, Shapes, Bounded, subs,
                        tracker, client, wire, history
  <1>2. CASE FunnelRegister
    <2>1. /\ channel' = channel /\ funnel.who \in Publishers
          /\ awaiting_outgoing' \in Seq(Publishers)
          /\ Len(awaiting_outgoing') = Len(awaiting_outgoing) + 1
          /\ Len(awaiting_outgoing) \in Nat
      BY <1>2, ChannelStays DEF FunnelRegister, Types
    <2>2. Bounded'
      BY <1>2, <2>1, FS_CardinalityType, MqttConnectionAssumption DEF FunnelRegister, Bounded
    <2> QED
      BY <1>2, <2>1, <2>2 DEF FunnelRegister, Types, Shapes, subs,
                        client, wire, history
  <1>3. CASE FunnelSend
    <2>1. funnel.who \in Publishers /\ funnel.who \in Callers /\ Send("pub", funnel.who)
      BY <1>3, CallersAre DEF FunnelSend, Types
    <2>3. channel \in Seq(Request)
      BY DEF Types
    <2>4. channel' \in Seq(Request) /\ unacked' = unacked
      BY <2>1, <2>3, Sends
    <2>5. Shapes'
      BY <2>1, SendShapes
    <2> QED
      BY <1>3, <2>3, <2>4, <2>5 DEF FunnelSend, Types, Bounded, subs, tracker, wire, history
  <1> QED
    BY <1>1, <1>2, <1>3 DEF Funnel

LEMMA ReadsTypes ==
  ASSUME Types, Shapes, Bounded, LoopRead
  PROVE  Types' /\ Shapes' /\ Bounded'
  <1> IsFiniteSet(DOMAIN inflight)
    BY DEF Types
  <1>0. /\ incoming \in Seq(Packet) /\ pending_subacks \in Seq(Filters)
        /\ unacked \in [DOMAIN unacked -> Publishers] /\ IsFiniteSet(DOMAIN unacked)
        /\ inflight \in [DOMAIN inflight -> Publishers]
        /\ Len(awaiting_outgoing) \in Nat
    BY DEF Types
  <1>1. PICK op \in {"suback", "puback", "publish"} : Reads(op)
    BY DEF LoopRead, LoopSuback, LoopPuback, LoopReply
  <1>2. /\ incoming' \in Seq(Packet) /\ Head(incoming) \in Packet
        /\ UNCHANGED <<pc, outcome, registry, publish_queue, funnel, loop,
                       connected, channel, broken, bsubs, stored, replies,
                       disconnects, history>>
    BY <1>0, <1>1, TailIs DEF Reads
  <1>3. Shapes'
    BY <1>2 DEF Shapes
  <1>4. CASE LoopSuback
    <2>1. /\ pending_subacks' \in Seq(Filters)
          /\ answer' \in [Callers -> {None, "ok", "err"}]
      <3>1. CASE pending_subacks = <<>>
        BY <1>0, <1>4, <3>1 DEF LoopSuback, Types
      <3>2. CASE pending_subacks # <<>>
        <4>1. Head(pending_subacks) \in Filters /\ Tail(pending_subacks) \in Seq(Filters)
          BY <1>0, <3>2, TailIs
        <4>2. /\ pending_subacks' = Tail(pending_subacks)
              /\ \E what \in {"ok", "err"} :
                    answer' = [answer EXCEPT ![Head(pending_subacks)] = what]
          BY <1>4, <3>2 DEF LoopSuback
        <4>3. answer \in [Callers -> {None, "ok", "err"}]
          BY DEF Types
        <4> QED
          BY <4>1, <4>2, <4>3
      <3> QED
        BY <3>1, <3>2
    <2>2. UNCHANGED <<mailbox, tracker, unacked>>
      BY <1>4 DEF LoopSuback
    <2> QED
      BY <1>2, <1>3, <2>1, <2>2 DEF Types, Bounded, tracker, history
  <1>5. CASE LoopPuback
    <2>1. PICK p : ObservePuback(p) /\ unacked' = Restrict(unacked, DOMAIN unacked \ {p})
      BY <1>5 DEF LoopPuback
    <2>2. UNCHANGED <<mailbox, pending_subacks, answer>>
      BY <1>5 DEF LoopPuback
    <2>3. /\ unacked' \in [DOMAIN unacked' -> Publishers]
          /\ DOMAIN unacked' = DOMAIN unacked \ {p}
          /\ IsFiniteSet(DOMAIN unacked')
      BY <1>0, <2>1, FS_RemoveElement DEF Restrict
    <2>4. /\ awaiting_outgoing' = awaiting_outgoing
          /\ inflight' \in [DOMAIN inflight' -> Publishers]
          /\ DOMAIN inflight' = DOMAIN inflight \ {p}
          /\ confirming' \in SUBSET Confirmers /\ confirmed' \in SUBSET Confirmers
          /\ failed' = failed
      <3>1. confirming \in SUBSET Confirmers /\ confirmed \in SUBSET Confirmers
        BY DEF Types
      <3>2. CASE p \notin DOMAIN inflight
        BY <1>0, <2>1, <3>1, <3>2 DEF ObservePuback, tracker
      <3>3. CASE p \in DOMAIN inflight
        BY <1>0, <2>1, <3>1, <3>3 DEF ObservePuback, InflightWithout, Restrict
      <3> QED
        BY <3>2, <3>3
    <2>5. Bounded'
      <3>1. Cardinality(DOMAIN inflight \ {p}) <= Cardinality(DOMAIN inflight)
        BY FS_RemoveElement, FS_CardinalityType
      <3>2. Cardinality(DOMAIN inflight \ {p}) \in Nat /\ Cardinality(DOMAIN inflight) \in Nat
        BY FS_RemoveElement, FS_CardinalityType
      <3> QED
        BY <1>0, <2>4, <3>1, <3>2, MqttConnectionAssumption DEF Bounded
    <2>6. IsFiniteSet(DOMAIN inflight')
      BY <2>4, FS_RemoveElement
    <2> QED
      BY <1>2, <1>3, <2>2, <2>3, <2>4, <2>5, <2>6 DEF Types, history
  <1>6. CASE LoopReply
    <2>1. mailbox' \in SUBSET Requesters
      <3>1. Head(incoming).op = "publish" /\ Head(incoming).who \in Requesters
        BY <1>2, <1>6 DEF LoopReply, Reads, Packet
      <3> QED
        BY <1>6, <3>1 DEF LoopReply, Types
    <2> QED
      BY <1>2, <1>3, <1>6, <2>1 DEF LoopReply, Types, Bounded, tracker, history
  <1> QED
    BY <1>4, <1>5, <1>6 DEF LoopRead

LEMMA ObservesTypes ==
  ASSUME Types, Bounded, NEW pkid, ObserveOutgoing(pkid)
  PROVE  /\ awaiting_outgoing' \in Seq(Publishers)
         /\ inflight' \in [DOMAIN inflight' -> Publishers] /\ IsFiniteSet(DOMAIN inflight')
         /\ Bounded'
         /\ confirming' \in SUBSET Confirmers /\ failed' \in SUBSET Confirmers
         /\ confirmed' = confirmed
  <1>0. /\ awaiting_outgoing \in Seq(Publishers)
        /\ inflight \in [DOMAIN inflight -> Publishers]
        /\ confirming \in SUBSET Confirmers /\ failed \in SUBSET Confirmers
        /\ IsFiniteSet(DOMAIN inflight)
    BY DEF Types
  <1>1. CASE Retransmitted(pkid) \/ awaiting_outgoing = <<>>
    <2>1. UNCHANGED tracker
      BY <1>1 DEF ObserveOutgoing
    <2> QED
      BY <1>0, <2>1 DEF tracker, Bounded
  <1>2. CASE ~(Retransmitted(pkid) \/ awaiting_outgoing = <<>>)
    <2> DEFINE c == Head(awaiting_outgoing)
    <2>1. /\ awaiting_outgoing' = Tail(awaiting_outgoing)
          /\ \/ inflight' = Filed(inflight, pkid, c) /\ UNCHANGED <<confirming, failed>>
             \/ /\ inflight' = inflight
                /\ failed' = failed \union ({c} \intersect confirming)
                /\ confirming' = confirming \ {c}
          /\ confirmed' = confirmed
      BY <1>2 DEF ObserveOutgoing
    <2>2. /\ awaiting_outgoing' \in Seq(Publishers) /\ Len(awaiting_outgoing) \in Nat \ {0}
          /\ Len(awaiting_outgoing') = Len(awaiting_outgoing) - 1
          /\ c \in Publishers
      BY <1>0, <1>2, <2>1, TailIs
    <2>3. Cardinality(DOMAIN inflight) \in Nat /\ MaxTracked \in Nat
      BY <1>0, FS_CardinalityType, MqttConnectionAssumption
    <2>4. CASE inflight' = inflight
      <3>1. Bounded'
        BY <2>2, <2>3, <2>4 DEF Bounded
      <3> QED
        BY <1>0, <2>1, <2>2, <2>4, <3>1
    <2>5. CASE inflight' = Filed(inflight, pkid, c)
      <3>1. /\ inflight' \in [DOMAIN inflight' -> Publishers]
            /\ DOMAIN inflight' = DOMAIN inflight \union {pkid}
        BY <1>0, <2>2, <2>5 DEF Filed
      <3>2. Cardinality(DOMAIN inflight \union {pkid}) =
               IF pkid \in DOMAIN inflight THEN Cardinality(DOMAIN inflight)
               ELSE Cardinality(DOMAIN inflight) + 1
        BY <1>0, FS_AddElement
      <3>3. Cardinality(DOMAIN inflight') \in Nat
            /\ Cardinality(DOMAIN inflight') <= Cardinality(DOMAIN inflight) + 1
        BY <2>3, <3>1, <3>2
      <3>4. Bounded'
        BY <2>2, <2>3, <3>3 DEF Bounded
      <3>5. IsFiniteSet(DOMAIN inflight')
        BY <1>0, <3>1, FS_AddElement
      <3> QED
        BY <1>0, <2>1, <2>2, <3>1, <3>4, <3>5
    <2> QED
      BY <2>1, <2>4, <2>5
  <1> QED
    BY <1>1, <1>2

LEMMA WritesShapes ==
  ASSUME Types, Shapes, NEW op, Writes(op)
  PROVE  /\ Shapes' /\ channel' \in Seq(Request)
         /\ channel[1] \in Request /\ channel[1].op = op /\ WellFormed(channel[1])
         /\ Head(channel) = channel[1]
         /\ UNCHANGED <<pc, outcome, subs, mailbox, publish_queue, funnel, loop,
                        connected, shifted, leaky, lapsed>>
  <1>1. channel \in Seq(Request)
    BY DEF Types
  <1>2. /\ channel' \in Seq(Request)
        /\ channel[1] \in Request /\ channel[1].op = op /\ 1 \in DOMAIN channel
        /\ Head(channel) = channel[1] /\ Len(channel) \in Nat \ {0}
        /\ Len(channel') = Len(channel) - 1 /\ DOMAIN channel' = 1..Len(channel) - 1
        /\ \A i \in 1..Len(channel) - 1 : channel'[i] = channel[i + 1]
    BY <1>1, Wrote
  <1>3. DOMAIN channel = 1..Len(channel)
    BY <1>1, ChannelIs
  <1>4. \A i \in DOMAIN channel' : WellFormed(channel'[i])
    BY <1>2, <1>3 DEF Shapes
  <1>5. Len(channel') <= ChannelCap
    BY <1>2, MqttConnectionAssumption DEF Shapes
  <1>6. UNCHANGED <<pc, outcome, subs, mailbox, publish_queue, funnel, loop,
                    connected, shifted, leaky, lapsed>>
    BY DEF Writes
  <1> QED
    BY <1>2, <1>3, <1>4, <1>5, <1>6 DEF Shapes

LEMMA WritesTypes ==
  ASSUME Types, Shapes, Bounded, LoopWrite
  PROVE  Types' /\ Shapes' /\ Bounded'
  <1>1. CASE LoopSubscribe \/ LoopUnsubscribe
    <2>1. PICK op \in {"sub", "unsub"}, packets \in Seq(Packet), subscribed \in SUBSET Filters :
             Writes(op) /\ Reaches(packets, subscribed, {})
      <3>1. CASE LoopSubscribe
        <4>1. Writes("sub")
          BY <3>1 DEF LoopSubscribe
        <4>2. channel[1].who \in Filters /\ Head(channel) = channel[1]
          BY <4>1, WritesShapes DEF WellFormed
        <4>3. /\ <<Suback(channel[1].who)>> \in Seq(Packet)
              /\ bsubs \union ({channel[1].who} \ Rejects) \in SUBSET Filters
          BY <4>2 DEF Suback, Packet, Types
        <4>4. Reaches(<<Suback(channel[1].who)>>, bsubs \union ({channel[1].who} \ Rejects), {})
          BY <3>1, <4>2 DEF LoopSubscribe
        <4> QED
          BY <4>1, <4>3, <4>4
      <3>2. CASE LoopUnsubscribe
        <4>1. /\ Writes("unsub") /\ Reaches(<<>>, bsubs \ {Head(channel).who}, {})
              /\ <<>> \in Seq(Packet) /\ bsubs \ {Head(channel).who} \in SUBSET Filters
          BY <3>2 DEF LoopUnsubscribe, Types
        <4> QED
          BY <4>1
      <3> QED
        BY <1>1, <3>1, <3>2
    <2>2. UNCHANGED <<tracker, unacked>>
      BY <1>1 DEF LoopSubscribe, LoopUnsubscribe
    <2>3. /\ incoming' \in Seq(Packet) /\ bsubs' \in SUBSET Filters
          /\ stored' \in SUBSET Publishers /\ granted' \in SUBSET Filters
          /\ broken' = broken /\ replies' = replies /\ disconnects' = disconnects
      BY <2>1, ReachesIs
    <2>4. /\ Shapes' /\ channel' \in Seq(Request)
          /\ UNCHANGED <<pc, outcome, subs, mailbox, publish_queue, funnel, loop,
                         connected, shifted, leaky, lapsed>>
      BY <2>1, WritesShapes
    <2> QED
      BY <2>2, <2>3, <2>4 DEF Types, Bounded, subs, tracker
  <1>2. CASE LoopPublish
    <2>1. PICK c, pkid : Publishing(c, pkid)
      BY <1>2, PublishIs
    <2>2. /\ c \in Publishers /\ pkid \in Nat /\ Writes("pub") /\ ObserveOutgoing(pkid)
          /\ unacked' = IF pkid = 0 THEN unacked ELSE Filed(unacked, pkid, c)
          /\ Reaches(IF pkid = 0 THEN <<>> ELSE <<Puback(pkid)>>, bsubs, {c})
      BY <2>1 DEF Publishing
    <2>3. /\ (IF pkid = 0 THEN <<>> ELSE <<Puback(pkid)>>) \in Seq(Packet)
          /\ bsubs \in SUBSET Filters /\ {c} \in SUBSET Publishers
      <3>1. pkid # 0 => Puback(pkid) \in Packet
        BY <2>2 DEF Puback, Packet
      <3> QED
        BY <2>2, <3>1 DEF Types
    <2>4. /\ incoming' \in Seq(Packet) /\ bsubs' \in SUBSET Filters
          /\ stored' \in SUBSET Publishers /\ granted' \in SUBSET Filters
          /\ broken' = broken /\ replies' = replies /\ disconnects' = disconnects
      BY <2>2, <2>3, ReachesIs
    <2>5. /\ Shapes' /\ channel' \in Seq(Request)
          /\ UNCHANGED <<pc, outcome, subs, mailbox, publish_queue, funnel, loop,
                         connected, shifted, leaky, lapsed>>
      BY <2>2, WritesShapes
    <2>6. /\ awaiting_outgoing' \in Seq(Publishers)
          /\ inflight' \in [DOMAIN inflight' -> Publishers] /\ IsFiniteSet(DOMAIN inflight')
          /\ Bounded'
          /\ confirming' \in SUBSET Confirmers /\ failed' \in SUBSET Confirmers
          /\ confirmed' = confirmed
      BY <2>2, ObservesTypes
    <2>7. /\ unacked' \in [DOMAIN unacked' -> Publishers]
          /\ DOMAIN unacked' \in SUBSET (Nat \ {0}) /\ IsFiniteSet(DOMAIN unacked')
      <3>1. /\ unacked \in [DOMAIN unacked -> Publishers]
            /\ DOMAIN unacked \in SUBSET (Nat \ {0}) /\ IsFiniteSet(DOMAIN unacked)
        BY DEF Types
      <3>2. CASE pkid = 0
        BY <2>2, <3>1, <3>2
      <3>3. CASE pkid # 0
        <4>1. unacked' = Filed(unacked, pkid, c)
          BY <2>2, <3>3
        <4>2. /\ unacked' \in [DOMAIN unacked' -> Publishers]
              /\ DOMAIN unacked' = DOMAIN unacked \union {pkid}
          BY <2>2, <3>1, <4>1 DEF Filed
        <4>3. IsFiniteSet(DOMAIN unacked \union {pkid})
          BY <3>1, FS_AddElement
        <4> QED
          BY <2>2, <3>1, <3>3, <4>2, <4>3
      <3> QED
        BY <3>2, <3>3
    <2> QED
      BY <2>4, <2>5, <2>6, <2>7 DEF Types, subs
  <1> QED
    BY <1>1, <1>2 DEF LoopWrite

LEMMA ErrorTypes ==
  ASSUME Types, Shapes, Bounded, LoopError \/ LoopRetry
  PROVE  Types' /\ Shapes' /\ Bounded'
  <1>1. /\ failed' = failed \union confirming /\ confirming' = {}
        /\ UNCHANGED <<awaiting_outgoing, inflight, confirmed, pc, outcome, subs, mailbox,
                       publish_queue, funnel, stored, replies, disconnects, granted,
                       shifted, leaky>>
    BY DEF LoopError, LoopRetry, FailConfirmations, wire, history
  <1>2. failed' \in SUBSET Confirmers /\ confirming' \in SUBSET Confirmers
    BY <1>1 DEF Types
  <1>3. Bounded'
    BY <1>1 DEF Bounded
  <1>4. CASE LoopError
    <2>1. /\ loop' = [pc |-> "down", todo |-> <<>>] /\ connected' = FALSE /\ broken' = FALSE
          /\ incoming' = <<>> /\ bsubs' = {} /\ channel' = <<>> /\ unacked' = <<>>
          /\ lapsed' = (lapsed \/ unacked # <<>> \/ \E i \in DOMAIN channel : channel[i].op = "pub")
      BY <1>4 DEF LoopError
    <2>2. connected' \in BOOLEAN /\ broken' \in BOOLEAN /\ lapsed' \in BOOLEAN
      BY <2>1, Zenon
    <2>3. /\ loop' \in [pc : {"poll", "down", "resubscribe"}, todo : Seq(Filters)]
          /\ loop'.todo = <<>>
      BY <2>1
    <2>4. /\ incoming' \in Seq(Packet) /\ bsubs' \in SUBSET Filters
          /\ channel' \in Seq(Request) /\ Len(channel') = 0 /\ DOMAIN channel' = {}
      BY <2>1
    <2>5. /\ unacked' \in [DOMAIN unacked' -> Publishers] /\ DOMAIN unacked' = {}
          /\ IsFiniteSet({})
      BY <2>1, FS_EmptySet
    <2>6. Shapes'
      BY <2>4, MqttConnectionAssumption DEF Shapes
    <2>7. Types'
      BY <1>1, <1>2, <2>2, <2>3, <2>4, <2>5 DEF Types, subs
    <2> QED
      BY <1>3, <2>6, <2>7
  <1>5. CASE LoopRetry
    <2>1. UNCHANGED <<loop, connected, client, wire, lapsed>>
      BY <1>5 DEF LoopRetry, history
    <2>2. Shapes'
      BY <2>1 DEF client, Shapes
    <2> QED
      BY <1>1, <1>2, <1>3, <2>1, <2>2 DEF Types, subs, client, wire
  <1> QED
    BY <1>4, <1>5

LEMMA ConnectTypes ==
  ASSUME Types, Shapes, Bounded, LoopConnect
  PROVE  Types' /\ Shapes' /\ Bounded'
  <1>1. CASE LoopConnack
    <2>1. PICK todo \in SetToSeqs(registry) : loop' = [pc |-> "resubscribe", todo |-> todo]
      BY <1>1 DEF LoopConnack, ToResubscribe
    <2>2. todo \in Seq(Filters)
      <3>1. todo \in Seq(registry)
        BY LaidOut DEF Types
      <3> QED
        BY <3>1 DEF Types
    <2>3. channel' = channel
      BY <1>1, ChannelStays DEF LoopConnack
    <2>4. leaky' \in SUBSET Filters /\ shifted' \in BOOLEAN
      BY <1>1 DEF LoopConnack, Types
    <2> QED
      BY <1>1, <2>1, <2>2, <2>3, <2>4 DEF LoopConnack, Types, Shapes, Bounded, subs, tracker,
                                    client, wire
  <1>2. CASE LoopResubscribe
    <2>1. /\ loop.todo \in Seq(Filters) /\ loop.todo # <<>>
          /\ Send("sub", Head(loop.todo))
          /\ loop' = [loop EXCEPT !.todo = Tail(loop.todo)]
      BY <1>2 DEF LoopResubscribe, Types
    <2>2. /\ Head(loop.todo) \in Filters /\ Head(loop.todo) \in Callers
          /\ Tail(loop.todo) \in Seq(Filters)
      BY <2>1, TailIs, CallersAre
    <2>3. channel \in Seq(Request)
      BY DEF Types
    <2>4. channel' \in Seq(Request) /\ unacked' = unacked
      BY <2>1, <2>2, <2>3, Sends
    <2>5. Shapes'
      BY <2>1, <2>2, SendShapes
    <2> QED
      BY <1>2, <2>1, <2>2, <2>3, <2>4, <2>5
         DEF LoopResubscribe, Types, Bounded, subs, tracker, wire, history
  <1>3. CASE LoopReady
    <2>1. channel' = channel
      BY <1>3, ChannelStays DEF LoopReady
    <2> QED
      BY <1>3, <2>1 DEF LoopReady, Polling, Types, Shapes, Bounded, subs, tracker,
                        client, wire, history
  <1> QED
    BY <1>1, <1>2, <1>3 DEF LoopConnect

LEMMA OutsideTypes ==
  ASSUME Types, Shapes, Bounded,
         WireBreaks \/ (\E c \in Requesters : Respond(c)) \/ UNCHANGED vars
  PROVE  Types' /\ Shapes' /\ Bounded'
  <1>1. CASE WireBreaks
    <2>1. channel' = channel
      BY <1>1, ChannelStays DEF WireBreaks
    <2> QED
      BY <1>1, <2>1 DEF WireBreaks, Types, Shapes, Bounded, subs, tracker,
                        client, history
  <1>2. ASSUME NEW c \in Requesters, Respond(c) PROVE Types' /\ Shapes' /\ Bounded'
    <2>1. channel' = channel
      BY <1>2, ChannelStays DEF Respond
    <2>2. incoming' \in Seq(Packet) /\ replies' \in [Requesters -> Nat]
      <3>1. Reply(c) \in Packet
        BY DEF Reply, Packet
      <3> QED
        BY <1>2, <3>1 DEF Respond, Types
    <2> QED
      BY <1>2, <2>1, <2>2 DEF Respond, Types, Shapes, Bounded, subs, tracker,
                        client, history
  <1>3. CASE UNCHANGED vars
    <2>1. channel' = channel
      BY <1>3, ChannelStays DEF vars
    <2> QED
      BY <1>3, <2>1 DEF vars, Types, Shapes, Bounded, subs, tracker, client, wire, history
  <1> QED
    BY <1>1, <1>2, <1>3

-----------------------------------------------------------------------------
(* Waiters for a SUBACK. *)

(* A caller waits once, has its routing entry and no answer; and a request *)
(* that is over has no entry.                                              *)
Waiters ==
    /\ Distinct
    /\ \A i \in DOMAIN pending_subacks :
          /\ pending_subacks[i] \in registry
          /\ answer[pending_subacks[i]] = None
          /\ pc[pending_subacks[i]] \in {"subscribe", "suback", "unsubscribe", "guards"}
    /\ \A c \in registry : pc[c] # "idle"
    /\ \A c \in Requesters : pc[c] = "done" => c \notin registry
    /\ \A c \in Filters : pc[c] = "idle" => answer[c] = None

LEMMA CallerWaiters ==
  ASSUME Types, Waiters, NEW c \in Callers,
         Moves(c) \/ SubscribeRegister(c) \/ SubscribeSend(c) \/ Unsubscribe(c)
         \/ DropGuards(c) \/ Submit(c) \/ Release(c)
  PROVE  Waiters'
  <1>0. /\ pc \in [Callers -> Places] /\ registry \in SUBSET Filters
        /\ pending_subacks \in Seq(Filters)
    BY DEF Types
  <1>1. CASE Moves(c)
    <2>1. (\E to : Goes(c, to)) /\ UNCHANGED subs
      BY <1>1, MovesAre
    <2>2. PICK to : Goes(c, to)
      BY <2>1
    <2>3. /\ pc' = [pc EXCEPT ![c] = to] /\ Leads(pc[c], to, c)
          /\ UNCHANGED <<registry, pending_subacks, answer>>
      BY <2>1, <2>2 DEF Goes, subs
    <2>4. pc'[c] = to /\ \A q \in Callers : q # c => pc'[q] = pc[q]
      BY <1>0, <2>3
    <2>5. \A q \in Filters : q \in Callers
      BY CallersAre
    <2>6. (c \in Requesters => to # "done") /\ to # "idle"
      BY <2>3, CallersAre DEF Leads
    <2>7. ASSUME NEW i \in DOMAIN pending_subacks
          PROVE  /\ pending_subacks[i] \in registry
                 /\ answer[pending_subacks[i]] = None
                 /\ pc'[pending_subacks[i]] \in {"subscribe", "suback", "unsubscribe", "guards"}
      <3>1. pending_subacks[i] \in Filters
        BY <1>0
      <3>2. /\ pending_subacks[i] \in registry
            /\ answer[pending_subacks[i]] = None
            /\ pc[pending_subacks[i]] \in {"subscribe", "suback", "unsubscribe", "guards"}
        BY DEF Waiters
      <3>3. CASE pending_subacks[i] = c
        BY <2>3, <2>4, <3>1, <3>2, <3>3, CallersAre DEF Leads
      <3>4. CASE pending_subacks[i] # c
        BY <2>4, <2>5, <3>1, <3>2, <3>4
      <3> QED
        BY <3>3, <3>4
    <2>8. Distinct'
      BY <2>3 DEF Waiters, Distinct
    <2> QED
      BY <1>0, <2>3, <2>4, <2>5, <2>6, <2>7, <2>8, CallersAre DEF Waiters
  <1>2. CASE SubscribeRegister(c)
    <2>1. /\ c \in Filters /\ pc[c] = "idle" /\ pc' = [pc EXCEPT ![c] = "subscribe"]
          /\ registry' = registry \union {c} /\ answer' = answer
          /\ pending_subacks' = Append(pending_subacks, c)
      BY <1>2 DEF SubscribeRegister, Goto, Filters
    <2>2. pc'[c] = "subscribe" /\ \A q \in Callers : q # c => pc'[q] = pc[q]
      BY <1>0, <2>1
    <2>3. c \notin registry /\ answer[c] = None
          /\ \A i \in DOMAIN pending_subacks : pending_subacks[i] # c
      BY <2>1 DEF Waiters
    <2>4. /\ DOMAIN pending_subacks' = 1..Len(pending_subacks) + 1
          /\ DOMAIN pending_subacks = 1..Len(pending_subacks) /\ Len(pending_subacks) \in Nat
          /\ \A i \in DOMAIN pending_subacks : pending_subacks'[i] = pending_subacks[i]
          /\ pending_subacks'[Len(pending_subacks) + 1] = c
      BY <1>0, <2>1
    <2>5. Distinct'
      BY <2>3, <2>4 DEF Waiters, Distinct
    <2>6. \A q \in Filters : q \in Callers
      BY CallersAre
    <2>7. ASSUME NEW i \in DOMAIN pending_subacks'
          PROVE  /\ pending_subacks'[i] \in registry'
                 /\ answer'[pending_subacks'[i]] = None
                 /\ pc'[pending_subacks'[i]] \in {"subscribe", "suback", "unsubscribe", "guards"}
      <3>1. CASE i \in DOMAIN pending_subacks
        <4>1. /\ pending_subacks'[i] = pending_subacks[i] /\ pending_subacks[i] # c
              /\ pending_subacks[i] \in Callers
          BY <1>0, <2>3, <2>4, <2>6, <3>1
        <4>2. /\ pending_subacks[i] \in registry
              /\ answer[pending_subacks[i]] = None
              /\ pc[pending_subacks[i]] \in {"subscribe", "suback", "unsubscribe", "guards"}
          BY <3>1 DEF Waiters
        <4> QED
          BY <2>1, <2>2, <4>1, <4>2
      <3>2. CASE i = Len(pending_subacks) + 1
        BY <2>1, <2>2, <2>3, <2>4, <3>2
      <3> QED
        BY <2>4, <3>1, <3>2
    <2> QED
      BY <1>0, <2>1, <2>2, <2>5, <2>6, <2>7, CallersAre DEF Waiters
  <1>3. CASE SubscribeSend(c) \/ Unsubscribe(c) \/ Submit(c)
    <2>1. PICK to : pc' = [pc EXCEPT ![c] = to] /\ UNCHANGED subs /\
             \/ pc[c] = "subscribe" /\ to = "suback"
             \/ pc[c] = "unsubscribe" /\ to = IF c \in registry THEN "guards" ELSE "done"
             \/ pc[c] \in {"publish", "idle"} /\ to = "submitted"
      BY <1>3 DEF SubscribeSend, Unsubscribe, Submit, Goto
    <2>2. pc'[c] = to /\ \A q \in Callers : q # c => pc'[q] = pc[q]
      BY <1>0, <2>1
    <2>3. \A q \in Filters : q \in Callers
      BY CallersAre
    <2>4. UNCHANGED <<registry, pending_subacks, answer>>
      BY <2>1 DEF subs
    <2>5. ASSUME NEW i \in DOMAIN pending_subacks
          PROVE  /\ pending_subacks[i] \in registry
                 /\ answer[pending_subacks[i]] = None
                 /\ pc'[pending_subacks[i]] \in {"subscribe", "suback", "unsubscribe", "guards"}
      <3>1. pending_subacks[i] \in Callers
        BY <1>0, <2>3
      <3>2. /\ pending_subacks[i] \in registry
            /\ answer[pending_subacks[i]] = None
            /\ pc[pending_subacks[i]] \in {"subscribe", "suback", "unsubscribe", "guards"}
        BY DEF Waiters
      <3> QED
        BY <2>1, <2>2, <3>1, <3>2
    <2>6. Distinct'
      BY <2>4 DEF Waiters, Distinct
    <2>7. \A q \in Requesters : pc'[q] = "done" => q \notin registry
      BY <2>1, <2>2, <2>3, CallersAre DEF Waiters
    <2>8. \A q \in registry : pc'[q] # "idle"
      BY <1>0, <2>1, <2>2, <2>3 DEF Waiters
    <2>9. \A q \in Filters : pc'[q] = "idle" => answer[q] = None
      BY <2>1, <2>2, <2>3 DEF Waiters
    <2> QED
      BY <2>4, <2>5, <2>6, <2>7, <2>8, <2>9 DEF Waiters
  <1>4. CASE DropGuards(c)
    <2>1. /\ pc' = [pc EXCEPT ![c] = "done"] /\ registry' = registry \ {c} /\ answer' = answer
          /\ pending_subacks' = RemoveFirst(pending_subacks, c)
      BY <1>4 DEF DropGuards, Goto
    <2>2. pc'[c] = "done" /\ \A q \in Callers : q # c => pc'[q] = pc[q]
      BY <1>0, <2>1
    <2>3. /\ \A i \in DOMAIN pending_subacks' :
                /\ pending_subacks'[i] # c
                /\ \E k \in DOMAIN pending_subacks : pending_subacks[k] = pending_subacks'[i]
          /\ Distinct'
      BY <1>0, <2>1, WithoutIt DEF Waiters, Distinct
    <2>4. \A q \in Filters : q \in Callers
      BY CallersAre
    <2>5. ASSUME NEW i \in DOMAIN pending_subacks'
          PROVE  /\ pending_subacks'[i] \in registry'
                 /\ answer'[pending_subacks'[i]] = None
                 /\ pc'[pending_subacks'[i]] \in {"subscribe", "suback", "unsubscribe", "guards"}
      <3>1. PICK k \in DOMAIN pending_subacks : pending_subacks[k] = pending_subacks'[i]
        BY <2>3
      <3>2. pending_subacks[k] # c /\ pending_subacks[k] \in Callers
        BY <1>0, <2>3, <2>4, <3>1
      <3>3. /\ pending_subacks[k] \in registry
            /\ answer[pending_subacks[k]] = None
            /\ pc[pending_subacks[k]] \in {"subscribe", "suback", "unsubscribe", "guards"}
        BY DEF Waiters
      <3> QED
        BY <2>1, <2>2, <3>1, <3>2, <3>3
    <2> QED
      BY <1>0, <2>1, <2>2, <2>3, <2>4, <2>5, CallersAre DEF Waiters
  <1>5. CASE Release(c)
    <2>1. /\ pc[c] = "release" /\ pc' = [pc EXCEPT ![c] = "unsubscribe"]
          /\ registry' = registry \ {c} /\ UNCHANGED <<pending_subacks, answer>>
      BY <1>5 DEF Release, AfterRelease, Goto
    <2>2. pc'[c] = "unsubscribe" /\ \A q \in Callers : q # c => pc'[q] = pc[q]
      BY <1>0, <2>1
    <2>3. \A q \in Filters : q \in Callers
      BY CallersAre
    <2>4. ASSUME NEW i \in DOMAIN pending_subacks
          PROVE  /\ pending_subacks[i] \in registry'
                 /\ answer[pending_subacks[i]] = None
                 /\ pc'[pending_subacks[i]] \in {"subscribe", "suback", "unsubscribe", "guards"}
      <3>1. pending_subacks[i] \in Callers
        BY <1>0, <2>3
      <3>2. /\ pending_subacks[i] \in registry
            /\ answer[pending_subacks[i]] = None
            /\ pc[pending_subacks[i]] \in {"subscribe", "suback", "unsubscribe", "guards"}
        BY DEF Waiters
      <3>3. pending_subacks[i] # c
        BY <2>1, <3>2
      <3> QED
        BY <2>1, <2>2, <3>1, <3>2, <3>3
    <2>5. Distinct'
      BY <2>1 DEF Waiters, Distinct
    <2> QED
      BY <1>0, <2>1, <2>2, <2>3, <2>4, <2>5, CallersAre DEF Waiters
  <1> QED
    BY <1>1, <1>2, <1>3, <1>4, <1>5

(* A SUBACK wakes the first waiter. *)
LEMMA SubackIs ==
  ASSUME Types, Waiters, LoopSuback
  PROVE  \/ UNCHANGED <<pending_subacks, answer>> /\ pending_subacks = <<>>
         \/ /\ pending_subacks # <<>> /\ pending_subacks[1] \in Filters
            /\ 1 \in DOMAIN pending_subacks /\ Len(pending_subacks) \in Nat
            /\ DOMAIN pending_subacks' = 1..Len(pending_subacks) - 1
            /\ DOMAIN pending_subacks = 1..Len(pending_subacks)
            /\ \A i \in 1..Len(pending_subacks) - 1 :
                  /\ pending_subacks'[i] = pending_subacks[i + 1]
                  /\ pending_subacks[i + 1] # pending_subacks[1]
            /\ answer'[pending_subacks[1]] =
                  IF Accepted(Head(incoming).who) THEN "ok" ELSE "err"
            /\ \A q \in Callers : q # pending_subacks[1] => answer'[q] = answer[q]
  <1>1. /\ pending_subacks \in Seq(Filters) /\ answer \in [Callers -> {None, "ok", "err"}]
    BY DEF Types
  <1>2. CASE pending_subacks = <<>>
    BY <1>2 DEF LoopSuback
  <1>3. CASE pending_subacks # <<>>
    <2>1. /\ Head(pending_subacks) = pending_subacks[1] /\ pending_subacks[1] \in Filters
          /\ Len(pending_subacks) \in Nat \ {0} /\ 1 \in DOMAIN pending_subacks
          /\ Tail(pending_subacks) \in Seq(Filters)
          /\ Len(Tail(pending_subacks)) = Len(pending_subacks) - 1
          /\ \A i \in 1..Len(pending_subacks) - 1 :
                Tail(pending_subacks)[i] = pending_subacks[i + 1]
      BY <1>1, <1>3, TailIs
    <2>2. /\ pending_subacks' = Tail(pending_subacks)
          /\ answer' = [answer EXCEPT ![pending_subacks[1]] =
                           IF Accepted(Head(incoming).who) THEN "ok" ELSE "err"]
      BY <1>3, <2>1 DEF LoopSuback
    <2>3. DOMAIN pending_subacks = 1..Len(pending_subacks)
      BY <1>1
    <2>4. \A i \in 1..Len(pending_subacks) - 1 : pending_subacks[i + 1] # pending_subacks[1]
      BY <2>1, <2>3 DEF Waiters, Distinct
    <2>5. pending_subacks[1] \in Callers
      BY <2>1, CallersAre
    <2>6. DOMAIN pending_subacks' = 1..Len(pending_subacks) - 1
      BY <2>1, <2>2
    <2> QED
      BY <1>1, <1>3, <2>1, <2>2, <2>3, <2>4, <2>5, <2>6
  <1> QED
    BY <1>2, <1>3

LEMMA SubackWaiters ==
  ASSUME Types, Waiters, LoopSuback
  PROVE  Waiters'
  <1>0. pending_subacks \in Seq(Filters) /\ registry \in SUBSET Filters
    BY DEF Types
  <1>1. UNCHANGED <<pc, registry>>
    BY DEF LoopSuback, Reads
  <1>2. CASE UNCHANGED <<pending_subacks, answer>>
    BY <1>1, <1>2 DEF Waiters, Distinct
  <1>3. CASE ~UNCHANGED <<pending_subacks, answer>>
    <2>1. /\ pending_subacks[1] \in Filters /\ 1 \in DOMAIN pending_subacks
          /\ Len(pending_subacks) \in Nat
          /\ DOMAIN pending_subacks' = 1..Len(pending_subacks) - 1
          /\ DOMAIN pending_subacks = 1..Len(pending_subacks)
          /\ \A i \in 1..Len(pending_subacks) - 1 :
                /\ pending_subacks'[i] = pending_subacks[i + 1]
                /\ pending_subacks[i + 1] # pending_subacks[1]
          /\ \A q \in Callers : q # pending_subacks[1] => answer'[q] = answer[q]
      BY <1>3, SubackIs
    <2>2. \A q \in Filters : q \in Callers
      BY CallersAre
    <2>3. Distinct'
      BY <2>1 DEF Waiters, Distinct
    <2>4. ASSUME NEW i \in DOMAIN pending_subacks'
          PROVE  /\ pending_subacks'[i] \in registry
                 /\ answer'[pending_subacks'[i]] = None
                 /\ pc[pending_subacks'[i]] \in {"subscribe", "suback", "unsubscribe", "guards"}
      <3>1. /\ i + 1 \in DOMAIN pending_subacks /\ pending_subacks'[i] = pending_subacks[i + 1]
            /\ pending_subacks[i + 1] # pending_subacks[1]
        BY <2>1
      <3>2. pending_subacks[i + 1] \in Callers
        BY <1>0, <2>2, <3>1
      <3> QED
        BY <2>1, <3>1, <3>2 DEF Waiters
    <2>5. \A c \in Filters : pc[c] = "idle" => answer'[c] = None
      BY <2>1, <2>2 DEF Waiters
    <2> QED
      BY <1>1, <2>3, <2>4, <2>5 DEF Waiters
  <1> QED
    BY <1>2, <1>3

LEMMA OtherWaiters ==
  ASSUME Waiters, UNCHANGED <<pc, subs>>
  PROVE  Waiters'
  BY DEF Waiters, Distinct, subs

-----------------------------------------------------------------------------
(* Markers that line up with the publishes of a queue. *)

LEMMA LinedAgree ==
  ASSUME NEW q, NEW markers, NEW others, NEW k \in Nat, NEW n \in Nat,
         LinedUp(q, markers, k, n),
         \A i \in k + 1..n : others[i] = markers[i]
  PROVE  LinedUp(q, others, k, n)
  BY DEF LinedUp

LEMMA LinedSame ==
  ASSUME NEW q, NEW r, NEW markers, NEW k \in Nat, NEW n \in Nat,
         LinedUp(q, markers, k, n), Publishes(r) = Publishes(q),
         \A l \in Publishes(q) : r[l].who = q[l].who
  PROVE  LinedUp(r, markers, k, n)
  BY DEF LinedUp

(* One more publish is asked for, and it has the next marker. *)
LEMMA LinedMore ==
  ASSUME NEW q, NEW r, NEW markers, NEW k \in Nat, NEW n \in Nat, k <= n,
         LinedUp(q, markers, k, n),
         Publishes(q) \in SUBSET Nat, NEW last \in Nat,
         \A l \in Publishes(q) : l < last /\ r[l].who = q[l].who,
         Publishes(r) = Publishes(q) \union {last},
         markers[n + 1] = r[last].who
  PROVE  LinedUp(r, markers, k, n + 1)
  <1>1. PICK at \in [k + 1..n -> Publishes(q)] :
           /\ \A i, j \in k + 1..n : i < j => at[i] < at[j]
           /\ \A i \in k + 1..n : markers[i] = q[at[i]].who
           /\ \A l \in Publishes(q) : \E i \in k + 1..n : at[i] = l
    BY DEF LinedUp
  <1> DEFINE to == [i \in k + 1..n + 1 |-> IF i = n + 1 THEN last ELSE at[i]]
  <1>0. \A i \in k + 1..n + 1 : i = n + 1 \/ i \in k + 1..n
    OBVIOUS
  <1>2. to \in [k + 1..n + 1 -> Publishes(r)]
    BY <1>0, <1>1
  <1>3. \A i, j \in k + 1..n + 1 : i < j => to[i] < to[j]
    BY <1>0, <1>1
  <1>4. \A i \in k + 1..n + 1 : markers[i] = r[to[i]].who
    BY <1>0, <1>1
  <1>5. ASSUME NEW l \in Publishes(r) PROVE \E i \in k + 1..n + 1 : to[i] = l
    <2>1. CASE l = last
      <3>1. n + 1 \in k + 1..n + 1 /\ to[n + 1] = last
        OBVIOUS
      <3> QED
        BY <2>1, <3>1
    <2>2. CASE l \in Publishes(q)
      <3>1. PICK i \in k + 1..n : at[i] = l
        BY <1>1, <2>2
      <3>2. i \in k + 1..n + 1 /\ i # n + 1
        BY <3>1
      <3> QED
        BY <3>1, <3>2
    <2> QED
      BY <2>1, <2>2
  <1> QED
    BY <1>2, <1>3, <1>4, <1>5 DEF LinedUp

(* The first of the queue is written: a publish has the first marker. *)
LEMMA LinedTail ==
  ASSUME NEW q \in Seq(Request), q # <<>>, NEW markers, NEW k \in Nat, NEW n \in Nat,
         LinedUp(q, markers, k, n)
  PROVE  /\ q[1].op # "pub" => LinedUp(Tail(q), markers, k, n)
         /\ q[1].op = "pub" => /\ k < n /\ markers[k + 1] = q[1].who
                               /\ LinedUp(Tail(q), markers, k + 1, n)
  <1> DEFINE r == Tail(q)
  <1>1. /\ Len(q) \in Nat \ {0} /\ DOMAIN q = 1..Len(q) /\ DOMAIN r = 1..Len(q) - 1
        /\ \A i \in 1..Len(q) - 1 : r[i] = q[i + 1]
    BY TailIs
  <1> HIDE DEF r
  <1>2. /\ \A l \in Publishes(r) : l \in Nat /\ l + 1 \in Publishes(q) /\ r[l] = q[l + 1]
        /\ \A l \in Publishes(q) : l \in Nat /\ l >= 1
        /\ \A l \in Publishes(q) : l # 1 => l - 1 \in Publishes(r)
    BY <1>1 DEF Publishes
  <1>3. PICK at \in [k + 1..n -> Publishes(q)] :
           /\ \A i, j \in k + 1..n : i < j => at[i] < at[j]
           /\ \A i \in k + 1..n : markers[i] = q[at[i]].who
           /\ \A l \in Publishes(q) : \E i \in k + 1..n : at[i] = l
    BY DEF LinedUp
  <1>4. ASSUME NEW lo \in k..n, \A i \in lo + 1..n : at[i] # 1,
               \A i \in k + 1..n : at[i] # 1 => i \in lo + 1..n
        PROVE  LinedUp(r, markers, lo, n)
    <2> DEFINE to == [i \in lo + 1..n |-> at[i] - 1]
    <2>1. \A i \in lo + 1..n : i \in k + 1..n /\ at[i] \in Publishes(q) /\ at[i] # 1
      BY <1>3, <1>4
    <2>2. to \in [lo + 1..n -> Publishes(r)]
      BY <1>2, <2>1
    <2>3. \A i, j \in lo + 1..n : i < j => to[i] < to[j]
      BY <1>2, <1>3, <2>1
    <2>4. \A i \in lo + 1..n : markers[i] = r[to[i]].who
      <3> TAKE i \in lo + 1..n
      <3>1. at[i] - 1 \in Publishes(r) /\ at[i] \in Nat
        BY <1>2, <2>1
      <3>2. r[at[i] - 1] = q[at[i]]
        BY <1>2, <3>1
      <3> QED
        BY <1>3, <2>1, <3>2
    <2>5. ASSUME NEW l \in Publishes(r) PROVE \E i \in lo + 1..n : to[i] = l
      <3>1. PICK i \in k + 1..n : at[i] = l + 1
        BY <1>2, <1>3
      <3>2. l \in Nat /\ l >= 1
        BY <1>1 DEF Publishes
      <3>3. i \in lo + 1..n /\ to[i] = l
        BY <1>4, <3>1, <3>2
      <3> QED
        BY <3>3
    <2> QED
      BY <2>2, <2>3, <2>4, <2>5 DEF LinedUp
  <1>5. CASE q[1].op # "pub"
    <2>1. \A i \in k + 1..n : at[i] # 1
      BY <1>3, <1>5 DEF Publishes
    <2>2. CASE k <= n
      BY <1>4, <1>5, <2>1, <2>2 DEF r
    <2>3. CASE k > n
      <3>1. Publishes(r) = {} /\ k + 1..n = {}
        BY <1>2, <1>3, <2>3
      <3>2. at \in [k + 1..n -> Publishes(r)]
        BY <1>3, <3>1
      <3> QED
        BY <1>5, <3>1, <3>2 DEF LinedUp, r
    <2> QED
      BY <2>2, <2>3
  <1>6. CASE q[1].op = "pub"
    <2>1. 1 \in Publishes(q)
      BY <1>1, <1>6 DEF Publishes
    <2>2. PICK i \in k + 1..n : at[i] = 1
      BY <1>3, <2>1
    <2>3. k + 1 \in k + 1..n /\ k + 1 \in k..n /\ k < n
      BY <2>2
    <2>4. at[k + 1] \in Nat /\ at[k + 1] >= 1
      BY <1>2, <1>3, <2>3
    <2>5. i = k + 1
      <3>1. SUFFICES ASSUME k + 1 < i PROVE FALSE
        BY <2>2
      <3>2. at[k + 1] < at[i]
        BY <1>3, <2>2, <2>3, <3>1
      <3> QED
        BY <2>2, <2>4, <3>2
    <2>6. markers[k + 1] = q[1].who
      BY <1>3, <2>2, <2>5
    <2>7. \A j \in k + 1..n : at[j] # 1 <=> j \in k + 1 + 1..n
      BY <1>3, <2>2, <2>5
    <2>8. LinedUp(r, markers, k + 1, n)
      BY <1>4, <2>3, <2>7
    <2> QED
      BY <1>6, <2>3, <2>6, <2>8 DEF r
  <1> QED
    BY <1>5, <1>6

(* The first marker is taken, and the others move up. *)
LEMMA LinedUpShifts ==
  ASSUME NEW q, NEW markers, NEW others, NEW k \in Nat, NEW n \in Nat,
         LinedUp(q, markers, k + 1, n + 1),
         \A i \in k + 1..n : others[i] = markers[i + 1]
  PROVE  LinedUp(q, others, k, n)
  <1>1. PICK at \in [k + 1 + 1..n + 1 -> Publishes(q)] :
           /\ \A i, j \in k + 1 + 1..n + 1 : i < j => at[i] < at[j]
           /\ \A i \in k + 1 + 1..n + 1 : markers[i] = q[at[i]].who
           /\ \A l \in Publishes(q) : \E i \in k + 1 + 1..n + 1 : at[i] = l
    BY DEF LinedUp
  <1> DEFINE to == [i \in k + 1..n |-> at[i + 1]]
  <1>2. \A i \in k + 1..n : i + 1 \in k + 1 + 1..n + 1
    OBVIOUS
  <1>3. to \in [k + 1..n -> Publishes(q)]
    BY <1>1, <1>2
  <1>4. \A i, j \in k + 1..n : i < j => to[i] < to[j]
    BY <1>1, <1>2
  <1>5. \A i \in k + 1..n : others[i] = q[to[i]].who
    BY <1>1, <1>2
  <1>6. ASSUME NEW l \in Publishes(q) PROVE \E i \in k + 1..n : to[i] = l
    <2>1. PICK i \in k + 1 + 1..n + 1 : at[i] = l
      BY <1>1
    <2>2. i - 1 \in k + 1..n /\ (i - 1) + 1 = i
      BY <2>1
    <2>3. to[i - 1] = l
      BY <2>1, <2>2
    <2> QED
      BY <2>2, <2>3
  <1> QED
    BY <1>3, <1>4, <1>5, <1>6 DEF LinedUp

-----------------------------------------------------------------------------
(* A caller that confirms publishes once: it waits for its marker in one   *)
(* place, and until it has one no marker bears its name.                   *)
Queued(c) == \E i \in DOMAIN publish_queue : publish_queue[i] = c

Registers(c) == funnel.pc = "register" /\ funnel.who = c

Marked(c) ==
    \/ \E i \in DOMAIN awaiting_outgoing : awaiting_outgoing[i] = c
    \/ \E p \in DOMAIN inflight : inflight[p] = c

PublishesOnce == \A c \in Confirmers :
    /\ pc[c] = "idle" => ~Queued(c) /\ ~Registers(c) /\ ~Marked(c)
    /\ Queued(c) => ~Registers(c) /\ ~Marked(c)
    /\ Registers(c) => ~Marked(c)
    /\ \A i, j \in DOMAIN publish_queue :
          publish_queue[i] = c /\ publish_queue[j] = c => i = j

LEMMA OnceStays ==
  ASSUME PublishesOnce, publish_queue' = publish_queue,
         \A c \in Confirmers : pc'[c] = "idle" => pc[c] = "idle",
         \A c \in Confirmers : Registers(c)' => Registers(c),
         \A c \in Confirmers : Marked(c)' => Marked(c)
  PROVE  PublishesOnce'
  <1>1. \A c \in Confirmers : Queued(c)' <=> Queued(c)
    BY DEF Queued
  <1> QED
    BY <1>1 DEF PublishesOnce

LEMMA SubmitOnce ==
  ASSUME Types, PublishesOnce, NEW c \in Callers, Submit(c)
  PROVE  PublishesOnce'
  <1> DEFINE N == Len(publish_queue)
  <1>1. /\ c \in Publishers /\ pc' = [pc EXCEPT ![c] = "submitted"] /\ pc \in [Callers -> Places]
        /\ publish_queue \in Seq(Publishers) /\ publish_queue' = Append(publish_queue, c)
        /\ UNCHANGED <<funnel, awaiting_outgoing, inflight>>
        /\ c \in Confirmers => pc[c] = "idle"
    BY MqttConnectionAssumption DEF Submit, Goto, Types, tracker, Publishers
  <1>2. /\ N \in Nat /\ DOMAIN publish_queue = 1..N /\ DOMAIN publish_queue' = 1..N + 1
        /\ \A i \in 1..N : publish_queue'[i] = publish_queue[i]
        /\ publish_queue'[N + 1] = c
    BY <1>1
  <1> HIDE DEF N
  <1>3. ASSUME NEW q \in Confirmers
        PROVE  /\ pc'[q] = "idle" => ~Queued(q)' /\ ~Registers(q)' /\ ~Marked(q)'
               /\ Queued(q)' => ~Registers(q)' /\ ~Marked(q)'
               /\ Registers(q)' => ~Marked(q)'
               /\ \A i, j \in DOMAIN publish_queue' :
                     publish_queue'[i] = q /\ publish_queue'[j] = q => i = j
    <2>1. (Registers(q)' <=> Registers(q)) /\ (Marked(q)' <=> Marked(q))
      BY <1>1 DEF Registers, Marked
    <2>2. q \in Callers
      BY CallersAre
    <2>3. CASE q = c
      <3>1. pc[q] = "idle" /\ pc'[q] = "submitted"
        BY <1>1, <2>2, <2>3
      <3>2. ~Queued(q) /\ ~Registers(q) /\ ~Marked(q)
        BY <3>1 DEF PublishesOnce
      <3>3. \A i \in 1..N : publish_queue[i] # q
        BY <1>2, <3>2 DEF Queued
      <3>4. \A i \in DOMAIN publish_queue' : publish_queue'[i] = q => i = N + 1
        BY <1>2, <3>3
      <3> QED
        BY <2>1, <3>1, <3>2, <3>4
    <2>4. CASE q # c
      <3>1. pc'[q] = pc[q]
        BY <1>1, <2>2, <2>4
      <3>2. \A i \in DOMAIN publish_queue' : publish_queue'[i] = q =>
               i \in DOMAIN publish_queue /\ publish_queue[i] = q
        BY <1>2, <2>4
      <3>3. Queued(q)' => Queued(q)
        BY <3>2 DEF Queued
      <3> QED
        BY <2>1, <3>1, <3>2, <3>3 DEF PublishesOnce
    <2> QED
      BY <2>3, <2>4
  <1> QED
    BY <1>3 DEF PublishesOnce

LEMMA FunnelOnce ==
  ASSUME Types, PublishesOnce, Funnel
  PROVE  PublishesOnce'
  <1>0. pc' = pc
    BY DEF Funnel, FunnelTake, FunnelRegister, FunnelSend
  <1>1. CASE FunnelTake
    <2> DEFINE N == Len(publish_queue)
    <2>1. /\ publish_queue \in Seq(Publishers) /\ publish_queue # <<>>
          /\ publish_queue' = Tail(publish_queue) /\ funnel.pc = "recv"
          /\ funnel' = [pc |-> "register", who |-> Head(publish_queue)]
          /\ UNCHANGED <<awaiting_outgoing, inflight>>
      BY <1>1 DEF FunnelTake, Types, tracker
    <2>2. /\ N \in Nat \ {0} /\ DOMAIN publish_queue = 1..N
          /\ DOMAIN publish_queue' = 1..N - 1
          /\ \A i \in 1..N - 1 : publish_queue'[i] = publish_queue[i + 1]
          /\ Head(publish_queue) = publish_queue[1]
      BY <2>1, TailIs
    <2> HIDE DEF N
    <2>3. ASSUME NEW q \in Confirmers
          PROVE  /\ pc'[q] = "idle" => ~Queued(q)' /\ ~Registers(q)' /\ ~Marked(q)'
                 /\ Queued(q)' => ~Registers(q)' /\ ~Marked(q)'
                 /\ Registers(q)' => ~Marked(q)'
                 /\ \A i, j \in DOMAIN publish_queue' :
                       publish_queue'[i] = q /\ publish_queue'[j] = q => i = j
      <3>1. Marked(q)' <=> Marked(q)
        BY <2>1 DEF Marked
      <3>2. \A i \in DOMAIN publish_queue' : publish_queue'[i] = q =>
               i + 1 \in DOMAIN publish_queue /\ publish_queue[i + 1] = q /\ i \in Nat /\ i + 1 # 1
        BY <2>2
      <3>3. Queued(q)' => Queued(q)
        BY <3>2 DEF Queued
      <3>4. Registers(q)' => 1 \in DOMAIN publish_queue /\ publish_queue[1] = q
        BY <2>1, <2>2 DEF Registers
      <3>5. Registers(q)' => Queued(q)
        BY <3>4 DEF Queued
      <3>6. ASSUME Registers(q)', Queued(q)' PROVE FALSE
        <4>1. PICK i \in DOMAIN publish_queue' : publish_queue'[i] = q
          BY <3>6 DEF Queued
        <4>2. i + 1 \in DOMAIN publish_queue /\ publish_queue[i + 1] = q /\ i + 1 # 1
          BY <3>2, <4>1
        <4> QED
          BY <3>4, <3>6, <4>2 DEF PublishesOnce
      <3>7. \A i, j \in DOMAIN publish_queue' :
               publish_queue'[i] = q /\ publish_queue'[j] = q => i = j
        <4> TAKE i, j \in DOMAIN publish_queue'
        <4> HAVE publish_queue'[i] = q /\ publish_queue'[j] = q
        <4>1. i + 1 = j + 1 /\ i \in Nat /\ j \in Nat
          BY <3>2 DEF PublishesOnce
        <4> QED
          BY <4>1
      <3> QED
        BY <1>0, <3>1, <3>3, <3>5, <3>6, <3>7 DEF PublishesOnce
    <2> QED
      BY <2>3 DEF PublishesOnce
  <1>2. CASE FunnelRegister
    <2>1. /\ funnel.pc = "register" /\ funnel' = [funnel EXCEPT !.pc = "send"]
          /\ awaiting_outgoing \in Seq(Publishers) /\ funnel.who \in Publishers
          /\ awaiting_outgoing' = Append(awaiting_outgoing, funnel.who)
          /\ UNCHANGED <<publish_queue, inflight>>
          /\ funnel \in [pc : {"recv", "register", "send"}, who : Publishers \union {None}]
      BY <1>2 DEF FunnelRegister, Types
    <2>2. funnel'.pc = "send"
      BY <2>1
    <2>3. \A q : Marked(q)' => Marked(q) \/ q = funnel.who
      BY <2>1 DEF Marked
    <2>4. ASSUME NEW q \in Confirmers
          PROVE  /\ pc'[q] = "idle" => ~Queued(q)' /\ ~Registers(q)' /\ ~Marked(q)'
                 /\ Queued(q)' => ~Registers(q)' /\ ~Marked(q)'
                 /\ Registers(q)' => ~Marked(q)'
                 /\ \A i, j \in DOMAIN publish_queue' :
                       publish_queue'[i] = q /\ publish_queue'[j] = q => i = j
      <3>1. ~Registers(q)' /\ (Queued(q)' <=> Queued(q))
        BY <2>1, <2>2 DEF Registers, Queued
      <3>2. q = funnel.who => Registers(q)
        BY <2>1 DEF Registers
      <3> QED
        BY <1>0, <2>1, <2>3, <3>1, <3>2 DEF PublishesOnce
    <2> QED
      BY <2>4 DEF PublishesOnce
  <1>3. CASE FunnelSend
    <2>1. /\ funnel'.pc = "recv" /\ UNCHANGED <<publish_queue, awaiting_outgoing, inflight>>
      BY <1>3 DEF FunnelSend, tracker
    <2>2. \A q \in Confirmers : ~Registers(q)' /\ (Marked(q)' => Marked(q))
      BY <2>1 DEF Registers, Marked
    <2> QED
      BY <1>0, <2>1, <2>2, OnceStays
  <1> QED
    BY <1>1, <1>2, <1>3 DEF Funnel

(* The event loop takes markers, and makes none. *)
LEMMA LoopOnce ==
  ASSUME Types, PublishesOnce, LoopRead \/ LoopWrite \/ LoopError \/ LoopRetry
  PROVE  PublishesOnce'
  <1>0. UNCHANGED <<pc, publish_queue, funnel>>
    BY DEF LoopRead, LoopSuback, LoopPuback, LoopReply, Reads, LoopWrite, LoopSubscribe,
           LoopUnsubscribe, LoopPublish, Writes, LoopError, LoopRetry
  <1>1. /\ awaiting_outgoing \in Seq(Publishers)
        /\ inflight \in [DOMAIN inflight -> Publishers]
    BY DEF Types
  <1>2. ASSUME NEW pkid, ObserveOutgoing(pkid), NEW q, Marked(q)' PROVE Marked(q)
    <2>1. CASE UNCHANGED tracker
      BY <1>2, <2>1 DEF Marked, tracker
    <2>2. CASE ~UNCHANGED tracker
      <3> DEFINE N == Len(awaiting_outgoing)
      <3>1. /\ awaiting_outgoing # <<>> /\ awaiting_outgoing' = Tail(awaiting_outgoing)
            /\ inflight' = inflight \/ inflight' = Filed(inflight, pkid, Head(awaiting_outgoing))
        BY <1>2, <2>2 DEF ObserveOutgoing
      <3>2. /\ N \in Nat \ {0} /\ DOMAIN awaiting_outgoing = 1..N
            /\ DOMAIN awaiting_outgoing' = 1..N - 1
            /\ \A i \in 1..N - 1 : awaiting_outgoing'[i] = awaiting_outgoing[i + 1]
            /\ Head(awaiting_outgoing) = awaiting_outgoing[1] /\ 1 \in 1..N
        BY <1>1, <3>1, TailIs
      <3> HIDE DEF N
      <3>3. ASSUME NEW i \in DOMAIN awaiting_outgoing', awaiting_outgoing'[i] = q PROVE Marked(q)
        <4>1. i + 1 \in DOMAIN awaiting_outgoing /\ awaiting_outgoing[i + 1] = q
          BY <3>2, <3>3
        <4> QED
          BY <4>1 DEF Marked
      <3>4. ASSUME NEW p \in DOMAIN inflight', inflight'[p] = q PROVE Marked(q)
        <4>1. \/ p \in DOMAIN inflight /\ inflight[p] = q
              \/ 1 \in DOMAIN awaiting_outgoing /\ awaiting_outgoing[1] = q
          BY <3>1, <3>2, <3>4 DEF Filed
        <4> QED
          BY <4>1 DEF Marked
      <3> QED
        BY <1>2, <3>3, <3>4 DEF Marked
    <2> QED
      BY <2>1, <2>2
  <1>3. ASSUME NEW pkid, ObservePuback(pkid), NEW q, Marked(q)' PROVE Marked(q)
    <2>1. awaiting_outgoing' = awaiting_outgoing
      BY <1>3 DEF ObservePuback, tracker
    <2>2. \A p \in DOMAIN inflight' : p \in DOMAIN inflight /\ inflight'[p] = inflight[p]
      BY <1>1, <1>3 DEF ObservePuback, tracker, InflightWithout, Restrict
    <2> QED
      BY <1>3, <2>1, <2>2 DEF Marked
  <1>4. ASSUME NEW q \in Confirmers, Marked(q)' PROVE Marked(q)
    <2>1. CASE LoopPublish
      BY <1>2, <1>4, <2>1 DEF LoopPublish
    <2>2. CASE LoopPuback
      BY <1>3, <1>4, <2>2 DEF LoopPuback
    <2>3. CASE ~LoopPublish /\ ~LoopPuback
      <3>1. UNCHANGED <<awaiting_outgoing, inflight>>
        BY <2>3 DEF LoopRead, LoopSuback, LoopReply, LoopWrite, LoopSubscribe,
           LoopUnsubscribe, LoopError, LoopRetry, FailConfirmations, tracker
      <3> QED
        BY <1>4, <3>1 DEF Marked
    <2> QED
      BY <2>1, <2>2, <2>3
  <1>5. \A q \in Confirmers : Registers(q)' => Registers(q)
    BY <1>0 DEF Registers
  <1> QED
    BY <1>0, <1>4, <1>5, OnceStays

-----------------------------------------------------------------------------
(* The markers that a connection left, and those of this one. *)

(* The number of markers whose publish was asked of the client. *)
Asked == IF funnel.pc = "send" THEN Len(awaiting_outgoing) - 1
         ELSE Len(awaiting_outgoing)

SendsLast == funnel.pc = "send" =>
    /\ Len(awaiting_outgoing) > 0
    /\ awaiting_outgoing[Len(awaiting_outgoing)] = funnel.who

(* Behind k markers, that are there only if a connection lapsed, come      *)
(* those of the publishes in the channel.  Those that still have a         *)
(* confirmation sender belong to publishes that were written.              *)
Behind(k) ==
    /\ k \in 0..Asked
    /\ LinedUp(channel, awaiting_outgoing, k, Asked)
    /\ lapsed \/ k = 0
    /\ \A i \in 1..k : awaiting_outgoing[i] \in confirming \ stored => broken

(* A PUBACK on the way has a packet id of its own, and settles a waiter    *)
(* whose message was stored.                                               *)
Settles(p) == p \in DOMAIN inflight /\ inflight[p] \in confirming => inflight[p] \in stored

Pubacks == \A i \in DOMAIN incoming : incoming[i].op = "puback" =>
    /\ incoming[i].pkid \in DOMAIN unacked
    /\ Settles(incoming[i].pkid)
    /\ \A j \in DOMAIN incoming :
          incoming[j].op = "puback" /\ incoming[j].pkid = incoming[i].pkid => j = i

(* A marker that an earlier connection left in flight has no waiter. *)
Stale == \A p \in DOMAIN inflight \ DOMAIN unacked : inflight[p] \notin confirming

Marks ==
    /\ SendsLast
    /\ \E k \in Nat : Behind(k)
    /\ lapsed \/ inflight = unacked
    /\ Stale
    /\ Pubacks

LEMMA MarksAlign ==
  ASSUME Marks
  PROVE  MarkersAligned
  <1>1. PICK k \in Nat : Behind(k)
    BY DEF Marks
  <1>2. /\ k \in 0..Asked /\ LinedUp(channel, awaiting_outgoing, k, Asked)
        /\ ~lapsed => k = 0
    BY <1>1 DEF Behind
  <1>3. SendsLast /\ (~lapsed => inflight = unacked)
    BY DEF Marks
  <1> QED
    BY <1>2, <1>3 DEF MarkersAligned, SendsLast, Asked

LEMMA AskedIs ==
  ASSUME Types, Marks
  PROVE  /\ awaiting_outgoing \in Seq(Publishers) /\ Len(awaiting_outgoing) \in Nat
         /\ Asked \in Nat /\ Asked <= Len(awaiting_outgoing)
         /\ channel \in Seq(Request) /\ incoming \in Seq(Packet)
  BY DEF Types, Marks, SendsLast, Asked

LEMMA PublishesAre ==
  ASSUME channel \in Seq(Request)
  PROVE  /\ Publishes(channel) \in SUBSET Nat /\ Publishes(channel) \in SUBSET (1..Len(channel))
         /\ Len(channel) \in Nat
  BY ChannelIs DEF Publishes

LEMMA SendPublishes ==
  ASSUME channel \in Seq(Request),
         NEW op \in {"sub", "unsub", "pub"}, NEW c \in Callers, Send(op, c)
  PROVE  /\ Publishes(channel') = IF op = "pub" THEN Publishes(channel) \union {Len(channel) + 1}
                                  ELSE Publishes(channel)
         /\ \A l \in Publishes(channel) : channel'[l].who = channel[l].who /\ l < Len(channel) + 1
         /\ channel'[Len(channel) + 1].who = c
  <1>1. /\ DOMAIN channel' = 1..Len(channel) + 1
        /\ \A i \in DOMAIN channel : channel'[i] = channel[i]
        /\ channel'[Len(channel) + 1] = Ask(op, c)
    BY Sends
  <1>2. DOMAIN channel = 1..Len(channel) /\ Len(channel) \in Nat
    BY ChannelIs
  <1>3. Ask(op, c).who = c /\ Ask(op, c).op = op
    BY DEF Ask
  <1> QED
    BY <1>1, <1>2, <1>3 DEF Publishes

(* Other requests than publishes come and go between them. *)
Aside ==
    \/ channel' = channel
    \/ \E op \in {"sub", "unsub"}, c \in Callers : Send(op, c)
    \/ \E op \in {"sub", "unsub"} : Writes(op)

LEMMA AsideLined ==
  ASSUME channel \in Seq(Request), Aside, NEW markers, NEW k \in Nat, NEW n \in Nat,
         LinedUp(channel, markers, k, n)
  PROVE  LinedUp(channel', markers, k, n)
  <1>1. ASSUME NEW op \in {"sub", "unsub"}, NEW c \in Callers, Send(op, c)
        PROVE  LinedUp(channel', markers, k, n)
    <2>1. op \in {"sub", "unsub", "pub"} /\ op # "pub"
      OBVIOUS
    <2>2. /\ Publishes(channel') = Publishes(channel)
          /\ \A l \in Publishes(channel) : channel'[l].who = channel[l].who
      BY <1>1, <2>1, SendPublishes
    <2> QED
      BY <2>2, LinedSame
  <1>2. ASSUME NEW op \in {"sub", "unsub"}, Writes(op)
        PROVE  LinedUp(channel', markers, k, n)
    <2>1. channel # <<>> /\ channel[1].op # "pub" /\ channel' = Tail(channel)
      BY <1>2, Wrote
    <2> QED
      BY <2>1, LinedTail
  <1> QED
    BY <1>1, <1>2 DEF Aside

(* Steps that do not touch the markers. *)
LEMMA MarksStay ==
  ASSUME Types, Marks, Aside, NEW d \in {0, 1},
         UNCHANGED <<awaiting_outgoing, inflight, unacked, lapsed>>,
         funnel' = funnel \/ (funnel.pc # "send" /\ funnel'.pc # "send"),
         confirming' \subseteq confirming, stored \subseteq stored', broken => broken',
         \A i \in DOMAIN incoming' : incoming'[i].op = "puback" =>
            i \in Nat /\ i + d \in DOMAIN incoming /\ incoming[i + d] = incoming'[i]
  PROVE  Marks'
  <1>1. PICK k \in Nat : Behind(k)
    BY DEF Marks
  <1>2. Asked' = Asked /\ SendsLast' /\ Asked \in Nat /\ channel \in Seq(Request)
    BY AskedIs DEF Asked, Marks, SendsLast
  <1>3. Behind(k)'
    <2>1. LinedUp(channel', awaiting_outgoing, k, Asked)
      BY <1>1, <1>2, AsideLined DEF Behind
    <2> QED
      BY <1>1, <1>2, <2>1 DEF Behind
  <1>4. Stale' /\ (lapsed' \/ inflight' = unacked')
    BY DEF Marks, Stale
  <1>5. ASSUME NEW i \in DOMAIN incoming', incoming'[i].op = "puback"
        PROVE  /\ incoming'[i].pkid \in DOMAIN unacked'
               /\ Settles(incoming[i].pkid)'
               /\ \A j \in DOMAIN incoming' :
                     incoming'[j].op = "puback" /\ incoming'[j].pkid = incoming'[i].pkid => j = i
    <2>1. i \in Nat /\ i + d \in DOMAIN incoming /\ incoming[i + d] = incoming'[i]
      BY <1>5
    <2>2. /\ incoming'[i].pkid \in DOMAIN unacked
          /\ Settles(incoming[i + d].pkid)
          /\ \A j \in DOMAIN incoming :
                incoming[j].op = "puback" /\ incoming[j].pkid = incoming'[i].pkid => j = i + d
      BY <1>5, <2>1 DEF Marks, Pubacks
    <2>3. Settles(incoming[i].pkid)'
      BY <2>1, <2>2 DEF Settles
    <2>4. ASSUME NEW j \in DOMAIN incoming', incoming'[j].op = "puback",
                 incoming'[j].pkid = incoming'[i].pkid
          PROVE  j = i
      <3>1. j \in Nat /\ j + d = i + d
        BY <2>2, <2>4
      <3> QED
        BY <2>1, <3>1
    <2> QED
      BY <2>2, <2>3, <2>4
  <1>6. Pubacks'
    BY <1>5 DEF Pubacks
  <1> QED
    BY <1>2, <1>3, <1>4, <1>6 DEF Marks

(* Nothing changes on the wire but that it may break. *)
LEMMA QuietMarks ==
  ASSUME Types, Marks, Aside,
         UNCHANGED <<funnel, awaiting_outgoing, inflight, unacked, lapsed, incoming, stored>>,
         confirming' \subseteq confirming, broken' \in {broken, TRUE}
  PROVE  Marks'
  <1>1. broken => broken'
    OBVIOUS
  <1>2. \A i \in DOMAIN incoming' : incoming'[i].op = "puback" =>
           i \in Nat /\ i + 0 \in DOMAIN incoming /\ incoming[i + 0] = incoming'[i]
    BY DEF Types
  <1> QED
    BY <1>1, <1>2, MarksStay

(* The funnel gives the next marker, and asks for its publish. *)
LEMMA FunnelMarks ==
  ASSUME Types, Marks, PublishesOnce, Funnel
  PROVE  Marks'
  <1>0. /\ awaiting_outgoing \in Seq(Publishers) /\ Len(awaiting_outgoing) \in Nat
        /\ Asked \in Nat /\ Asked <= Len(awaiting_outgoing)
        /\ channel \in Seq(Request) /\ incoming \in Seq(Packet)
    BY AskedIs
  <1>1. PICK k \in Nat : Behind(k)
    BY DEF Marks
  <1>2. CASE FunnelTake
    <2>1. /\ funnel'.pc = "register" /\ funnel.pc = "recv" /\ broken' = broken
          /\ UNCHANGED <<awaiting_outgoing, inflight, confirming, channel, unacked, lapsed,
                         incoming, stored>>
      BY <1>2 DEF FunnelTake, tracker, wire, client, history
    <2>2. \A i \in DOMAIN incoming' : incoming'[i].op = "puback" =>
             i \in Nat /\ i + 0 \in DOMAIN incoming /\ incoming[i + 0] = incoming'[i]
      BY <1>0, <2>1
    <2> QED
      BY <2>1, <2>2, MarksStay DEF Aside
  <1>3. CASE FunnelRegister
    <2> DEFINE c == funnel.who
    <2>1. /\ funnel.pc = "register" /\ c \in Publishers
          /\ funnel' = [funnel EXCEPT !.pc = "send"]
          /\ awaiting_outgoing' = Append(awaiting_outgoing, c)
          /\ confirming' = confirming \union ({c} \intersect Confirmers)
          /\ UNCHANGED <<inflight, channel, unacked, lapsed, incoming, broken, stored>>
          /\ funnel \in [pc : {"recv", "register", "send"}, who : Publishers \union {None}]
      BY <1>3 DEF FunnelRegister, wire, client, history, Types
    <2>2. /\ funnel'.pc = "send" /\ funnel'.who = c
          /\ Len(awaiting_outgoing') = Len(awaiting_outgoing) + 1
          /\ awaiting_outgoing'[Len(awaiting_outgoing')] = c
          /\ \A i \in 1..Len(awaiting_outgoing) : awaiting_outgoing'[i] = awaiting_outgoing[i]
      BY <1>0, <2>1
    <2>3. SendsLast' /\ Asked' = Asked /\ Asked = Len(awaiting_outgoing)
      BY <1>0, <2>1, <2>2 DEF SendsLast, Asked
    <2>4. \A q : Marked(q) /\ q \in confirming' => q \in confirming
      BY <2>1 DEF PublishesOnce, Registers
    <2>5. \A i \in 1..Asked : Marked(awaiting_outgoing[i])
      BY <1>0, <2>3 DEF Marked
    <2>6. Behind(k)'
      <3>1. LinedUp(channel, awaiting_outgoing', k, Asked)
        <4>1. \A i \in k + 1..Asked : awaiting_outgoing'[i] = awaiting_outgoing[i]
          BY <2>2, <2>3
        <4> QED
          BY <1>0, <1>1, <4>1, LinedAgree DEF Behind
      <3>2. \A i \in 1..k : awaiting_outgoing'[i] \in confirming' \ stored => broken
        <4> TAKE i \in 1..k
        <4>1. i \in 1..Asked
          BY <1>0, <1>1 DEF Behind
        <4>2. awaiting_outgoing'[i] = awaiting_outgoing[i]
          BY <2>2, <2>3, <4>1
        <4> QED
          BY <1>1, <2>4, <2>5, <4>1, <4>2 DEF Behind
      <3> QED
        BY <1>1, <2>1, <2>3, <3>1, <3>2 DEF Behind
    <2>7. \A p \in DOMAIN inflight : Marked(inflight[p])
      BY DEF Marked
    <2>8. Stale' /\ (lapsed' \/ inflight' = unacked')
      BY <2>1, <2>4, <2>7 DEF Marks, Stale
    <2>9. \A p : Settles(p) => Settles(p)'
      BY <2>1, <2>4, <2>7 DEF Settles
    <2>10. Pubacks'
      BY <2>1, <2>9 DEF Marks, Pubacks
    <2> QED
      BY <2>3, <2>6, <2>8, <2>10 DEF Marks
  <1>4. CASE FunnelSend
    <2> DEFINE c == funnel.who
    <2>1. /\ funnel.pc = "send" /\ c \in Publishers /\ Send("pub", c)
          /\ funnel'.pc = "recv"
          /\ UNCHANGED <<awaiting_outgoing, inflight, confirming, lapsed, incoming, broken, stored>>
      BY <1>4 DEF FunnelSend, tracker, wire, history, Types
    <2>2. c \in Callers /\ unacked' = unacked
      BY <1>0, <2>1, CallersAre, Sends
    <2>3. /\ Publishes(channel') = Publishes(channel) \union {Len(channel) + 1}
          /\ \A l \in Publishes(channel) :
                channel'[l].who = channel[l].who /\ l < Len(channel) + 1
          /\ channel'[Len(channel) + 1].who = c
      BY <1>0, <2>1, <2>2, SendPublishes
    <2>4. /\ Asked' = Asked + 1 /\ Asked + 1 = Len(awaiting_outgoing)
          /\ awaiting_outgoing[Asked + 1] = c /\ SendsLast'
      BY <1>0, <2>1 DEF Asked, Marks, SendsLast
    <2>5. /\ Publishes(channel) \in SUBSET Nat /\ Len(channel) + 1 \in Nat
          /\ k <= Asked /\ LinedUp(channel, awaiting_outgoing, k, Asked)
      BY <1>0, <1>1, PublishesAre DEF Behind
    <2>6. awaiting_outgoing[Asked + 1] = channel'[Len(channel) + 1].who
      BY <2>3, <2>4
    <2>7. LinedUp(channel', awaiting_outgoing, k, Asked + 1)
      BY <1>0, <2>3, <2>5, <2>6, LinedMore
    <2>8. Behind(k)'
      BY <1>0, <1>1, <2>1, <2>4, <2>7 DEF Behind
    <2>9. Stale' /\ (lapsed' \/ inflight' = unacked')
      BY <2>1, <2>2 DEF Marks, Stale
    <2>10. Pubacks'
      BY <2>1, <2>2 DEF Marks, Pubacks, Settles
    <2> QED
      BY <2>4, <2>8, <2>9, <2>10 DEF Marks
  <1> QED
    BY <1>2, <1>3, <1>4 DEF Funnel

(* A packet is read: a PUBACK takes its marker and settles its waiter. *)
LEMMA ReadMarks ==
  ASSUME Types, Marks, LoopRead, confirmed \subseteq stored
  PROVE  Marks' /\ confirmed' \subseteq stored'
  <1> DEFINE N == Len(incoming)
  <1>0. /\ awaiting_outgoing \in Seq(Publishers) /\ channel \in Seq(Request)
        /\ incoming \in Seq(Packet)
    BY AskedIs
  <1>1. /\ incoming # <<>> /\ incoming' = Tail(incoming)
        /\ UNCHANGED <<funnel, channel, broken, stored, lapsed>>
    BY DEF LoopRead, LoopSuback, LoopPuback, LoopReply, Reads, history
  <1>2. /\ N \in Nat \ {0} /\ DOMAIN incoming = 1..N /\ DOMAIN incoming' = 1..N - 1
        /\ \A i \in 1..N - 1 : incoming'[i] = incoming[i + 1]
        /\ Head(incoming) = incoming[1] /\ 1 \in 1..N
    BY <1>0, <1>1, TailIs
  <1> HIDE DEF N
  <1>3. \A i \in DOMAIN incoming' :
           /\ i \in Nat /\ i + 1 \in DOMAIN incoming /\ incoming[i + 1] = incoming'[i]
           /\ i + 1 # 1
    BY <1>2
  <1>4. CASE LoopSuback \/ LoopReply
    <2>1. UNCHANGED <<awaiting_outgoing, inflight, unacked, confirming, confirmed>>
      BY <1>4 DEF LoopSuback, LoopReply, tracker
    <2>2. Aside
      BY <1>1 DEF Aside
    <2>3. Marks'
      BY <1>1, <1>3, <2>1, <2>2, MarksStay
    <2> QED
      BY <1>1, <2>1, <2>3
  <1>5. CASE LoopPuback
    <2> DEFINE p == incoming[1].pkid
    <2>1. /\ incoming[1].op = "puback" /\ ObservePuback(p)
          /\ unacked' = Restrict(unacked, DOMAIN unacked \ {p})
      BY <1>2, <1>5 DEF LoopPuback, Reads
    <2>2. /\ p \in DOMAIN unacked /\ Settles(p)
          /\ \A j \in DOMAIN incoming : incoming[j].op = "puback" /\ incoming[j].pkid = p => j = 1
      BY <1>2, <2>1 DEF Marks, Pubacks
    <2> HIDE DEF p
    <2>3. /\ inflight \in [DOMAIN inflight -> Publishers]
          /\ unacked \in [DOMAIN unacked -> Publishers]
      BY DEF Types
    <2>4. /\ DOMAIN unacked' = DOMAIN unacked \ {p}
          /\ \A q \in DOMAIN unacked' : unacked'[q] = unacked[q]
          /\ unacked' \in [DOMAIN unacked' -> Publishers]
      BY <2>1, <2>3 DEF Restrict
    <2>5. /\ awaiting_outgoing' = awaiting_outgoing
          /\ DOMAIN inflight' = DOMAIN inflight \ {p}
          /\ \A q \in DOMAIN inflight' : inflight'[q] = inflight[q]
          /\ inflight' \in [DOMAIN inflight' -> Publishers]
          /\ confirming' \subseteq confirming
          /\ confirmed' \subseteq stored
      <3>1. CASE p \notin DOMAIN inflight
        BY <2>1, <2>3, <3>1 DEF ObservePuback, tracker
      <3>2. CASE p \in DOMAIN inflight
        BY <2>1, <2>2, <2>3, <3>2 DEF ObservePuback, InflightWithout, Restrict, Settles
      <3> QED
        BY <3>1, <3>2
    <2>6. lapsed' \/ inflight' = unacked'
      BY <1>1, <2>4, <2>5 DEF Marks
    <2>7. Stale'
      BY <2>4, <2>5 DEF Marks, Stale
    <2>8. SendsLast' /\ \E k \in Nat : Behind(k)'
      <3>1. PICK k \in Nat : Behind(k)
        BY DEF Marks
      <3>2. Asked' = Asked /\ SendsLast'
        BY <1>1, <2>5 DEF Asked, Marks, SendsLast
      <3>3. Behind(k)'
        BY <1>1, <2>5, <3>1, <3>2 DEF Behind
      <3> QED
        BY <3>2, <3>3
    <2>9. ASSUME NEW i \in DOMAIN incoming', incoming'[i].op = "puback"
          PROVE  /\ incoming'[i].pkid \in DOMAIN unacked'
                 /\ Settles(incoming[i].pkid)'
                 /\ \A j \in DOMAIN incoming' :
                       incoming'[j].op = "puback" /\ incoming'[j].pkid = incoming'[i].pkid => j = i
      <3>1. i \in Nat /\ i + 1 \in DOMAIN incoming /\ incoming[i + 1] = incoming'[i] /\ i + 1 # 1
        BY <1>3
      <3>2. /\ incoming'[i].pkid \in DOMAIN unacked
            /\ Settles(incoming'[i].pkid)
            /\ \A j \in DOMAIN incoming :
                  incoming[j].op = "puback" /\ incoming[j].pkid = incoming'[i].pkid => j = i + 1
        BY <2>9, <3>1 DEF Marks, Pubacks
      <3>3. incoming'[i].pkid # p
        BY <2>2, <2>9, <3>1
      <3>4. Settles(incoming[i].pkid)'
        BY <1>1, <2>5, <3>2 DEF Settles
      <3>5. ASSUME NEW j \in DOMAIN incoming', incoming'[j].op = "puback",
                   incoming'[j].pkid = incoming'[i].pkid
            PROVE  j = i
        <4>1. j \in Nat /\ j + 1 = i + 1
          BY <1>3, <3>2, <3>5
        <4> QED
          BY <3>1, <4>1
      <3> QED
        BY <2>4, <3>2, <3>3, <3>4, <3>5
    <2>10. Pubacks'
      BY <2>9 DEF Pubacks
    <2> QED
      BY <1>1, <2>5, <2>6, <2>7, <2>8, <2>10 DEF Marks
  <1> QED
    BY <1>4, <1>5 DEF LoopRead

(* What the broker gets of one packet or none, unless the wire is cut. *)
LEMMA AnswerIs ==
  ASSUME Types, NEW packet \in Packet, NEW subscribed, NEW took, NEW some \in BOOLEAN,
         Reaches(IF some THEN <<packet>> ELSE <<>>, subscribed, took)
  PROVE  /\ broken' = broken /\ stored \subseteq stored'
         /\ ~broken => took \subseteq stored'
         /\ \A i \in DOMAIN incoming' :
               \/ i \in DOMAIN incoming /\ incoming'[i] = incoming[i]
               \/ some /\ ~broken /\ i = Len(incoming) + 1 /\ incoming'[i] = packet
  <1>1. incoming \in Seq(Packet)
    BY DEF Types
  <1>2. CASE broken \/ ~some
    <2>1. incoming' = incoming
      BY <1>1, <1>2 DEF Reaches
    <2> QED
      BY <2>1 DEF Reaches
  <1>3. CASE ~broken /\ some
    <2>1. incoming' = incoming \o <<packet>>
      BY <1>3 DEF Reaches
    <2>2. \A i \in DOMAIN incoming' :
             \/ i \in DOMAIN incoming /\ incoming'[i] = incoming[i]
             \/ i = Len(incoming) + 1 /\ incoming'[i] = packet
      BY <1>1, <2>1
    <2> QED
      BY <1>3, <2>2 DEF Reaches
  <1> QED
    BY <1>2, <1>3

(* The marker at the front is taken, or, if an earlier connection left one *)
(* under this packet id, the marker of this publish stays behind.          *)
LEMMA TakesMarker ==
  ASSUME Types, Marks, NEW c, NEW pkid, Publishing(c, pkid),
         NEW k \in Nat, Behind(k), ~Retransmitted(pkid)
  PROVE  /\ Behind(k)' /\ SendsLast' /\ confirming' \subseteq confirming
         /\ awaiting_outgoing # <<>> /\ Head(awaiting_outgoing) = awaiting_outgoing[1]
         /\ k = 0 => Head(awaiting_outgoing) = c
         /\ Head(awaiting_outgoing) \in confirming \ stored' => broken
  <1> DEFINE N == Len(awaiting_outgoing)
  <1>0. /\ awaiting_outgoing \in Seq(Publishers) /\ N \in Nat
        /\ Asked \in Nat /\ Asked <= N
        /\ channel \in Seq(Request) /\ incoming \in Seq(Packet)
    BY AskedIs
  <1>1. /\ Writes("pub") /\ ObserveOutgoing(pkid) /\ c = channel[1].who
        /\ UNCHANGED <<funnel, lapsed>>
    BY DEF Publishing, Writes
  <1>2. channel # <<>> /\ channel[1].op = "pub" /\ channel' = Tail(channel)
    BY <1>0, <1>1, Wrote
  <1>3. broken' = broken /\ stored \subseteq stored' /\ (~broken => c \in stored')
    BY DEF Publishing, Reaches
  <1>4. /\ k < Asked /\ awaiting_outgoing[k + 1] = c
        /\ LinedUp(channel', awaiting_outgoing, k + 1, Asked)
    BY <1>0, <1>1, <1>2, LinedTail DEF Behind
  <1>5. /\ awaiting_outgoing # <<>> /\ awaiting_outgoing' = Tail(awaiting_outgoing)
        /\ confirming' \subseteq confirming
    <2>1. awaiting_outgoing # <<>>
      BY <1>0, <1>4
    <2> QED
      BY <1>1, <2>1 DEF ObserveOutgoing
  <1>6. /\ N \in Nat \ {0} /\ Len(awaiting_outgoing') = N - 1
        /\ \A i \in 1..N - 1 : awaiting_outgoing'[i] = awaiting_outgoing[i + 1]
        /\ Head(awaiting_outgoing) = awaiting_outgoing[1]
    BY <1>0, <1>5, TailIs
  <1>7. Asked' = Asked - 1 /\ Asked - 1 \in Nat
    BY <1>0, <1>1, <1>4, <1>6 DEF Asked
  <1>8. SendsLast'
    <2> SUFFICES ASSUME funnel.pc = "send"
                 PROVE  N - 1 > 0 /\ awaiting_outgoing'[N - 1] = funnel.who
      BY <1>1, <1>6 DEF SendsLast
    <2>1. Asked = N - 1 /\ awaiting_outgoing[N] = funnel.who
      BY DEF Asked, Marks, SendsLast
    <2>2. N - 1 \in 1..N - 1 /\ (N - 1) + 1 = N
      BY <1>0, <1>4, <2>1
    <2> QED
      BY <1>6, <2>1, <2>2
  <1> HIDE DEF N
  <1>9. LinedUp(channel', awaiting_outgoing', k, Asked - 1)
    <2>1. \A i \in k + 1..Asked - 1 : awaiting_outgoing'[i] = awaiting_outgoing[i + 1]
      BY <1>0, <1>6
    <2>2. LinedUp(channel', awaiting_outgoing, k + 1, (Asked - 1) + 1)
      BY <1>0, <1>4
    <2> QED
      BY <1>7, <2>1, <2>2, LinedUpShifts
  <1>10. \A i \in 1..k + 1 : awaiting_outgoing[i] \in confirming \ stored' => broken
    <2> TAKE i \in 1..k + 1
    <2>1. CASE i \in 1..k
      BY <1>3, <2>1 DEF Behind
    <2>2. CASE i = k + 1
      BY <1>3, <1>4, <2>2
    <2> QED
      BY <2>1, <2>2
  <1>11. \A i \in 1..k : awaiting_outgoing'[i] \in confirming' \ stored' => broken'
    <2> TAKE i \in 1..k
    <2>1. i + 1 \in 1..k + 1 /\ i \in 1..N - 1
      BY <1>0, <1>4
    <2> QED
      BY <1>3, <1>5, <1>6, <1>10, <2>1
  <1>12. Behind(k)'
    BY <1>0, <1>1, <1>4, <1>7, <1>9, <1>11 DEF Behind
  <1>13. 1 \in 1..k + 1
    OBVIOUS
  <1> QED
    BY <1>4, <1>5, <1>6, <1>8, <1>10, <1>12, <1>13

LEMMA PublishMarks ==
  ASSUME Types, Marks, NEW c, NEW pkid, Publishing(c, pkid)
  PROVE  Marks' /\ stored \subseteq stored' /\ confirmed' = confirmed
  <1> DEFINE m == Head(awaiting_outgoing)
  <1>0. /\ awaiting_outgoing \in Seq(Publishers) /\ incoming \in Seq(Packet)
        /\ Asked \in Nat /\ channel \in Seq(Request)
        /\ DOMAIN unacked \in SUBSET (Nat \ {0})
        /\ inflight \in [DOMAIN inflight -> Publishers]
        /\ unacked \in [DOMAIN unacked -> Publishers]
    BY AskedIs DEF Types
  <1>1. /\ Writes("pub") /\ c \in Publishers /\ ObserveOutgoing(pkid) /\ c = channel[1].who
        /\ \/ QosOf(c) = 0 /\ pkid = 0
           \/ QosOf(c) = 1 /\ pkid # 0 /\ pkid \notin DOMAIN unacked
        /\ pkid \in Nat
        /\ unacked' = IF pkid = 0 THEN unacked ELSE Filed(unacked, pkid, c)
        /\ UNCHANGED <<funnel, lapsed>>
    BY DEF Publishing, Writes
  <1>2. pkid \notin DOMAIN unacked
    BY <1>0, <1>1
  <1>3. DOMAIN unacked \subseteq DOMAIN unacked' /\ (pkid # 0 => pkid \in DOMAIN unacked')
    BY <1>1 DEF Filed
  <1>4. /\ broken' = broken /\ stored \subseteq stored'
        /\ ~broken => c \in stored'
        /\ \A i \in DOMAIN incoming' :
              \/ i \in DOMAIN incoming /\ incoming'[i] = incoming[i]
              \/ /\ pkid # 0 /\ ~broken /\ i = Len(incoming) + 1
                 /\ incoming'[i] = Puback(pkid)
    <2>1. Reaches(IF pkid # 0 THEN <<Puback(pkid)>> ELSE <<>>, bsubs, {c})
      BY DEF Publishing
    <2>2. CASE pkid # 0
      <3>1. Puback(pkid) \in Packet
        BY <1>1, <2>2 DEF Puback, Packet
      <3>2. Reaches(IF TRUE THEN <<Puback(pkid)>> ELSE <<>>, bsubs, {c})
        BY <2>1, <2>2
      <3> QED
        BY <2>2, <3>1, <3>2, AnswerIs
    <2>3. CASE pkid = 0
      <3>1. incoming' = incoming
        BY <1>0, <2>1, <2>3 DEF Reaches
      <3> QED
        BY <2>1, <3>1 DEF Reaches
    <2> QED
      BY <2>2, <2>3
  <1>5. PICK k \in Nat : Behind(k)
    BY DEF Marks
  (* The PUBACKs on the way, and the new one. *)
  <1>6. ASSUME confirming' \subseteq confirming,
               \A p \in DOMAIN unacked \intersect DOMAIN inflight' :
                  p \in DOMAIN inflight /\ inflight'[p] = inflight[p],
               pkid # 0 /\ ~broken => Settles(pkid)'
        PROVE  Pubacks'
    <2>1. Puback(pkid).op = "puback" /\ Puback(pkid).pkid = pkid
      BY DEF Puback
    <2>2. ASSUME NEW i \in DOMAIN incoming', incoming'[i].op = "puback"
          PROVE  /\ incoming'[i].pkid \in DOMAIN unacked'
                 /\ Settles(incoming[i].pkid)'
                 /\ \A j \in DOMAIN incoming' :
                       incoming'[j].op = "puback" /\ incoming'[j].pkid = incoming'[i].pkid => j = i
      <3>1. CASE i \in DOMAIN incoming /\ incoming'[i] = incoming[i]
        <4>1. /\ incoming[i].pkid \in DOMAIN unacked
              /\ Settles(incoming[i].pkid)
              /\ \A j \in DOMAIN incoming :
                    incoming[j].op = "puback" /\ incoming[j].pkid = incoming[i].pkid => j = i
          BY <2>2, <3>1 DEF Marks, Pubacks
        <4>2. Settles(incoming[i].pkid)'
          BY <1>4, <1>6, <3>1, <4>1 DEF Settles
        <4>3. \A j \in DOMAIN incoming' :
                 incoming'[j].op = "puback" /\ incoming'[j].pkid = incoming'[i].pkid => j = i
          BY <1>2, <1>4, <2>1, <3>1, <4>1
        <4> QED
          BY <1>3, <3>1, <4>1, <4>2, <4>3
      <3>2. CASE pkid # 0 /\ ~broken /\ i = Len(incoming) + 1 /\ incoming'[i] = Puback(pkid)
        <4>1. \A j \in DOMAIN incoming : incoming[j].op = "puback" =>
                 incoming[j].pkid \in DOMAIN unacked
          BY DEF Marks, Pubacks
        <4>2. \A j \in DOMAIN incoming' :
                 incoming'[j].op = "puback" /\ incoming'[j].pkid = pkid => j = i
          BY <1>2, <1>4, <3>2, <4>1
        <4> QED
          BY <1>3, <1>6, <2>1, <3>2, <4>2
      <3> QED
        BY <1>4, <3>1, <3>2
    <2> QED
      BY <2>2 DEF Pubacks
  <1>7. CASE Retransmitted(pkid)
    <2>1. pkid \in DOMAIN inflight /\ pkid # 0
      BY <1>7 DEF Retransmitted
    <2>2. UNCHANGED <<awaiting_outgoing, inflight, confirming, confirmed>>
      BY <1>1, <1>7 DEF ObserveOutgoing, tracker
    <2>3. lapsed
      BY <1>2, <2>1 DEF Marks
    <2>4. SendsLast' /\ Asked' = Asked
      BY <1>1, <2>2 DEF Asked, Marks, SendsLast
    <2>5. channel # <<>> /\ channel[1].op = "pub" /\ channel' = Tail(channel)
      BY <1>0, <1>1, Wrote
    <2>6. /\ k < Asked /\ awaiting_outgoing[k + 1] = c
          /\ LinedUp(channel', awaiting_outgoing, k + 1, Asked)
      BY <1>0, <1>1, <1>5, <2>5, LinedTail DEF Behind
    <2>7. \A i \in 1..k + 1 : awaiting_outgoing[i] \in confirming \ stored' => broken
      <3> TAKE i \in 1..k + 1
      <3>1. CASE i \in 1..k
        BY <1>4, <1>5, <3>1 DEF Behind
      <3>2. CASE i = k + 1
        BY <1>4, <2>6, <3>2
      <3> QED
        BY <3>1, <3>2
    <2>8. k + 1 \in Nat /\ Behind(k + 1)'
      BY <1>0, <1>1, <1>4, <2>2, <2>3, <2>4, <2>6, <2>7 DEF Behind
    <2>9. Stale'
      BY <1>3, <2>2 DEF Marks, Stale
    <2>10. Settles(pkid)'
      BY <1>2, <2>1, <2>2 DEF Marks, Stale, Settles
    <2>11. Pubacks'
      BY <1>6, <2>2, <2>10
    <2> QED
      BY <1>1, <1>4, <2>2, <2>3, <2>4, <2>8, <2>9, <2>11 DEF Marks
  <1>8. CASE ~Retransmitted(pkid)
    <2>1. /\ Behind(k)' /\ SendsLast' /\ confirming' \subseteq confirming
          /\ awaiting_outgoing # <<>>
          /\ k = 0 => m = c
          /\ m \in confirming \ stored' => broken
      BY <1>5, <1>8, TakesMarker
    <2>2. pkid = 0 \/ pkid \notin DOMAIN inflight
      BY <1>8 DEF Retransmitted
    <2>3. /\ confirmed' = confirmed
          /\ IF pkid # 0 /\ QosOf(m) = 1 THEN inflight' = Filed(inflight, pkid, m)
             ELSE inflight' = inflight
      BY <1>1, <1>8, <2>1 DEF ObserveOutgoing
    <2>4. lapsed' \/ inflight' = unacked'
      <3> SUFFICES ASSUME ~lapsed PROVE inflight' = unacked'
        BY <1>1
      <3>1. m = c /\ inflight = unacked
        BY <1>5, <2>1 DEF Behind, Marks
      <3> QED
        BY <1>1, <2>3, <3>1
    <2>5. CASE pkid # 0 /\ QosOf(m) = 1
      <3>1. /\ DOMAIN inflight' = DOMAIN inflight \union {pkid} /\ inflight'[pkid] = m
            /\ \A p \in DOMAIN inflight : p # pkid => inflight'[p] = inflight[p]
        BY <2>3, <2>5 DEF Filed
      <3>2. \A p \in DOMAIN inflight' \ DOMAIN unacked' :
               p \in DOMAIN inflight \ DOMAIN unacked /\ inflight'[p] = inflight[p]
        BY <1>3, <2>5, <3>1
      <3>3. Stale'
        BY <2>1, <3>2 DEF Marks, Stale
      <3>4. ~broken => Settles(pkid)'
        BY <2>1, <3>1 DEF Settles
      <3>5. \A p \in DOMAIN unacked \intersect DOMAIN inflight' :
               p \in DOMAIN inflight /\ inflight'[p] = inflight[p]
        BY <1>2, <3>1
      <3>6. Pubacks'
        BY <1>6, <2>1, <3>4, <3>5
      <3> QED
        BY <1>4, <2>1, <2>3, <2>4, <3>3, <3>6 DEF Marks
    <2>6. CASE ~(pkid # 0 /\ QosOf(m) = 1)
      <3>1. inflight' = inflight
        BY <2>3, <2>6
      <3>2. Stale'
        BY <1>3, <2>1, <3>1 DEF Marks, Stale
      <3>3. pkid # 0 => Settles(pkid)'
        BY <2>2, <3>1 DEF Settles
      <3>4. Pubacks'
        BY <1>6, <2>1, <3>1, <3>3
      <3> QED
        BY <1>4, <2>1, <2>3, <2>4, <3>2, <3>4 DEF Marks
    <2> QED
      BY <2>5, <2>6
  <1> QED
    BY <1>7, <1>8

(* A request is written. *)
LEMMA WriteMarks ==
  ASSUME Types, Shapes, Marks, LoopWrite
  PROVE  Marks' /\ stored \subseteq stored' /\ confirmed' = confirmed
  <1>1. CASE LoopPublish
    BY <1>1, PublishIs, PublishMarks
  <1>2. CASE LoopSubscribe \/ LoopUnsubscribe
    <2> DEFINE c == channel[1].who
    <2>1. PICK op \in {"sub", "unsub"} : Writes(op) /\ UNCHANGED <<tracker, unacked>>
      BY <1>2 DEF LoopSubscribe, LoopUnsubscribe
    <2>2. /\ funnel' = funnel /\ lapsed' = lapsed /\ Aside
          /\ UNCHANGED <<awaiting_outgoing, inflight, confirming, confirmed>>
      BY <2>1 DEF Writes, tracker, Aside
    <2>3. Head(channel) = channel[1] /\ channel[1].op = op /\ WellFormed(channel[1])
      BY <2>1, WritesShapes
    <2>4. Suback(c) \in Packet /\ Suback(c).op = "suback"
      BY <2>3 DEF Suback, Packet, WellFormed
    <2>5. \E some, subscribed :
             Reaches(IF some THEN <<Suback(c)>> ELSE <<>>, subscribed, {})
      <3>1. CASE LoopSubscribe
        BY <2>3, <3>1 DEF LoopSubscribe
      <3>2. CASE LoopUnsubscribe
        BY <3>2 DEF LoopUnsubscribe
      <3> QED
        BY <1>2, <3>1, <3>2
    <2>6. /\ broken' = broken /\ stored \subseteq stored'
          /\ \A i \in DOMAIN incoming' :
                \/ i \in DOMAIN incoming /\ incoming'[i] = incoming[i]
                \/ incoming'[i] = Suback(c)
      BY <2>4, <2>5, AnswerIs
    <2>7. \A i \in DOMAIN incoming' : incoming'[i].op = "puback" =>
             i \in Nat /\ i + 0 \in DOMAIN incoming /\ incoming[i + 0] = incoming'[i]
      <3> DEFINE x == Suback(c)
      <3>1. incoming \in Seq(Packet) /\ x.op = "suback"
        BY <2>4 DEF Types
      <3>2. \A i \in DOMAIN incoming' :
               (i \in DOMAIN incoming /\ incoming'[i] = incoming[i]) \/ incoming'[i] = x
        BY <2>6
      <3> HIDE DEF x
      <3> QED
        BY <3>1, <3>2
    <2> QED
      BY <2>1, <2>2, <2>6, <2>7, MarksStay
  <1> QED
    BY <1>1, <1>2 DEF LoopWrite

(* The connection is lost: every marker is one that it left, and none has  *)
(* a waiter.                                                               *)
LEMMA ErrorMarks ==
  ASSUME Types, Marks, LoopError \/ LoopRetry
  PROVE  Marks' /\ UNCHANGED <<confirmed, stored>>
  <1>1. /\ confirming' = {}
        /\ UNCHANGED <<funnel, awaiting_outgoing, inflight, confirmed, stored>>
    BY DEF LoopError, LoopRetry, FailConfirmations, wire
  <1>2. CASE LoopError
    <2>1. /\ channel' = <<>> /\ unacked' = <<>> /\ incoming' = <<>>
          /\ lapsed' = (lapsed \/ unacked # <<>> \/ \E i \in DOMAIN channel : channel[i].op = "pub")
      BY <1>2 DEF LoopError
    <2>2. Asked' = Asked /\ SendsLast' /\ Asked \in Nat
      BY <1>1, AskedIs DEF Asked, Marks, SendsLast
    <2>3. LinedUp(channel', awaiting_outgoing', Asked, Asked)
      <3>1. Publishes(channel') = {} /\ Asked + 1..Asked = {}
        BY <2>1, <2>2 DEF Publishes
      <3> DEFINE at == [i \in Asked + 1..Asked |-> i]
      <3>2. at \in [Asked + 1..Asked -> Publishes(channel')]
        BY <3>1
      <3> QED
        BY <3>1, <3>2 DEF LinedUp
    <2>4. ASSUME ~lapsed' PROVE Asked = 0 /\ inflight' = unacked'
      <3>1. ~lapsed /\ unacked = <<>> /\ Publishes(channel) = {}
        BY <2>1, <2>4 DEF Publishes
      <3>2. PICK k \in Nat : Behind(k)
        BY DEF Marks
      <3>3. k = 0 /\ LinedUp(channel, awaiting_outgoing, k, Asked)
        BY <3>1, <3>2 DEF Behind
      <3>4. PICK at \in [k + 1..Asked -> {}] : TRUE
        BY <3>1, <3>3 DEF LinedUp
      <3> QED
        BY <1>1, <2>1, <2>2, <3>1, <3>3, <3>4 DEF Marks
    <2>5. Behind(Asked)'
      BY <1>1, <2>2, <2>3, <2>4 DEF Behind
    <2>6. \E k \in Nat : Behind(k)'
      BY <2>2, <2>5 DEF Behind
    <2>7. Stale' /\ Pubacks'
      BY <1>1, <2>1 DEF Stale, Pubacks
    <2> QED
      BY <1>1, <2>2, <2>4, <2>6, <2>7 DEF Marks
  <1>3. CASE LoopRetry
    <2>1. UNCHANGED <<unacked, lapsed, incoming, broken, channel>>
      BY <1>3 DEF LoopRetry, client, wire, history
    <2>2. Aside /\ broken' \in {broken, TRUE} /\ confirming' \subseteq confirming
      BY <1>1, <2>1 DEF Aside
    <2> QED
      BY <1>1, <2>1, <2>2, QuietMarks
  <1> QED
    BY <1>2, <1>3

(* A reply of the responder. *)
LEMMA RespondMarks ==
  ASSUME Types, Marks, NEW c \in Requesters, Respond(c)
  PROVE  Marks'
  <1> DEFINE x == Reply(c)
  <1>1. /\ incoming \in Seq(Packet) /\ incoming' = Append(incoming, x) /\ x \in Packet
        /\ x.op = "publish"
        /\ UNCHANGED <<funnel, awaiting_outgoing, inflight, confirming, unacked, channel, lapsed,
                       broken, stored>>
    BY DEF Types, Respond, tracker, client, history, Reply, Packet
  <1> HIDE DEF x
  <1>2. \A i \in DOMAIN incoming' :
           \/ i \in DOMAIN incoming /\ incoming'[i] = incoming[i]
           \/ incoming'[i] = x
    BY <1>1
  <1>3. \A i \in DOMAIN incoming' : incoming'[i].op = "puback" =>
           i \in Nat /\ i + 0 \in DOMAIN incoming /\ incoming[i + 0] = incoming'[i]
    BY <1>1, <1>2
  <1> QED
    BY <1>1, <1>3, MarksStay DEF Aside

-----------------------------------------------------------------------------
(* What every step keeps of types, waiters, markers and confirmations. *)
Confirmations == confirmed \subseteq stored /\ ConfirmedIsStored

Basis ==
    /\ Types /\ Shapes /\ Bounded /\ Waiters
    /\ PublishesOnce /\ Marks /\ Confirmations

LEMMA ConfirmationsStay ==
  ASSUME Confirmations, outcome' = outcome, stored \subseteq stored', confirmed' \subseteq stored'
  PROVE  Confirmations'
  BY DEF Confirmations, ConfirmedIsStored

LEMMA MoveConfirms ==
  ASSUME Types, Confirmations, NEW c \in Callers, Moves(c)
  PROVE  Confirmations'
  <1>1. /\ outcome' = outcome \/ \E what \in Outcomes : Ends(c, what)
        /\ confirmed' = confirmed /\ stored' = stored
    BY MovesAre DEF tracker, wire
  <1>2. CASE outcome' = outcome
    BY <1>1, <1>2 DEF Confirmations, ConfirmedIsStored
  <1>3. ASSUME NEW what \in Outcomes, Ends(c, what) PROVE Confirmations'
    <2>1. /\ \A q \in Callers : outcome'[q] = IF q = c THEN what ELSE outcome[q]
          /\ what = "ok" => c \in Subscribers \/ c \in confirmed
      BY <1>3 DEF Ends, Types
    <2>2. \A q \in Confirmers : outcome'[q] = "ok" => q \in stored
      BY <2>1, CallersAre DEF Confirmations, ConfirmedIsStored
    <2> QED
      BY <1>1, <2>2 DEF Confirmations, ConfirmedIsStored
  <1> QED
    BY <1>1, <1>2, <1>3

(* The steps of a caller. *)
CallerActs(c) ==
    \/ Moves(c)
    \/ SubscribeRegister(c) \/ SubscribeSend(c) \/ Unsubscribe(c)
    \/ DropGuards(c) \/ Submit(c) \/ Release(c)

(* A lost connection is noticed, or an attempt to connect again fails. *)
Fails == LoopError \/ LoopRetry

LEMMA NextIs ==
  ASSUME [Next]_vars
  PROVE  \/ \E c \in Callers : CallerActs(c)
         \/ Funnel \/ LoopRead \/ LoopWrite \/ Fails \/ LoopConnect
         \/ WireBreaks
         \/ \E c \in Requesters : Respond(c)
         \/ UNCHANGED vars
  <1>1. ASSUME NEW c \in Callers, BeginCall(c) \/ CallerStep(c) \/ Cancelled(c) \/ Abandon(c)
        PROVE  CallerActs(c)
    BY <1>1 DEF BeginCall, CallerStep, CallerActs, Moves
  <1> QED
    BY <1>1 DEF Next, Finished, Fails

LEMMA CallerOnce ==
  ASSUME Types, PublishesOnce, NEW c \in Callers, CallerActs(c)
  PROVE  PublishesOnce'
  <1>1. CASE Submit(c)
    BY <1>1, SubmitOnce
  <1>2. CASE ~Submit(c)
    <2>1. UNCHANGED <<publish_queue, funnel, awaiting_outgoing, inflight>>
      <3>1. CASE Moves(c)
        BY <3>1, MovesAre DEF tracker
      <3>2. CASE ~Moves(c)
        BY <1>2, <3>2 DEF CallerActs, SubscribeRegister, SubscribeSend, Unsubscribe, DropGuards,
           Release, tracker
      <3> QED
        BY <3>1, <3>2
    <2>2. \E to : pc' = [pc EXCEPT ![c] = to] /\ to # "idle"
      <3>1. CASE Moves(c)
        <4>1. PICK to : Goes(c, to)
          BY <3>1, MovesAre
        <4> QED
          BY <4>1 DEF Goes, Leads
      <3>2. CASE ~Moves(c)
        BY <1>2, <3>2 DEF CallerActs, SubscribeRegister, SubscribeSend, Unsubscribe, DropGuards,
           Release, AfterRelease, Goto
      <3> QED
        BY <3>1, <3>2
    <2>3. \A q \in Confirmers : pc'[q] = "idle" => pc[q] = "idle"
      BY <2>2, CallersAre DEF Types
    <2>4. \A q \in Confirmers : (Registers(q)' => Registers(q)) /\ (Marked(q)' => Marked(q))
      BY <2>1 DEF Registers, Marked
    <2> QED
      BY <2>1, <2>3, <2>4, OnceStays
  <1> QED
    BY <1>1, <1>2

LEMMA CallerBasis ==
  ASSUME Basis, NEW c \in Callers, CallerActs(c)
  PROVE  Basis'
  <1>0. /\ Types /\ Shapes /\ Bounded /\ Waiters /\ PublishesOnce /\ Marks /\ Confirmations
        /\ Distinct /\ confirmed \subseteq stored
    BY DEF Basis, Waiters, Confirmations
  <1>1. Types' /\ Shapes' /\ Bounded'
    BY <1>0, MovesTypes, CallerTypes DEF CallerActs
  <1>2. Waiters' /\ PublishesOnce'
    BY <1>0, CallerWaiters, CallerOnce DEF CallerActs
  <1>3. CASE Moves(c)
    <2>1. UNCHANGED <<subs, mailbox, publish_queue, funnel, tracker, loop,
                      connected, client, wire, granted, shifted, lapsed>>
      BY <1>0, <1>3, MovesAre
    <2>2. /\ UNCHANGED <<funnel, awaiting_outgoing, inflight, unacked, lapsed, incoming, stored>>
          /\ confirming' \subseteq confirming /\ broken' \in {broken, TRUE} /\ Aside
      BY <2>1 DEF tracker, wire, client, Aside
    <2>3. Marks'
      BY <1>0, <2>2, QuietMarks
    <2>4. Confirmations'
      BY <1>0, <1>3, MoveConfirms
    <2> QED
      BY <1>1, <1>2, <2>3, <2>4 DEF Basis
  <1>4. CASE SubscribeRegister(c) \/ DropGuards(c) \/ Submit(c) \/ Release(c)
    <2>1. /\ UNCHANGED <<funnel, awaiting_outgoing, inflight, unacked, lapsed, incoming, stored>>
          /\ confirming' \subseteq confirming /\ broken' \in {broken, TRUE} /\ Aside
          /\ outcome' = outcome /\ confirmed' = confirmed
      BY <1>4 DEF SubscribeRegister, DropGuards, Submit, Release, tracker, wire, client,
         history, Aside
    <2>2. Marks'
      BY <1>0, <2>1, QuietMarks
    <2>3. Confirmations'
      BY <1>0, <2>1, ConfirmationsStay
    <2> QED
      BY <1>1, <1>2, <2>2, <2>3 DEF Basis
  <1>5. CASE SubscribeSend(c) \/ Unsubscribe(c)
    <2>1. PICK op \in {"sub", "unsub"} : Send(op, c)
      BY <1>5 DEF SubscribeSend, Unsubscribe
    <2>2. /\ UNCHANGED <<funnel, awaiting_outgoing, inflight, lapsed, incoming, stored>>
          /\ confirming' \subseteq confirming /\ broken' \in {broken, TRUE}
          /\ outcome' = outcome /\ confirmed' = confirmed
      BY <1>5 DEF SubscribeSend, Unsubscribe, tracker, wire
    <2>3. Aside /\ unacked' = unacked
      BY <2>1 DEF Aside, Send
    <2>4. Marks'
      BY <1>0, <2>2, <2>3, QuietMarks
    <2>5. Confirmations'
      BY <1>0, <2>2, ConfirmationsStay
    <2> QED
      BY <1>1, <1>2, <2>4, <2>5 DEF Basis
  <1> QED
    BY <1>3, <1>4, <1>5 DEF CallerActs

LEMMA LoopBasis ==
  ASSUME Basis, Funnel \/ LoopRead \/ LoopWrite \/ Fails
  PROVE  Basis'
  <1>0. /\ Types /\ Shapes /\ Bounded /\ Waiters /\ PublishesOnce /\ Marks /\ Confirmations
        /\ confirmed \subseteq stored
    BY DEF Basis, Confirmations
  <1>1. CASE Funnel
    <2>1. /\ UNCHANGED <<pc, subs>> /\ UNCHANGED <<outcome, confirmed, stored>>
      BY <1>1 DEF Funnel, FunnelTake, FunnelRegister, FunnelSend, tracker, wire
    <2> QED
      BY <1>0, <1>1, <2>1, FunnelTypes, FunnelOnce, FunnelMarks, OtherWaiters,
         ConfirmationsStay DEF Basis
  <1>2. CASE LoopRead
    <2>1. UNCHANGED <<outcome, stored>>
      BY <1>2 DEF LoopRead, LoopSuback, LoopPuback, LoopReply, Reads
    <2>2. Waiters'
      <3>1. CASE LoopSuback
        BY <1>0, <3>1, SubackWaiters
      <3>2. CASE LoopPuback \/ LoopReply
        <4>1. UNCHANGED <<pc, subs>>
          BY <3>2 DEF LoopPuback, LoopReply, Reads, subs
        <4> QED
          BY <1>0, <4>1, OtherWaiters
      <3> QED
        BY <1>2, <3>1, <3>2 DEF LoopRead
    <2>3. Marks' /\ confirmed' \subseteq stored'
      BY <1>0, <1>2, ReadMarks
    <2>4. Confirmations'
      BY <1>0, <2>1, <2>3, ConfirmationsStay
    <2> QED
      BY <1>0, <1>2, <2>2, <2>3, <2>4, ReadsTypes, LoopOnce DEF Basis
  <1>3. CASE LoopWrite
    <2>1. UNCHANGED <<pc, subs>> /\ outcome' = outcome
      BY <1>3 DEF LoopWrite, LoopSubscribe, LoopUnsubscribe, LoopPublish, Writes
    <2>2. Marks' /\ stored \subseteq stored' /\ confirmed' = confirmed
      BY <1>0, <1>3, WriteMarks
    <2>3. Confirmations'
      BY <1>0, <2>1, <2>2, ConfirmationsStay
    <2> QED
      BY <1>0, <1>3, <2>1, <2>2, <2>3, WritesTypes, LoopOnce, OtherWaiters DEF Basis
  <1>4. CASE Fails
    <2>1. UNCHANGED <<pc, subs>> /\ outcome' = outcome
      BY <1>4 DEF Fails, LoopError, LoopRetry
    <2>2. Marks' /\ UNCHANGED <<confirmed, stored>>
      BY <1>0, <1>4, ErrorMarks DEF Fails
    <2>3. Confirmations'
      BY <1>0, <2>1, <2>2, ConfirmationsStay
    <2> QED
      BY <1>0, <1>4, <2>1, <2>2, <2>3, ErrorTypes, LoopOnce, OtherWaiters DEF Basis, Fails
  <1> QED
    BY <1>1, <1>2, <1>3, <1>4

LEMMA OtherBasis ==
  ASSUME Basis,
         LoopConnect \/ WireBreaks \/ (\E c \in Requesters : Respond(c)) \/ UNCHANGED vars
  PROVE  Basis'
  <1>0. /\ Types /\ Shapes /\ Bounded /\ Waiters /\ PublishesOnce /\ Marks /\ Confirmations
        /\ confirmed \subseteq stored
    BY DEF Basis, Confirmations
  <1>1. /\ UNCHANGED <<pc, subs>> /\ UNCHANGED <<outcome, confirmed, stored>>
        /\ UNCHANGED <<publish_queue, funnel, awaiting_outgoing, inflight>>
    BY DEF LoopConnect, LoopConnack, LoopResubscribe, LoopReady, WireBreaks, Respond, vars,
           tracker, wire
  <1>2. Types' /\ Shapes' /\ Bounded'
    BY <1>0, ConnectTypes, OutsideTypes
  <1>3. PublishesOnce'
    BY <1>0, <1>1, OnceStays DEF Registers, Marked
  <1>4. Marks'
    <2>1. CASE LoopConnack \/ LoopReady \/ WireBreaks \/ UNCHANGED vars
      <3>1. /\ UNCHANGED <<funnel, awaiting_outgoing, inflight, unacked, lapsed, incoming, stored>>
            /\ confirming' \subseteq confirming /\ Aside
            /\ broken' = broken \/ broken' = TRUE
        BY <2>1 DEF LoopConnack, LoopReady, WireBreaks, vars, tracker, wire, client, history,
           Aside
      <3> QED
        BY <1>0, <3>1, QuietMarks
    <2>2. CASE LoopResubscribe
      <3>1. /\ loop.todo # <<>> /\ Send("sub", Head(loop.todo))
            /\ UNCHANGED <<funnel, awaiting_outgoing, inflight, lapsed, incoming, stored>>
            /\ confirming' \subseteq confirming /\ broken' \in {broken, TRUE}
        BY <2>2 DEF LoopResubscribe, tracker, wire, history
      <3>2. Head(loop.todo) \in Callers
        <4>1. loop.todo \in Seq(Filters)
          BY <1>0 DEF Types
        <4> QED
          BY <3>1, <4>1, TailIs, CallersAre
      <3>3. Aside /\ unacked' = unacked
        BY <3>1, <3>2 DEF Aside, Send
      <3> QED
        BY <1>0, <3>1, <3>3, QuietMarks
    <2>3. ASSUME NEW c \in Requesters, Respond(c) PROVE Marks'
      BY <1>0, <2>3, RespondMarks
    <2> QED
      BY <2>1, <2>2, <2>3 DEF LoopConnect
  <1> QED
    BY <1>0, <1>1, <1>2, <1>3, <1>4, OtherWaiters, ConfirmationsStay DEF Basis

LEMMA BasisInit == Init => Basis
  <1> SUFFICES ASSUME Init PROVE Basis
    OBVIOUS
  <1>0. /\ \A c \in Callers : pc[c] = "idle" /\ answer[c] = None /\ outcome[c] = None
        /\ channel = <<>> /\ incoming = <<>> /\ pending_subacks = <<>> /\ publish_queue = <<>>
        /\ registry = {} /\ awaiting_outgoing = <<>> /\ inflight = <<>> /\ unacked = <<>>
        /\ confirmed = {} /\ funnel.pc = "recv"
    BY DEF Init
  <1>1. DOMAIN unacked = {} /\ DOMAIN inflight = {} /\ Cardinality(DOMAIN inflight) = 0
    BY <1>0, FS_EmptySet
  <1>2. Types
    <2>1. unacked \in [DOMAIN unacked -> Publishers] /\ inflight \in [DOMAIN inflight -> Publishers]
      BY <1>0, <1>1
    <2>2. loop \in [pc : {"poll", "down", "resubscribe"}, todo : Seq(Filters)]
          /\ loop.todo = <<>>
      BY DEF Init, Polling
    <2>3. connected \in BOOLEAN /\ broken \in BOOLEAN /\ shifted \in BOOLEAN /\ lapsed \in BOOLEAN
      BY Zenon DEF Init
    <2>4. IsFiniteSet(registry) /\ IsFiniteSet(DOMAIN unacked) /\ IsFiniteSet(DOMAIN inflight)
      BY <1>0, <1>1, FS_EmptySet
    <2> QED
      BY <1>0, <1>1, <2>1, <2>2, <2>3, <2>4, CallersAre DEF Init, Types, Places
  <1>3. Shapes /\ Bounded
    BY <1>0, <1>1, MqttConnectionAssumption DEF Shapes, Bounded
  <1>4. Waiters
    BY <1>0, CallersAre DEF Waiters, Distinct
  <1>5. PublishesOnce
    BY <1>0, <1>1 DEF PublishesOnce, Queued, Registers, Marked
  <1>6. Marks
    <2>1. Asked = 0 /\ SendsLast
      BY <1>0 DEF Asked, SendsLast
    <2>2. LinedUp(channel, awaiting_outgoing, 0, Asked)
      <3>1. Publishes(channel) = {} /\ 0 + 1..Asked = {}
        BY <1>0, <2>1 DEF Publishes
      <3> DEFINE at == [i \in 0 + 1..Asked |-> i]
      <3>2. at \in [0 + 1..Asked -> Publishes(channel)]
        BY <3>1
      <3> QED
        BY <3>1, <3>2 DEF LinedUp
    <2>3. Behind(0)
      BY <2>1, <2>2 DEF Behind
    <2>4. \E k \in Nat : Behind(k)
      BY <2>3
    <2> QED
      BY <1>0, <1>1, <2>1, <2>4 DEF Marks, Stale, Pubacks
  <1>7. Confirmations
    BY <1>0, CallersAre DEF Confirmations, ConfirmedIsStored
  <1> QED
    BY <1>2, <1>3, <1>4, <1>5, <1>6, <1>7 DEF Basis

(* The inductive invariant of the connection: types, the waiters, the      *)
(* accounts of markers, packet ids and PUBACKs, and what was confirmed.    *)
THEOREM BasisHolds == Spec => []Basis
  <1>1. Basis /\ [Next]_vars => Basis'
    <2> SUFFICES ASSUME Basis, [Next]_vars PROVE Basis'
      OBVIOUS
    <2> QED
      BY NextIs, CallerBasis, LoopBasis, OtherBasis
  <1> QED
    BY BasisInit, <1>1, PTL DEF Spec

(* The types, the bound of the tracker and its markers: behind those that  *)
(* a lost connection left come those of the publishes in the client's      *)
(* channel, one for one and in order; and as long as no publish was lost   *)
(* with a connection none is left over, and those in flight are filed as   *)
(* the client has them (PublishTracking).                                  *)
THEOREM TypeCorrect == Spec => []TypeOK
  <1>1. Basis => TypeOK
    <2> SUFFICES ASSUME Basis PROVE TypeOK
      OBVIOUS
    <2>1. Types /\ Shapes /\ Bounded /\ Waiters /\ MarkersAligned
      BY MarksAlign DEF Basis
    <2>2. Len(channel) <= ChannelCap /\ registry \subseteq Subscribers \union Requesters
      BY <2>1 DEF Shapes, Types, Filters
    <2>3. /\ \A i \in DOMAIN pending_subacks : pending_subacks[i] \in registry
          /\ Len(awaiting_outgoing) + Cardinality(DOMAIN inflight) <= MaxTracked
      BY <2>1 DEF Waiters, Bounded
    <2> QED
      BY <2>1, <2>2, <2>3 DEF TypeOK, Types, Places
  <1> QED
    BY BasisHolds, <1>1, PTL

(* A publish is reported as confirmed only if the broker took this very    *)
(* message, whatever connections were lost and whatever markers they left  *)
(* (publish_confirmed).                                                    *)
THEOREM ConfirmedIsStoredCorrect == Spec => []ConfirmedIsStored
  <1>1. Basis => ConfirmedIsStored
    BY DEF Basis, Confirmations
  <1> QED
    BY BasisHolds, <1>1, PTL

-----------------------------------------------------------------------------
(* Subscriptions. *)
Sent(op, c) == \E i \in DOMAIN channel : channel[i].op = op /\ channel[i].who = c

(* Every SUBSCRIBE of c that is on its way is followed by an UNSUBSCRIBE. *)
Undone(c) == \A i \in DOMAIN channel :
    channel[i].op = "sub" /\ channel[i].who = c =>
    \E j \in DOMAIN channel : i < j /\ channel[j].op = "unsub" /\ channel[j].who = c

(* The filter of c is not wanted any more. *)
Over(c) == c \notin leaky /\ (pc[c] = "guards" \/ (c \notin registry /\ pc[c] # "unsubscribe"))

Registered == \A c \in Filters :
    pc[c] \in {"subscribe", "suback", "guards", "publish", "submitted", "wait", "release"}
    => c \in registry

UnsubscribesLast == \A c \in Filters : Sent("unsub", c) =>
    pc[c] = "guards" \/ (pc[c] = "done" /\ c \notin registry)

(* A registered filter is subscribed, or will be. *)
Wanted == \A c \in registry \ Rejects :
    \/ pc[c] \in {"subscribe", "guards"}
    \/ broken \/ loop.pc = "down"
    \/ c \in bsubs \/ Sent("sub", c)
    \/ \E i \in DOMAIN loop.todo : loop.todo[i] = c

Again == \A i \in DOMAIN loop.todo :
    \/ loop.todo[i] \in leaky
    \/ /\ pc[loop.todo[i]] # "guards"
       /\ loop.todo[i] \in registry \/ pc[loop.todo[i]] = "unsubscribe"

(* What is not wanted any more is unsubscribed, or will be. *)
Unwanted == \A c \in Filters : Over(c) =>
    /\ Undone(c)
    /\ c \in bsubs /\ ~broken => Sent("unsub", c)

Subscribing == Registered /\ UnsubscribesLast /\ Wanted /\ Again /\ Unwanted

LEMMA SendSent ==
  ASSUME Types, NEW op \in {"sub", "unsub", "pub"}, NEW c \in Callers, Send(op, c)
  PROVE  /\ \A o, q : Sent(o, q)' <=> Sent(o, q) \/ (o = op /\ q = c)
         /\ \A q : Undone(q) /\ (op # "sub" \/ q # c) => Undone(q)'
         /\ op = "unsub" => Undone(c)'
  <1>1. /\ channel \in Seq(Request)
    BY DEF Types
  <1>2. /\ DOMAIN channel = 1..Len(channel) /\ Len(channel) \in Nat
        /\ DOMAIN channel' = 1..Len(channel) + 1
        /\ \A i \in DOMAIN channel : channel'[i] = channel[i]
        /\ channel'[Len(channel) + 1].op = op /\ channel'[Len(channel) + 1].who = c
    <2>1. DOMAIN channel = 1..Len(channel) /\ Len(channel) \in Nat
      BY <1>1, ChannelIs
    <2>2. /\ DOMAIN channel' = 1..Len(channel) + 1
          /\ \A i \in DOMAIN channel : channel'[i] = channel[i]
          /\ channel'[Len(channel) + 1] = Ask(op, c)
      BY <1>1, Sends
    <2>3. Ask(op, c).op = op /\ Ask(op, c).who = c
      BY DEF Ask
    <2> QED
      BY <2>1, <2>2, <2>3
  <1> DEFINE n == Len(channel)
  <1>3. \A i \in DOMAIN channel' : i \in DOMAIN channel \/ i = n + 1
    BY <1>2
  <1>4. /\ n + 1 \in DOMAIN channel' /\ \A i \in DOMAIN channel : i < n + 1
        /\ \A i \in DOMAIN channel : i \in DOMAIN channel'
    BY <1>2
  <1> HIDE DEF n
  <1>5. \A o, q : Sent(o, q)' <=> Sent(o, q) \/ (o = op /\ q = c)
    BY <1>2, <1>3, <1>4 DEF Sent, n
  <1>6. ASSUME NEW q, Undone(q), op # "sub" \/ q # c PROVE Undone(q)'
    <2>1. ASSUME NEW i \in DOMAIN channel', channel'[i].op = "sub", channel'[i].who = q
          PROVE  \E j \in DOMAIN channel' : /\ i < j /\ channel'[j].op = "unsub"
                                             /\ channel'[j].who = q
      <3>1. i \in DOMAIN channel
        BY <1>2, <1>3, <1>6, <2>1 DEF n
      <3>2. PICK j \in DOMAIN channel : i < j /\ channel[j].op = "unsub" /\ channel[j].who = q
        BY <1>2, <1>6, <2>1, <3>1 DEF Undone
      <3> QED
        BY <1>2, <1>4, <3>2
    <2> QED
      BY <2>1 DEF Undone
  <1>7. ASSUME op = "unsub" PROVE Undone(c)'
    <2>1. ASSUME NEW i \in DOMAIN channel', channel'[i].op = "sub"
          PROVE  i < n + 1
      BY <1>2, <1>3, <1>4, <1>7, <2>1 DEF n
    <2> QED
      BY <1>2, <1>4, <1>7, <2>1 DEF Undone, n
  <1> QED
    BY <1>5, <1>6, <1>7

LEMMA PopIs ==
  ASSUME Types, NEW op, Writes(op)
  PROVE  /\ 1 \in DOMAIN channel
         /\ \A i \in DOMAIN channel' : /\ i + 1 \in DOMAIN channel /\ i \in Nat \ {0}
                                        /\ channel'[i] = channel[i + 1]
         /\ \A i \in DOMAIN channel : i # 1 => /\ i - 1 \in DOMAIN channel'
                                                /\ channel'[i - 1] = channel[i]
  <1>1. /\ DOMAIN channel = 1..Len(channel) /\ Len(channel) \in Nat
        /\ 1 \in DOMAIN channel
        /\ DOMAIN channel' = 1..Len(channel) - 1
        /\ \A i \in 1..Len(channel) - 1 : channel'[i] = channel[i + 1]
    <2>1. channel \in Seq(Request)
      BY DEF Types
    <2> QED
      BY <2>1, Wrote, ChannelIs
  <1>2. \A i \in DOMAIN channel' : /\ i + 1 \in DOMAIN channel /\ i \in Nat \ {0}
                                    /\ channel'[i] = channel[i + 1]
    BY <1>1
  <1>3. \A i \in DOMAIN channel : i # 1 => /\ i - 1 \in DOMAIN channel'
                                            /\ channel'[i - 1] = channel[i]
    <2> TAKE i \in DOMAIN channel
    <2>1. i # 1 => i - 1 \in 1..Len(channel) - 1 /\ (i - 1) + 1 = i
      BY <1>1
    <2> QED
      BY <1>1, <2>1
  <1> QED
    BY <1>1, <1>2, <1>3

LEMMA WriteSent ==
  ASSUME Types, NEW op, Writes(op)
  PROVE  /\ \A o, q : Sent(o, q)' => Sent(o, q)
         /\ \A o, q : Sent(o, q) => Sent(o, q)' \/ (o = op /\ q = channel[1].who)
         /\ \A q : Undone(q) => Undone(q)'
         /\ \A q : Undone(q) /\ op = "sub" /\ q = channel[1].who => Sent("unsub", q)'
         /\ Sent(op, channel[1].who)
  <1>1. channel \in Seq(Request)
    BY DEF Types
  <1>2. /\ 1 \in DOMAIN channel /\ channel[1].op = op
        /\ \A i \in DOMAIN channel' : /\ i + 1 \in DOMAIN channel /\ i \in Nat \ {0}
                                       /\ channel'[i] = channel[i + 1]
        /\ \A i \in DOMAIN channel : i # 1 => /\ i - 1 \in DOMAIN channel'
                                               /\ channel'[i - 1] = channel[i]
        /\ DOMAIN channel = 1..Len(channel) /\ Len(channel) \in Nat
    BY <1>1, PopIs, Wrote, ChannelIs
  <1>3. \A o, q : Sent(o, q)' => Sent(o, q)
    BY <1>2 DEF Sent
  <1>4. \A o, q : Sent(o, q) => Sent(o, q)' \/ (o = op /\ q = channel[1].who)
    BY <1>2 DEF Sent
  <1>5. ASSUME NEW q, Undone(q) PROVE Undone(q)'
    <2>1. ASSUME NEW i \in DOMAIN channel', channel'[i].op = "sub", channel'[i].who = q
          PROVE  \E j \in DOMAIN channel' : /\ i < j /\ channel'[j].op = "unsub"
                                             /\ channel'[j].who = q
      <3>1. /\ i + 1 \in DOMAIN channel /\ i \in Nat \ {0}
            /\ channel[i + 1].op = "sub" /\ channel[i + 1].who = q
        BY <1>2, <2>1
      <3>2. PICK j \in DOMAIN channel : i + 1 < j /\ channel[j].op = "unsub" /\ channel[j].who = q
        BY <1>5, <3>1 DEF Undone
      <3>3. j # 1 /\ i < j - 1
        BY <1>2, <3>1, <3>2
      <3>4. j - 1 \in DOMAIN channel' /\ channel'[j - 1] = channel[j]
        BY <1>2, <3>3
      <3> QED
        BY <3>2, <3>3, <3>4
    <2> QED
      BY <2>1 DEF Undone
  <1>6. ASSUME NEW q, Undone(q), op = "sub", q = channel[1].who PROVE Sent("unsub", q)'
    <2>1. PICK j \in DOMAIN channel : 1 < j /\ channel[j].op = "unsub" /\ channel[j].who = q
      BY <1>2, <1>6 DEF Undone
    <2>2. j - 1 \in DOMAIN channel' /\ channel'[j - 1] = channel[j]
      BY <1>2, <2>1
    <2> QED
      BY <2>1, <2>2 DEF Sent
  <1>7. Sent(op, channel[1].who)
    BY <1>2 DEF Sent
  <1> QED
    BY <1>3, <1>4, <1>5, <1>6, <1>7

(* A lost connection takes all requests of the channel with it. *)
LEMMA EmptySent ==
  ASSUME channel' = <<>>
  PROVE  (\A o, q : ~Sent(o, q)') /\ (\A q : Undone(q)')
  BY DEF Sent, Undone

LEMMA SameSent ==
  ASSUME UNCHANGED <<channel>>
  PROVE  /\ \A o, q : Sent(o, q)' <=> Sent(o, q)
         /\ \A q : Undone(q)' <=> Undone(q)
  BY DEF Sent, Undone

LEMMA MoveSubscribing ==
  ASSUME Types, Subscribing, NEW c \in Callers, Moves(c)
  PROVE  Subscribing'
  <1>1. /\ \E to : Goes(c, to)
        /\ UNCHANGED <<registry, loop, channel, broken, bsubs>>
    BY MovesAre DEF subs, client, wire
  <1>2. PICK to : Goes(c, to)
    BY <1>1
  <1>3. /\ \A q \in Callers : pc'[q] = IF q = c THEN to ELSE pc[q]
        /\ leaky' = IF to = "guards" THEN leaky \union {c} ELSE leaky
        /\ \/ /\ c \in Filters /\ pc[c] = "suback" /\ to \in {"publish", "unsubscribe", "done"}
           \/ /\ c \in Filters /\ to = "guards"
              /\ \/ pc[c] \in {"subscribe", "suback", "publish", "submitted"}
                 \/ pc[c] = "unsubscribe" /\ c \in registry
           \/ c \notin Filters
           \/ /\ c \in Requesters /\ pc[c] = "submitted" /\ to = "wait"
           \/ /\ c \in Requesters /\ pc[c] = "wait" /\ to = "release"
    BY <1>2, CallersAre DEF Goes, Leads, Types
  <1>4. /\ \A o, q : Sent(o, q)' <=> Sent(o, q)
        /\ \A q : Undone(q)' <=> Undone(q)
    BY <1>1, SameSent
  <1>5. Filters \in SUBSET Callers /\ registry \in SUBSET Filters /\ loop.todo \in Seq(Filters)
    BY CallersAre DEF Types
  <1>6. Registered'
    BY <1>1, <1>3, <1>5, CallersAre DEF Subscribing, Registered
  <1>7. UnsubscribesLast'
    BY <1>1, <1>3, <1>4, <1>5, CallersAre DEF Subscribing, UnsubscribesLast
  <1>8. Wanted'
    BY <1>1, <1>3, <1>4, <1>5, CallersAre DEF Subscribing, Wanted
  <1>9. Again'
    <2>1. \A i \in DOMAIN loop.todo : loop.todo[i] \in Filters
      BY <1>5
    <2> QED
      BY <1>1, <1>3, <1>5, <2>1 DEF Subscribing, Again
  <1>10. \A q \in Filters : Over(q)' => Over(q)
    BY <1>1, <1>3, <1>5 DEF Over, Subscribing, Registered
  <1>11. Unwanted'
    BY <1>1, <1>4, <1>10 DEF Subscribing, Unwanted
  <1> QED
    BY <1>6, <1>7, <1>8, <1>9, <1>11 DEF Subscribing

LEMMA RegisterSubscribing ==
  ASSUME Types, Subscribing, NEW c \in Callers,
         SubscribeRegister(c) \/ DropGuards(c) \/ Submit(c) \/ Release(c)
  PROVE  Subscribing'
  <1>1. /\ UNCHANGED <<loop, channel, broken, bsubs, leaky>>
        /\ \E to \in Places :
              /\ \A q \in Callers : pc'[q] = IF q = c THEN to ELSE pc[q]
              /\ \/ /\ c \in Filters /\ pc[c] = "idle" /\ to = "subscribe"
                    /\ registry' = registry \union {c}
                 \/ /\ pc[c] = "guards" /\ to = "done"
                    /\ registry' = registry \ {c}
                 \/ /\ pc[c] = "publish" \/ c \notin Filters
                    /\ to = "submitted" /\ registry' = registry
                 \/ /\ pc[c] = "release" /\ to = "unsubscribe"
                    /\ registry' = registry \ {c}
    <2>1. pc \in [Callers -> Places]
      BY DEF Types
    <2>2. CASE SubscribeRegister(c)
      BY <2>1, <2>2 DEF SubscribeRegister, Goto, client, wire, history, Filters, Places
    <2>3. CASE DropGuards(c)
      BY <2>1, <2>3 DEF DropGuards, Goto, client, wire, Places
    <2>4. CASE Submit(c)
      BY <2>1, <2>4, CallersAre DEF Submit, Goto, subs, client, wire, history, Places
    <2>5. CASE Release(c)
      BY <2>1, <2>5 DEF Release, Goto, AfterRelease, client, wire, history, Places
    <2> QED
      BY <2>2, <2>3, <2>4, <2>5
  <1>2. PICK to \in Places :
              /\ \A q \in Callers : pc'[q] = IF q = c THEN to ELSE pc[q]
              /\ \/ /\ c \in Filters /\ pc[c] = "idle" /\ to = "subscribe"
                    /\ registry' = registry \union {c}
                 \/ /\ pc[c] = "guards" /\ to = "done"
                    /\ registry' = registry \ {c}
                 \/ /\ pc[c] = "publish" \/ c \notin Filters
                    /\ to = "submitted" /\ registry' = registry
                 \/ /\ pc[c] = "release" /\ to = "unsubscribe"
                    /\ registry' = registry \ {c}
    BY <1>1
  <1>3. /\ \A o, q : Sent(o, q)' <=> Sent(o, q)
        /\ \A q : Undone(q)' <=> Undone(q)
    BY <1>1, SameSent
  <1>4. Filters \in SUBSET Callers /\ registry \in SUBSET Filters
        /\ \A i \in DOMAIN loop.todo : loop.todo[i] \in Filters
    BY CallersAre DEF Types
  <1>5. Registered'
    BY <1>2, <1>4 DEF Subscribing, Registered
  <1>6. UnsubscribesLast'
    BY <1>2, <1>3, <1>4 DEF Subscribing, UnsubscribesLast
  <1>7. Wanted'
    BY <1>1, <1>2, <1>3, <1>4 DEF Subscribing, Wanted
  <1>8. Again'
    BY <1>1, <1>2, <1>4 DEF Subscribing, Again
  <1>9. \A q \in Filters : Over(q)' => Over(q)
    BY <1>1, <1>2, <1>4 DEF Over, Subscribing, Registered
  <1>10. Unwanted'
    BY <1>1, <1>3, <1>9 DEF Subscribing, Unwanted
  <1> QED
    BY <1>5, <1>6, <1>7, <1>8, <1>10 DEF Subscribing

LEMMA AskSubscribing ==
  ASSUME Types, Subscribing, NEW c \in Callers, SubscribeSend(c) \/ Unsubscribe(c)
  PROVE  Subscribing'
  <1>1. Filters \in SUBSET Callers /\ registry \in SUBSET Filters /\ pc \in [Callers -> Places]
        /\ \A i \in DOMAIN loop.todo : loop.todo[i] \in Filters
        /\ loop.todo \in Seq(Filters)
    BY CallersAre DEF Types
  <1>2. CASE SubscribeSend(c)
    <2>1. /\ pc[c] = "subscribe" /\ Send("sub", c)
          /\ \A q \in Callers : pc'[q] = IF q = c THEN "suback" ELSE pc[q]
          /\ UNCHANGED <<registry, loop, broken, bsubs, leaky>>
      BY <1>1, <1>2 DEF SubscribeSend, Goto, subs, wire
    <2>2. /\ \A o, q : Sent(o, q)' <=> Sent(o, q) \/ (o = "sub" /\ q = c)
          /\ \A q : Undone(q) /\ q # c => Undone(q)'
      BY <2>1, SendSent
    <2>3. Registered'
      BY <1>1, <2>1 DEF Subscribing, Registered
    <2>4. UnsubscribesLast'
      BY <1>1, <2>1, <2>2 DEF Subscribing, UnsubscribesLast
    <2>5. Wanted'
      BY <1>1, <2>1, <2>2 DEF Subscribing, Wanted
    <2>6. Again'
      BY <1>1, <2>1 DEF Subscribing, Again
    <2>7. \A q \in Filters : Over(q)' => Over(q) /\ q # c
      BY <1>1, <2>1 DEF Over, Subscribing, Registered
    <2>8. Unwanted'
      BY <2>1, <2>2, <2>7 DEF Subscribing, Unwanted
    <2> QED
      BY <2>3, <2>4, <2>5, <2>6, <2>8 DEF Subscribing
  <1>3. CASE Unsubscribe(c)
    <2>1. /\ pc[c] = "unsubscribe" /\ Send("unsub", c)
          /\ \A q \in Callers : pc'[q] = IF q = c THEN IF c \in registry THEN "guards" ELSE "done"
                                         ELSE pc[q]
          /\ leaky' = IF Contains(loop.todo, c) THEN leaky \union {c} ELSE leaky
          /\ UNCHANGED <<registry, loop, broken, bsubs>>
      BY <1>1, <1>3 DEF Unsubscribe, Goto, subs, wire
    <2>2. /\ \A o, q : Sent(o, q)' <=> Sent(o, q) \/ (o = "unsub" /\ q = c)
          /\ \A q : Undone(q) => Undone(q)' /\ Undone(c)'
      BY <2>1, SendSent
    <2>3. \A i \in DOMAIN loop.todo : loop.todo[i] = c => c \in leaky'
      BY <1>1, <2>1 DEF Contains
    <2>4. leaky \subseteq leaky' /\ \A q : q # c /\ q \in leaky' => q \in leaky
      BY <2>1
    <2>5. Registered'
      BY <1>1, <2>1 DEF Subscribing, Registered
    <2>6. UnsubscribesLast'
      BY <1>1, <2>1, <2>2 DEF Subscribing, UnsubscribesLast
    <2>7. Wanted'
      BY <1>1, <2>1, <2>2 DEF Subscribing, Wanted
    <2>8. Again'
      BY <1>1, <2>1, <2>3, <2>4 DEF Subscribing, Again
    <2>9. \A q \in Filters : Over(q)' /\ q # c => Over(q)
      BY <1>1, <2>1, <2>4 DEF Over
    <2>10. Unwanted'
      <3>1. /\ Undone(c)' /\ Sent("unsub", c)'
        BY <2>1, <2>2, SendSent
      <3> QED
        BY <2>1, <2>2, <2>9, <3>1 DEF Subscribing, Unwanted
    <2> QED
      BY <2>5, <2>6, <2>7, <2>8, <2>10 DEF Subscribing
  <1> QED
    BY <1>2, <1>3

LEMMA WriteSubscribing ==
  ASSUME Types, Shapes, Subscribing, LoopWrite
  PROVE  Subscribing'
  <1>0. Filters \in SUBSET Callers /\ registry \in SUBSET Filters
        /\ \A i \in DOMAIN loop.todo : loop.todo[i] \in Filters
    BY CallersAre DEF Types
  <1>1. PICK op, c :
           /\ op \in {"sub", "unsub", "pub"}
           /\ Writes(op) /\ c = channel[1].who /\ broken' = broken
           /\ broken \/ bsubs' = IF op = "sub" THEN bsubs \union ({c} \ Rejects)
                                 ELSE IF op = "unsub" THEN bsubs \ {c} ELSE bsubs
    <2> DEFINE c == channel[1].who
    <2>1. CASE LoopSubscribe
      <3>1. Writes("sub")
        BY <2>1 DEF LoopSubscribe
      <3>2. Head(channel) = channel[1]
        BY <3>1, WritesShapes
      <3>3. broken' = broken /\ (broken \/ bsubs' = bsubs \union ({c} \ Rejects))
        BY <2>1, <3>2 DEF LoopSubscribe, Reaches
      <3> QED
        BY <3>1, <3>3
    <2>2. CASE LoopUnsubscribe
      <3>1. Writes("unsub")
        BY <2>2 DEF LoopUnsubscribe
      <3>2. Head(channel) = channel[1]
        BY <3>1, WritesShapes
      <3>3. broken' = broken /\ (broken \/ bsubs' = bsubs \ {c})
        BY <2>2, <3>2 DEF LoopUnsubscribe, Reaches
      <3> QED
        BY <3>1, <3>3
    <2>3. CASE LoopPublish
      <3>1. PICK who, pkid : Publishing(who, pkid)
        BY <2>3, PublishIs
      <3>2. Writes("pub") /\ broken' = broken /\ (broken \/ bsubs' = bsubs)
        BY <3>1 DEF Publishing, Reaches
      <3> QED
        BY <3>2
    <2> QED
      BY <2>1, <2>2, <2>3 DEF LoopWrite
  <1>2. UNCHANGED <<pc, registry, loop, leaky>>
    BY <1>1, WritesShapes DEF subs
  <1>3. /\ \A o, q : Sent(o, q)' => Sent(o, q)
        /\ \A o, q : Sent(o, q) => Sent(o, q)' \/ (o = op /\ q = c)
        /\ \A q : Undone(q) => Undone(q)'
        /\ \A q : Undone(q) /\ op = "sub" /\ q = c => Sent("unsub", q)'
        /\ Sent(op, c)
    BY <1>1, WriteSent
  <1>4. Registered' /\ Again'
    BY <1>2 DEF Subscribing, Registered, Again
  <1>5. UnsubscribesLast'
    BY <1>2, <1>3 DEF Subscribing, UnsubscribesLast
  <1>6. Wanted'
    <2> SUFFICES ASSUME NEW q \in registry \ Rejects
                 PROVE  \/ pc[q] \in {"subscribe", "guards"}
                        \/ broken \/ loop.pc = "down"
                        \/ q \in bsubs' \/ Sent("sub", q)'
                        \/ \E i \in DOMAIN loop.todo : loop.todo[i] = q
      BY <1>1, <1>2 DEF Wanted
    <2>1. \/ pc[q] \in {"subscribe", "guards"}
          \/ broken \/ loop.pc = "down"
          \/ q \in bsubs \/ Sent("sub", q)
          \/ \E i \in DOMAIN loop.todo : loop.todo[i] = q
      BY DEF Subscribing, Wanted
    <2>2. Sent("unsub", q) => pc[q] = "guards"
      BY <1>0 DEF Subscribing, UnsubscribesLast
    <2> QED
      BY <1>1, <1>3, <2>1, <2>2
  <1>7. Unwanted'
    <2>1. ASSUME NEW q \in Filters, Over(q), q \in bsubs', ~broken
          PROVE  Sent("unsub", q)'
      <3>1. Undone(q) /\ (q \in bsubs => Sent("unsub", q))
        BY <2>1 DEF Subscribing, Unwanted
      <3> QED
        BY <1>1, <1>3, <2>1, <3>1
    <2>2. \A q \in Filters : Over(q)' <=> Over(q)
      BY <1>2 DEF Over
    <2> QED
      BY <1>1, <1>3, <2>1, <2>2 DEF Subscribing, Unwanted
  <1> QED
    BY <1>4, <1>5, <1>6, <1>7 DEF Subscribing

LEMMA ConnectSubscribing ==
  ASSUME Types, Subscribing, Fails \/ LoopConnect
  PROVE  Subscribing'
  <1>0. Filters \in SUBSET Callers /\ registry \in SUBSET Filters
        /\ loop.todo \in Seq(Filters)
        /\ \A i \in DOMAIN loop.todo : loop.todo[i] \in Filters
    BY CallersAre DEF Types
  <1>1. CASE LoopError
    <2>1. /\ loop'.pc = "down" /\ loop'.todo = <<>> /\ bsubs' = {} /\ channel' = <<>>
          /\ UNCHANGED <<pc, registry, leaky>>
      BY <1>1 DEF LoopError, subs
    <2>2. (\A o, q : ~Sent(o, q)') /\ (\A q : Undone(q)')
      BY <2>1, EmptySent
    <2>3. Registered' /\ Again' /\ Wanted' /\ UnsubscribesLast'
      BY <2>1, <2>2 DEF Subscribing, Registered, Again, Wanted, UnsubscribesLast
    <2>4. Unwanted'
      BY <2>1, <2>2 DEF Unwanted
    <2> QED
      BY <2>3, <2>4 DEF Subscribing
  <1>2. CASE LoopConnack
    <2>1. PICK todo \in SetToSeqs(registry) : loop' = [pc |-> "resubscribe", todo |-> todo]
      BY <1>2 DEF LoopConnack, ToResubscribe
    <2>2. /\ todo \in Seq(registry) /\ \A q \in registry : \E i \in DOMAIN todo : todo[i] = q
      BY LaidOut DEF Types
    <2>3. /\ loop'.todo = todo /\ \A i \in DOMAIN todo : todo[i] \in registry
      BY <2>1, <2>2
    <2>4. /\ leaky' = leaky \union {c \in registry : pc[c] = "guards"}
          /\ UNCHANGED <<pc, registry, channel, broken, bsubs>>
      BY <1>2 DEF LoopConnack, subs, client, wire
    <2>5. /\ \A o, q : Sent(o, q)' <=> Sent(o, q)
          /\ \A q : Undone(q)' <=> Undone(q)
      BY <2>4, SameSent
    <2>6. Wanted'
      BY <2>2, <2>3, <2>4 DEF Wanted
    <2>7. Again'
      BY <2>3, <2>4 DEF Again
    <2>8. Registered' /\ UnsubscribesLast'
      BY <2>4, <2>5 DEF Subscribing, Registered, UnsubscribesLast
    <2>9. \A q \in Filters : Over(q)' => Over(q)
      BY <2>4 DEF Over
    <2>10. Unwanted'
      BY <2>4, <2>5, <2>9 DEF Subscribing, Unwanted
    <2> QED
      BY <2>6, <2>7, <2>8, <2>10 DEF Subscribing
  <1>3. CASE LoopResubscribe
    <2> DEFINE c == Head(loop.todo)
    <2>1. /\ loop.todo # <<>> /\ Send("sub", c)
          /\ loop' = [loop EXCEPT !.todo = Tail(loop.todo)]
          /\ UNCHANGED <<pc, registry, broken, bsubs, leaky>>
      BY <1>3 DEF LoopResubscribe, subs, wire, history
    <2>2. /\ 1 \in DOMAIN loop.todo /\ c = loop.todo[1] /\ c \in Filters
          /\ DOMAIN Tail(loop.todo) = 1..Len(loop.todo) - 1
          /\ DOMAIN loop.todo = 1..Len(loop.todo) /\ Len(loop.todo) \in Nat
          /\ \A i \in 1..Len(loop.todo) - 1 : Tail(loop.todo)[i] = loop.todo[i + 1]
      BY <1>0, <2>1, TailIs
    <2>3. /\ \A o, q : Sent(o, q)' <=> Sent(o, q) \/ (o = "sub" /\ q = c)
          /\ \A q : Undone(q) /\ q # c => Undone(q)'
      <3>1. c \in Callers
        BY <1>0, <2>2
      <3> HIDE DEF c
      <3> QED
        BY <2>1, <3>1, SendSent
    <2> HIDE DEF c
    <2>4. loop'.todo = Tail(loop.todo) /\ loop'.pc = loop.pc
      BY <2>1 DEF Types
    <2>5. /\ \A i \in DOMAIN loop'.todo : /\ i + 1 \in DOMAIN loop.todo
                                          /\ loop'.todo[i] = loop.todo[i + 1]
          /\ \A i \in DOMAIN loop.todo : i # 1 =>
                i - 1 \in DOMAIN loop'.todo /\ loop'.todo[i - 1] = loop.todo[i]
      <3>1. \A i \in 1..Len(loop.todo) : i # 1 =>
               i - 1 \in 1..Len(loop.todo) - 1 /\ (i - 1) + 1 = i
        BY <2>2
      <3>2. \A i \in 1..Len(loop.todo) - 1 : i + 1 \in 1..Len(loop.todo)
        BY <2>2
      <3> QED
        BY <2>2, <2>4, <3>1, <3>2
    <2>6. Wanted'
      <3>1. ASSUME NEW q \in registry \ Rejects, NEW i \in DOMAIN loop.todo, loop.todo[i] = q
            PROVE  q = c \/ \E j \in DOMAIN loop'.todo : loop'.todo[j] = q
        <4>1. CASE i = 1
          BY <2>2, <3>1, <4>1
        <4>2. CASE i # 1
          BY <2>5, <3>1, <4>2
        <4> QED
          BY <4>1, <4>2
      <3> QED
        BY <2>1, <2>3, <2>4, <3>1 DEF Subscribing, Wanted
    <2>7. Again'
      BY <2>1, <2>5 DEF Subscribing, Again
    <2>8. Registered' /\ UnsubscribesLast'
      BY <2>1, <2>3 DEF Subscribing, Registered, UnsubscribesLast
    <2>9. \A q \in Filters : Over(q)' => Over(q) /\ q # c
      <3>1. c \in leaky \/ (pc[c] # "guards" /\ (c \in registry \/ pc[c] = "unsubscribe"))
        BY <2>2 DEF Subscribing, Again
      <3> QED
        BY <2>1, <3>1 DEF Over
    <2>10. Unwanted'
      BY <2>1, <2>3, <2>9 DEF Subscribing, Unwanted
    <2> QED
      BY <2>6, <2>7, <2>8, <2>10 DEF Subscribing
  <1>4. CASE LoopReady
    <2>1. /\ loop.todo = <<>> /\ loop.pc = "resubscribe" /\ loop'.todo = <<>> /\ loop'.pc = "poll"
          /\ UNCHANGED <<pc, registry, broken, bsubs, leaky, channel>>
      BY <1>4 DEF LoopReady, Polling, subs, client, wire, history
    <2>2. /\ \A o, q : Sent(o, q)' <=> Sent(o, q)
          /\ \A q : Undone(q)' <=> Undone(q)
      BY <2>1, SameSent
    <2>3. Wanted'
      BY <2>1, <2>2 DEF Subscribing, Wanted
    <2>4. Again'
      BY <2>1 DEF Again
    <2>5. Registered' /\ UnsubscribesLast' /\ Unwanted'
      BY <2>1, <2>2 DEF Subscribing, Registered, UnsubscribesLast, Unwanted, Over
    <2> QED
      BY <2>3, <2>4, <2>5 DEF Subscribing
  <1>5. CASE LoopRetry
    <2>1. UNCHANGED <<pc, registry, loop, channel, broken, bsubs, leaky>>
      BY <1>5 DEF LoopRetry, subs, client, wire, history
    <2>2. /\ \A o, q : Sent(o, q)' <=> Sent(o, q)
          /\ \A q : Undone(q)' <=> Undone(q)
      BY <2>1, SameSent
    <2> QED
      BY <2>1, <2>2 DEF Subscribing, Registered, UnsubscribesLast, Wanted, Again, Unwanted, Over
  <1> QED
    BY <1>1, <1>2, <1>3, <1>4, <1>5 DEF LoopConnect, Fails

LEMMA OtherSubscribing ==
  ASSUME Types, Subscribing,
         \/ Funnel \/ LoopRead \/ WireBreaks \/ UNCHANGED vars
         \/ \E c \in Requesters : Respond(c)
  PROVE  Subscribing'
  <1>1. CASE FunnelSend
    <2>1. /\ Send("pub", funnel.who) /\ funnel.who \in Callers
          /\ UNCHANGED <<pc, registry, loop, broken, bsubs, leaky>>
      BY <1>1, CallersAre DEF FunnelSend, Types, subs, wire, history
    <2>2. /\ \A q : Sent("sub", q)' <=> Sent("sub", q)
          /\ \A q : Sent("unsub", q)' <=> Sent("unsub", q)
          /\ \A q : Undone(q) => Undone(q)'
      BY <2>1, SendSent
    <2> QED
      BY <2>1, <2>2 DEF Subscribing, Registered, UnsubscribesLast, Wanted, Again, Unwanted, Over
  <1>2. CASE FunnelTake \/ FunnelRegister \/ LoopRead \/ WireBreaks \/ UNCHANGED vars
             \/ \E c \in Requesters : Respond(c)
    <2>1. /\ UNCHANGED <<pc, registry, loop, bsubs, leaky, channel>>
          /\ broken' = broken \/ broken' = TRUE
      BY <1>2 DEF FunnelTake, FunnelRegister, LoopRead, LoopSuback, LoopPuback, LoopReply,
                  Reads, WireBreaks, Respond, vars, subs, client, wire, history
    <2>2. /\ \A o, q : Sent(o, q)' <=> Sent(o, q)
          /\ \A q : Undone(q)' <=> Undone(q)
      BY <2>1, SameSent
    <2> QED
      BY <2>1, <2>2 DEF Subscribing, Registered, UnsubscribesLast, Wanted, Again, Unwanted, Over
  <1> QED
    BY <1>1, <1>2 DEF Funnel

LEMMA SubscribingInit == Init => Subscribing
  <1> SUFFICES ASSUME Init PROVE Subscribing
    OBVIOUS
  <1>1. /\ \A c \in Callers : pc[c] = "idle"
        /\ channel = <<>> /\ registry = {} /\ bsubs = {}
        /\ loop.todo = <<>>
    BY DEF Init, Polling
  <1>2. /\ \A o, q : ~Sent(o, q)
        /\ \A q : Undone(q)
    BY <1>1 DEF Sent, Undone
  <1> QED
    BY <1>1, <1>2, CallersAre
       DEF Subscribing, Registered, UnsubscribesLast, Wanted, Again, Unwanted

(* Every filter is followed from its entry to the broker and back: what is *)
(* registered is subscribed or about to be, and what is over is not        *)
(* subscribed, or its UNSUBSCRIBE is on its way behind the last SUBSCRIBE. *)
THEOREM SubscribingHolds == Spec => []Subscribing
  <1>1. Basis /\ Subscribing /\ [Next]_vars => Subscribing'
    <2> SUFFICES ASSUME Basis, Subscribing, [Next]_vars PROVE Subscribing'
      OBVIOUS
    <2>1. Types /\ Shapes
      BY DEF Basis
    <2>2. ASSUME NEW c \in Callers, CallerActs(c) PROVE Subscribing'
      BY <2>1, <2>2, MoveSubscribing, RegisterSubscribing, AskSubscribing DEF CallerActs
    <2> QED
      BY <2>1, <2>2, NextIs, WriteSubscribing, ConnectSubscribing, OtherSubscribing
  <1> QED
    BY SubscribingInit, BasisHolds, <1>1, PTL DEF Spec

(* Subscriptions survive reconnects: when the connection is quiet, the     *)
(* broker has every registered filter that it accepts and whose SUBSCRIBE  *)
(* was sent (resubscribe after a CONNACK).                                 *)
THEOREM RegisteredIsSubscribedCorrect == Spec => []RegisteredIsSubscribed
  <1>1. Basis /\ Subscribing => RegisteredIsSubscribed
    <2> SUFFICES ASSUME Basis, Subscribing, Quiet, NEW c \in registry \ Rejects
                 PROVE  pc[c] \in {"subscribe", "guards"} \/ c \in bsubs
      BY DEF RegisteredIsSubscribed
    <2>1. channel = <<>> /\ ~broken /\ loop.pc = "poll"
      BY DEF Quiet, Polls
    <2>2. loop.todo = <<>>
      BY <2>1 DEF Basis, Types
    <2>3. ~Sent("sub", c)
      BY <2>1 DEF Sent
    <2> QED
      BY <2>1, <2>2, <2>3 DEF Subscribing, Wanted
  <1> QED
    BY BasisHolds, SubscribingHolds, <1>1, PTL

(* No reply subscription is orphaned: what the broker holds is registered, *)
(* about to be unsubscribed, or was left to it on the two paths named by   *)
(* leaky; and a request that is over keeps no entry and no waiter          *)
(* (start_request and its guards).                                         *)
THEOREM NoOrphanCorrect == Spec => []NoOrphan
  <1>1. Basis /\ Subscribing => NoOrphan
    <2> SUFFICES ASSUME Basis, Subscribing PROVE NoOrphan
      OBVIOUS
    <2>1. Types /\ Waiters
      BY DEF Basis
    <2>2. ASSUME Quiet, NEW c \in bsubs
          PROVE  c \in registry \/ c \in leaky \/ pc[c] = "unsubscribe"
      <3>1. channel = <<>> /\ ~broken
        BY <2>2 DEF Quiet
      <3>2. ~Sent("unsub", c)
        BY <3>1 DEF Sent
      <3>3. c \in Filters
        BY <2>1, <2>2 DEF Types
      <3>4. ~Over(c)
        BY <2>2, <3>1, <3>2, <3>3 DEF Subscribing, Unwanted
      <3>5. pc[c] = "guards" => c \in registry
        BY <3>3 DEF Subscribing, Registered
      <3> QED
        BY <3>4, <3>5 DEF Over
    <2>3. ASSUME NEW c \in Requesters, pc[c] = "done"
          PROVE  c \notin registry /\ ~Contains(pending_subacks, c)
      <3>1. c \notin registry
        BY <2>1, <2>3 DEF Waiters
      <3>2. \A i \in DOMAIN pending_subacks : pending_subacks[i] \in registry
        BY <2>1 DEF Waiters
      <3>3. pending_subacks \in Seq(Filters)
        BY <2>1 DEF Types
      <3> QED
        BY <3>1, <3>2, <3>3 DEF Contains
    <2> QED
      BY <2>2, <2>3 DEF NoOrphan, ReleasedWhenDone
  <1> QED
    BY BasisHolds, SubscribingHolds, <1>1, PTL

-----------------------------------------------------------------------------
(* The FIFO of waiters. *)
AckOf(c) == \E i \in DOMAIN incoming : incoming[i].op = "suback" /\ incoming[i].who = c

(* The SUBACKs on their way are for the first waiters, in their order. *)
AcksInOrder == \A i \in DOMAIN incoming : incoming[i].op = "suback" =>
    \E k \in DOMAIN pending_subacks :
        /\ incoming[i].who = pending_subacks[k]
        /\ \A l \in DOMAIN pending_subacks : l < k =>
              \E j \in DOMAIN incoming :
                  j < i /\ incoming[j].op = "suback" /\ incoming[j].who = pending_subacks[l]

Cut == broken \/ loop.pc = "down"

(* The SUBSCRIBEs in the channel are for the next waiters. *)
AsksInOrder == \A i \in DOMAIN channel : channel[i].op = "sub" =>
    \E k \in DOMAIN pending_subacks :
        /\ channel[i].who = pending_subacks[k]
        /\ Cut \/ \A l \in DOMAIN pending_subacks : l < k =>
              \/ AckOf(pending_subacks[l])
              \/ \E j \in DOMAIN channel :
                    j < i /\ channel[j].op = "sub" /\ channel[j].who = pending_subacks[l]

Once ==
    /\ \A i, j \in DOMAIN incoming :
          /\ incoming[i].op = "suback" /\ incoming[j].op = "suback"
          /\ incoming[i].who = incoming[j].who
          => i = j
    /\ \A i, j \in DOMAIN channel :
          /\ channel[i].op = "sub" /\ channel[j].op = "sub"
          /\ channel[i].who = channel[j].who
          => i = j
    /\ \A c : ~(AckOf(c) /\ Sent("sub", c))

Waits(c) == \E k \in DOMAIN pending_subacks : pending_subacks[k] = c

(* A waiter whose SUBSCRIBE is not sent yet, and the others. *)
Unsent ==
    /\ \A c \in Filters : pc[c] = "subscribe" =>
          ~AckOf(c) /\ ~Sent("sub", c) /\ Waits(c)
    /\ Cut \/ \A c \in Filters : Waits(c) /\ pc[c] \in {"suback", "unsubscribe"} =>
                  AckOf(c) \/ Sent("sub", c)

Fifo == AcksInOrder /\ AsksInOrder /\ Once /\ Unsent /\ loop.todo = <<>>

(* The entries of a kind keep their order, wherever they move. *)
Of(s, op) == {i \in DOMAIN s : s[i].op = op}

Realigned(s, t, op) == \E f \in [Of(s, op) -> Of(t, op)] :
    /\ \A i, j \in Of(s, op) : i < j => f[i] < f[j]
    /\ \A i \in Of(s, op) : t[f[i]].who = s[i].who
    /\ \A i \in Of(t, op) : \E j \in Of(s, op) : f[j] = i

LEMMA RealignedSame ==
  ASSUME NEW s, NEW op
  PROVE  Realigned(s, s, op)
  <1> DEFINE f == [i \in Of(s, op) |-> i]
  <1>1. /\ f \in [Of(s, op) -> Of(s, op)]
        /\ \A i, j \in Of(s, op) : i < j => f[i] < f[j]
        /\ \A i \in Of(s, op) : s[f[i]].who = s[i].who
        /\ \A i \in Of(s, op) : \E j \in Of(s, op) : f[j] = i
    OBVIOUS
  <1> QED
    BY <1>1 DEF Realigned

(* Entries of other kinds come after it. *)
LEMMA RealignedMore ==
  ASSUME NEW s, NEW t, NEW op,
         \A i \in DOMAIN s : i \in DOMAIN t /\ t[i] = s[i],
         \A i \in DOMAIN t : i \in DOMAIN s \/ t[i].op # op
  PROVE  Realigned(s, t, op)
  <1> DEFINE f == [i \in Of(s, op) |-> i]
  <1>1. \A i : i \in Of(s, op) <=> i \in Of(t, op)
    BY DEF Of
  <1>2. \A i \in Of(s, op) : t[i] = s[i]
    BY DEF Of
  <1>3. /\ f \in [Of(s, op) -> Of(t, op)]
        /\ \A i, j \in Of(s, op) : i < j => f[i] < f[j]
        /\ \A i \in Of(s, op) : t[f[i]].who = s[i].who
        /\ \A i \in Of(t, op) : \E j \in Of(s, op) : f[j] = i
    BY <1>1, <1>2
  <1> QED
    BY <1>3 DEF Realigned

(* The first entry, of another kind, is gone. *)
LEMMA RealignedTail ==
  ASSUME NEW s, NEW t, NEW op, DOMAIN s \in SUBSET Nat,
         \A i \in DOMAIN t : i + 1 \in DOMAIN s /\ i \in Nat \ {0} /\ t[i] = s[i + 1],
         \A i \in DOMAIN s : i # 1 => i - 1 \in DOMAIN t /\ t[i - 1] = s[i],
         1 \in DOMAIN s, s[1].op # op
  PROVE  Realigned(s, t, op)
  <1> DEFINE f == [i \in Of(s, op) |-> i - 1]
  <1>1. \A i \in Of(s, op) : i - 1 \in Of(t, op) /\ t[i - 1] = s[i] /\ i \in Nat
    BY DEF Of
  <1>2. \A i \in Of(t, op) : i + 1 \in Of(s, op) /\ (i + 1) - 1 = i
    BY DEF Of
  <1>3. f \in [Of(s, op) -> Of(t, op)]
    BY <1>1
  <1>4. \A i, j \in Of(s, op) : i < j => f[i] < f[j]
    BY <1>1
  <1>5. \A i \in Of(s, op) : t[f[i]].who = s[i].who
    BY <1>1
  <1>6. \A i \in Of(t, op) : \E j \in Of(s, op) : f[j] = i
    BY <1>2
  <1> QED
    BY <1>3, <1>4, <1>5, <1>6 DEF Realigned

(* A step that keeps the order of the SUBACKs and of the SUBSCRIBEs, and   *)
(* in which nobody begins to wait, keeps the FIFO in order.                *)
LEMMA FifoStays ==
  ASSUME Types, Fifo,
         Realigned(incoming, incoming', "suback"), Realigned(channel, channel', "sub"),
         pending_subacks' = pending_subacks, loop'.todo = <<>>,
         Cut => Cut',
         \A c \in Filters : pc'[c] = "subscribe" => pc[c] = "subscribe",
         \A c \in Filters : pc'[c] \in {"suback", "unsubscribe"} /\ Waits(c) =>
                               pc[c] \in {"suback", "unsubscribe"}
  PROVE  Fifo'
  <1>1. PICK f \in [Of(incoming, "suback") -> Of(incoming', "suback")] :
           /\ \A i, j \in Of(incoming, "suback") : i < j => f[i] < f[j]
           /\ \A i \in Of(incoming, "suback") : incoming'[f[i]].who = incoming[i].who
           /\ \A i \in Of(incoming', "suback") : \E j \in Of(incoming, "suback") : f[j] = i
    BY DEF Realigned
  <1>2. PICK g \in [Of(channel, "sub") -> Of(channel', "sub")] :
           /\ \A i, j \in Of(channel, "sub") : i < j => g[i] < g[j]
           /\ \A i \in Of(channel, "sub") : channel'[g[i]].who = channel[i].who
           /\ \A i \in Of(channel', "sub") : \E j \in Of(channel, "sub") : g[j] = i
    BY DEF Realigned
  <1>3. \A c : AckOf(c)' <=> AckOf(c)
    BY <1>1 DEF AckOf, Of
  <1>4. \A c : Sent("sub", c)' <=> Sent("sub", c)
    BY <1>2 DEF Sent, Of
  <1>5. \A c : Waits(c)' <=> Waits(c)
    BY DEF Waits
  <1>6. AcksInOrder'
    <2> SUFFICES ASSUME NEW i \in DOMAIN incoming', incoming'[i].op = "suback"
                 PROVE  \E k \in DOMAIN pending_subacks :
                            /\ incoming'[i].who = pending_subacks[k]
                            /\ \A l \in DOMAIN pending_subacks : l < k =>
                                  \E j \in DOMAIN incoming' :
                                      /\ j < i /\ incoming'[j].op = "suback"
                                      /\ incoming'[j].who = pending_subacks[l]
      BY DEF AcksInOrder
    <2>1. PICK a \in Of(incoming, "suback") : f[a] = i
      BY <1>1 DEF Of
    <2>2. PICK k \in DOMAIN pending_subacks :
              /\ incoming[a].who = pending_subacks[k]
              /\ \A l \in DOMAIN pending_subacks : l < k =>
                    \E j \in Of(incoming, "suback") : j < a /\ incoming[j].who = pending_subacks[l]
      BY <2>1 DEF Fifo, AcksInOrder, Of
    <2>3. ASSUME NEW l \in DOMAIN pending_subacks, l < k
          PROVE  \E j \in DOMAIN incoming' : /\ j < i /\ incoming'[j].op = "suback"
                                             /\ incoming'[j].who = pending_subacks[l]
      <3>1. PICK j \in Of(incoming, "suback") : j < a /\ incoming[j].who = pending_subacks[l]
        BY <2>2, <2>3
      <3>2. f[j] \in Of(incoming', "suback") /\ f[j] < i /\ incoming'[f[j]].who = pending_subacks[l]
        BY <1>1, <2>1, <3>1
      <3> QED
        BY <3>2 DEF Of
    <2> QED
      BY <1>1, <2>1, <2>2, <2>3
  <1>7. AsksInOrder'
    <2> SUFFICES ASSUME NEW i \in DOMAIN channel', channel'[i].op = "sub"
                 PROVE  \E k \in DOMAIN pending_subacks :
                            /\ channel'[i].who = pending_subacks[k]
                            /\ Cut' \/ \A l \in DOMAIN pending_subacks : l < k =>
                                  \/ \E j \in DOMAIN incoming' :
                                        /\ incoming'[j].op = "suback"
                                        /\ incoming'[j].who = pending_subacks[l]
                                  \/ \E j \in DOMAIN channel' :
                                        /\ j < i /\ channel'[j].op = "sub"
                                        /\ channel'[j].who = pending_subacks[l]
      BY DEF AsksInOrder, AckOf
    <2>0. \A c : AckOf(c) => \E j \in DOMAIN incoming' : /\ incoming'[j].op = "suback"
                                                         /\ incoming'[j].who = c
      BY <1>3 DEF AckOf
    <2>1. PICK a \in Of(channel, "sub") : g[a] = i
      BY <1>2 DEF Of
    <2>2. PICK k \in DOMAIN pending_subacks :
              /\ channel[a].who = pending_subacks[k]
              /\ Cut \/ \A l \in DOMAIN pending_subacks : l < k =>
                    \/ AckOf(pending_subacks[l])
                    \/ \E j \in Of(channel, "sub") : j < a /\ channel[j].who = pending_subacks[l]
      BY <2>1 DEF Fifo, AsksInOrder, Of
    <2>3. ASSUME ~Cut, NEW l \in DOMAIN pending_subacks, l < k, ~AckOf(pending_subacks[l])
          PROVE  \E j \in DOMAIN channel' : /\ j < i /\ channel'[j].op = "sub"
                                             /\ channel'[j].who = pending_subacks[l]
      <3>1. PICK j \in Of(channel, "sub") : j < a /\ channel[j].who = pending_subacks[l]
        BY <2>2, <2>3
      <3>2. g[j] \in Of(channel', "sub") /\ g[j] < i /\ channel'[g[j]].who = pending_subacks[l]
        BY <1>2, <2>1, <3>1
      <3> QED
        BY <3>2 DEF Of
    <2> QED
      BY <1>2, <2>0, <2>1, <2>2, <2>3
  <1>8. Once'
    <2>1. \A i, j \in DOMAIN incoming' :
             /\ incoming'[i].op = "suback" /\ incoming'[j].op = "suback"
             /\ incoming'[i].who = incoming'[j].who
             => i = j
      BY <1>1 DEF Fifo, Once, Of
    <2>2. \A i, j \in DOMAIN channel' :
             /\ channel'[i].op = "sub" /\ channel'[j].op = "sub"
             /\ channel'[i].who = channel'[j].who
             => i = j
      BY <1>2 DEF Fifo, Once, Of
    <2> QED
      BY <1>3, <1>4, <2>1, <2>2 DEF Fifo, Once
  <1>9. Unsent'
    BY <1>3, <1>4, <1>5 DEF Fifo, Unsent
  <1> QED
    BY <1>6, <1>7, <1>8, <1>9 DEF Fifo

LEMMA SendRealigns ==
  ASSUME Types, NEW op \in {"unsub", "pub"}, NEW c \in Callers, Send(op, c)
  PROVE  Realigned(channel, channel', "sub")
  <1>1. channel \in Seq(Request)
    BY DEF Types
  <1>2. /\ DOMAIN channel = 1..Len(channel) /\ Len(channel) \in Nat
        /\ DOMAIN channel' = 1..Len(channel) + 1
        /\ \A i \in DOMAIN channel : channel'[i] = channel[i]
        /\ channel'[Len(channel) + 1] = Ask(op, c)
    <2>1. op \in {"sub", "unsub", "pub"}
      OBVIOUS
    <2> QED
      BY <1>1, <2>1, ChannelIs, Sends
  <1>3. channel'[Len(channel) + 1].op # "sub"
    BY <1>2 DEF Ask
  <1>4. /\ \A i \in DOMAIN channel : i \in DOMAIN channel' /\ channel'[i] = channel[i]
        /\ \A i \in DOMAIN channel' : i \in DOMAIN channel \/ channel'[i].op # "sub"
    BY <1>2, <1>3
  <1> QED
    BY <1>4, RealignedMore

LEMMA SameRealigns ==
  ASSUME UNCHANGED <<channel>>
  PROVE  Realigned(channel, channel', "sub")
  <1>1. channel' = channel
    OBVIOUS
  <1> QED
    BY <1>1, RealignedSame

LEMMA CallerFifo ==
  ASSUME Types, Waiters, Fifo, NEW c \in Callers, ~shifted',
         Moves(c) \/ Unsubscribe(c) \/ DropGuards(c) \/ Submit(c) \/ Release(c)
  PROVE  Fifo'
  <1>0. pc \in [Callers -> Places] /\ pending_subacks \in Seq(Filters)
        /\ Filters \in SUBSET Callers
        /\ \A q \in Filters : Waits(q) => pc[q] \in {"subscribe", "suback", "unsubscribe", "guards"}
        /\ loop.todo = <<>>
    BY CallersAre DEF Types, Waiters, Waits, Fifo
  <1>1. /\ UNCHANGED <<incoming, broken, loop>> /\ pending_subacks' = pending_subacks
        /\ Realigned(channel, channel', "sub")
        /\ \A q \in Filters : pc'[q] = "subscribe" => pc[q] = "subscribe"
        /\ \A q \in Filters : pc'[q] \in {"suback", "unsubscribe"} /\ Waits(q) =>
                                 pc[q] \in {"suback", "unsubscribe"}
    <2>1. CASE Moves(c)
      <3>1. /\ \E to : Goes(c, to)
            /\ UNCHANGED <<pending_subacks, incoming, broken, loop, channel>>
        BY <2>1, MovesAre DEF subs, client, wire
      <3>2. PICK to : Goes(c, to)
        BY <3>1
      <3>3. /\ \A q \in Callers : pc'[q] = IF q = c THEN to ELSE pc[q]
            /\ to # "subscribe" /\ to # "suback"
            /\ to = "unsubscribe" => pc[c] = "suback"
        BY <1>0, <3>2 DEF Goes, Leads
      <3>4. Realigned(channel, channel', "sub")
        BY <3>1, SameRealigns
      <3> QED
        BY <1>0, <3>1, <3>3, <3>4
    <2>2. CASE Unsubscribe(c)
      <3>1. /\ Send("unsub", c) /\ UNCHANGED <<pending_subacks, incoming, broken, loop>>
            /\ \A q \in Callers : pc'[q] = IF q = c THEN IF c \in registry THEN "guards" ELSE "done"
                                           ELSE pc[q]
        BY <1>0, <2>2 DEF Unsubscribe, Goto, subs, wire
      <3>2. Realigned(channel, channel', "sub")
        BY <3>1, SendRealigns
      <3> QED
        BY <1>0, <3>1, <3>2
    <2>3. CASE DropGuards(c)
      <3>1. /\ UNCHANGED <<incoming, broken, loop, channel>>
            /\ pending_subacks' = RemoveFirst(pending_subacks, c)
            /\ shifted' = (shifted \/ Contains(pending_subacks, c))
            /\ \A q \in Callers : pc'[q] = IF q = c THEN "done" ELSE pc[q]
        BY <1>0, <2>3 DEF DropGuards, Goto, client, wire
      <3>2. ~Contains(pending_subacks, c)
        BY <3>1
      <3>3. pending_subacks' = pending_subacks
        BY <1>0, <3>1, <3>2, NothingOut
      <3>4. Realigned(channel, channel', "sub")
        BY <3>1, SameRealigns
      <3> QED
        BY <1>0, <3>1, <3>3, <3>4
    <2>4. CASE Submit(c) \/ Release(c)
      <3>1. /\ UNCHANGED <<pending_subacks, incoming, broken, loop, channel>>
            /\ \E to \in {"submitted", "unsubscribe"} :
                  /\ to = "unsubscribe" => pc[c] = "release"
                  /\ \A q \in Callers : pc'[q] = IF q = c THEN to ELSE pc[q]
        BY <1>0, <2>4 DEF Submit, Release, AfterRelease, Goto, subs, client, wire
      <3>2. Realigned(channel, channel', "sub")
        BY <3>1, SameRealigns
      <3> QED
        BY <1>0, <3>1, <3>2
    <2> QED
      BY <2>1, <2>2, <2>3, <2>4
  <1>2. Realigned(incoming, incoming', "suback")
    BY <1>1, RealignedSame
  <1>3. Cut => Cut'
    BY <1>1 DEF Cut
  <1>4. loop'.todo = <<>>
    <2>1. loop' = loop
      BY <1>1
    <2>2. loop.todo = <<>>
      BY DEF Fifo
    <2> QED
      BY <2>1, <2>2
  <1> QED
    BY <1>1, <1>2, <1>3, <1>4, FifoStays

LEMMA RegisterFifo ==
  ASSUME Types, Waiters, Fifo, NEW c \in Callers, SubscribeRegister(c)
  PROVE  Fifo'
  <1> DEFINE N == Len(pending_subacks)
  <1>1. /\ pending_subacks \in Seq(Filters) /\ N \in Nat /\ DOMAIN pending_subacks = 1..N
        /\ pc \in [Callers -> Places] /\ Filters \in SUBSET Callers
        /\ c \in Filters /\ pc[c] = "idle"
        /\ pending_subacks' = Append(pending_subacks, c)
        /\ UNCHANGED <<loop, incoming, broken, channel>>
        /\ \A q \in Callers : pc'[q] = IF q = c THEN "subscribe" ELSE pc[q]
    BY CallersAre DEF Types, SubscribeRegister, Goto, Filters, client, wire
  <1>2. /\ DOMAIN pending_subacks' = 1..N + 1
        /\ \A k \in 1..N : pending_subacks'[k] = pending_subacks[k]
        /\ pending_subacks'[N + 1] = c
    BY <1>1
  <1>3. /\ \A k \in DOMAIN pending_subacks :
              k \in DOMAIN pending_subacks' /\ pending_subacks'[k] = pending_subacks[k]
        /\ \A k \in DOMAIN pending_subacks : \A l \in DOMAIN pending_subacks' :
              l < k => l \in DOMAIN pending_subacks
        /\ N + 1 \in DOMAIN pending_subacks'
        /\ \A k \in DOMAIN pending_subacks' : k \in DOMAIN pending_subacks \/ k = N + 1
    BY <1>1, <1>2
  <1> HIDE DEF N
  <1>4. channel' = channel
    BY <1>1
  <1>5. /\ \A q : AckOf(q)' <=> AckOf(q)
        /\ \A q : Sent("sub", q)' <=> Sent("sub", q)
        /\ \A q : Waits(q)' <=> Waits(q) \/ q = c
        /\ Cut' <=> Cut
    BY <1>1, <1>2, <1>3, <1>4 DEF AckOf, Sent, Waits, Cut
  <1>6. AcksInOrder'
    BY <1>1, <1>3 DEF Fifo, AcksInOrder
  <1>7. AsksInOrder'
    <2> SUFFICES ASSUME NEW i \in DOMAIN channel, channel[i].op = "sub"
                 PROVE  \E k \in DOMAIN pending_subacks' :
                            /\ channel[i].who = pending_subacks'[k]
                            /\ Cut \/ \A l \in DOMAIN pending_subacks' : l < k =>
                                  \/ \E j \in DOMAIN incoming :
                                        /\ incoming[j].op = "suback"
                                        /\ incoming[j].who = pending_subacks'[l]
                                  \/ \E j \in DOMAIN channel :
                                        /\ j < i /\ channel[j].op = "sub"
                                        /\ channel[j].who = pending_subacks'[l]
      BY <1>1, <1>4, <1>5 DEF AsksInOrder, AckOf
    <2>1. PICK k \in DOMAIN pending_subacks :
              /\ channel[i].who = pending_subacks[k]
              /\ Cut \/ \A l \in DOMAIN pending_subacks : l < k =>
                    \/ \E j \in DOMAIN incoming : /\ incoming[j].op = "suback"
                                                  /\ incoming[j].who = pending_subacks[l]
                    \/ \E j \in DOMAIN channel :
                          /\ j < i /\ channel[j].op = "sub"
                          /\ channel[j].who = pending_subacks[l]
      BY DEF Fifo, AsksInOrder, AckOf
    <2> QED
      BY <1>3, <2>1
  <1>8. Once'
    BY <1>1, <1>4, <1>5 DEF Fifo, Once
  <1>9. ~AckOf(c) /\ ~Sent("sub", c)
    <2>1. ~Waits(c)
      BY <1>1 DEF Waiters, Waits
    <2>2. AckOf(c) => Waits(c)
      BY DEF Fifo, AcksInOrder, AckOf, Waits
    <2>3. Sent("sub", c) => Waits(c)
      BY DEF Fifo, AsksInOrder, Sent, Waits
    <2> QED
      BY <2>1, <2>2, <2>3
  <1>10. Unsent'
    BY <1>1, <1>5, <1>9 DEF Fifo, Unsent
  <1> QED
    BY <1>1, <1>6, <1>7, <1>8, <1>10 DEF Fifo

LEMMA SendFifo ==
  ASSUME Types, Waiters, Fifo, NEW c \in Callers, SubscribeSend(c), ~shifted'
  PROVE  Fifo'
  <1> DEFINE n == Len(channel)
  <1>1. /\ pc \in [Callers -> Places] /\ Filters \in SUBSET Callers
        /\ pc[c] = "subscribe" /\ Send("sub", c) /\ ~Overtakes(c)
        /\ \A q \in Callers : pc'[q] = IF q = c THEN "suback" ELSE pc[q]
        /\ UNCHANGED <<loop, incoming, broken, pending_subacks>>
        /\ pending_subacks \in Seq(Filters)
        /\ channel \in Seq(Request)
    BY CallersAre DEF Types, SubscribeSend, Goto, subs, wire
  <1>2. /\ DOMAIN channel = 1..n /\ n \in Nat
        /\ DOMAIN channel' = 1..n + 1
        /\ \A i \in DOMAIN channel : channel'[i] = channel[i]
        /\ channel'[n + 1].op = "sub" /\ channel'[n + 1].who = c
    <2>1. "sub" \in {"sub", "unsub", "pub"}
      OBVIOUS
    <2>2. DOMAIN channel = 1..Len(channel) /\ Len(channel) \in Nat
      BY <1>1, ChannelIs
    <2>3. /\ DOMAIN channel' = 1..Len(channel) + 1
          /\ \A i \in DOMAIN channel : channel'[i] = channel[i]
          /\ channel'[Len(channel) + 1] = Ask("sub", c)
      BY <1>1, <2>1, Sends
    <2> QED
      BY <2>2, <2>3 DEF Ask
  <1>3. /\ \A i \in DOMAIN channel : i \in DOMAIN channel' /\ i < n + 1
        /\ n + 1 \in DOMAIN channel'
        /\ \A i \in DOMAIN channel' : i \in DOMAIN channel \/ i = n + 1
    BY <1>2
  <1> HIDE DEF n
  <1>4. c \in Filters
    <2>1. \A q \in Confirmers : pc[q] # "subscribe"
      BY DEF Types
    <2> QED
      BY <1>1, <2>1, CallersAre
  <1>5. ~AckOf(c) /\ ~Sent("sub", c) /\ Waits(c)
    BY <1>1, <1>4 DEF Fifo, Unsent
  <1>6. /\ \A q : AckOf(q)' <=> AckOf(q)
        /\ \A q : Sent("sub", q)' <=> Sent("sub", q) \/ q = c
        /\ \A q : Waits(q)' <=> Waits(q)
        /\ Cut' <=> Cut
    BY <1>1, <1>2, <1>3 DEF AckOf, Sent, Waits, Cut
  <1>7. AcksInOrder'
    BY <1>1 DEF Fifo, AcksInOrder
  <1>8. AsksInOrder'
    <2> SUFFICES ASSUME NEW i \in DOMAIN channel', channel'[i].op = "sub"
                 PROVE  \E k \in DOMAIN pending_subacks :
                            /\ channel'[i].who = pending_subacks[k]
                            /\ Cut \/ \A l \in DOMAIN pending_subacks : l < k =>
                                  \/ \E j \in DOMAIN incoming :
                                        /\ incoming[j].op = "suback"
                                        /\ incoming[j].who = pending_subacks[l]
                                  \/ \E j \in DOMAIN channel' :
                                        /\ j < i /\ channel'[j].op = "sub"
                                        /\ channel'[j].who = pending_subacks[l]
      BY <1>1, <1>6 DEF AsksInOrder, AckOf
    <2>1. CASE i \in DOMAIN channel
      <3>1. PICK k \in DOMAIN pending_subacks :
              /\ channel[i].who = pending_subacks[k]
              /\ Cut \/ \A l \in DOMAIN pending_subacks : l < k =>
                    \/ \E j \in DOMAIN incoming : /\ incoming[j].op = "suback"
                                                  /\ incoming[j].who = pending_subacks[l]
                    \/ \E j \in DOMAIN channel :
                          /\ j < i /\ channel[j].op = "sub"
                          /\ channel[j].who = pending_subacks[l]
        BY <1>2, <2>1 DEF Fifo, AsksInOrder, AckOf
      <3> QED
        BY <1>2, <1>3, <2>1, <3>1
    <2>2. CASE i = n + 1
      <3>1. PICK k \in DOMAIN pending_subacks : pending_subacks[k] = c
        BY <1>5 DEF Waits
      <3>2. ASSUME ~Cut, NEW l \in DOMAIN pending_subacks, l < k
            PROVE  \/ \E j \in DOMAIN incoming : /\ incoming[j].op = "suback"
                                                 /\ incoming[j].who = pending_subacks[l]
                   \/ \E j \in DOMAIN channel' :
                         /\ j < i /\ channel'[j].op = "sub"
                         /\ channel'[j].who = pending_subacks[l]
        <4>1. pc[pending_subacks[l]] \in {"suback", "unsubscribe"}
          BY <1>1, <3>1, <3>2 DEF Overtakes, Waiters
        <4>2. pending_subacks[l] \in Filters /\ Waits(pending_subacks[l])
          BY <1>1 DEF Waits
        <4>3. AckOf(pending_subacks[l]) \/ Sent("sub", pending_subacks[l])
          BY <3>2, <4>1, <4>2 DEF Fifo, Unsent
        <4>4. CASE AckOf(pending_subacks[l])
          BY <4>4 DEF AckOf
        <4>5. CASE Sent("sub", pending_subacks[l])
          BY <1>2, <1>3, <2>2, <4>5 DEF Sent
        <4> QED
          BY <4>3, <4>4, <4>5
      <3> QED
        BY <1>2, <2>2, <3>1, <3>2
    <2> QED
      BY <1>3, <2>1, <2>2
  <1>9. Once'
    <2>1. \A i, j \in DOMAIN channel' :
             /\ channel'[i].op = "sub" /\ channel'[j].op = "sub"
             /\ channel'[i].who = channel'[j].who
             => i = j
      <3>1. \A i \in DOMAIN channel : channel[i].op = "sub" => channel[i].who # c
        BY <1>5 DEF Sent
      <3> QED
        BY <1>2, <1>3, <3>1 DEF Fifo, Once
    <2> QED
      BY <1>1, <1>5, <1>6, <2>1 DEF Fifo, Once
  <1>10. Unsent'
    BY <1>1, <1>6 DEF Fifo, Unsent
  <1> QED
    BY <1>1, <1>7, <1>8, <1>9, <1>10 DEF Fifo

(* A step that does not concern the waiters. *)
LEMMA AsideFifo ==
  ASSUME Types, Fifo, UNCHANGED <<pc, pending_subacks, loop>>, broken => broken',
         Realigned(incoming, incoming', "suback"), Realigned(channel, channel', "sub")
  PROVE  Fifo'
  <1>1. loop'.todo = <<>>
    <2>1. loop' = loop
      OBVIOUS
    <2>2. loop.todo = <<>>
      BY DEF Fifo
    <2> QED
      BY <2>1, <2>2
  <1>2. Cut => Cut'
    BY DEF Cut
  <1> QED
    BY <1>1, <1>2, FifoStays

LEMMA FunnelFifo ==
  ASSUME Types, Fifo, Funnel
  PROVE  Fifo'
  <1>1. /\ UNCHANGED <<pc, pending_subacks, loop>> /\ UNCHANGED <<incoming, broken>>
        /\ UNCHANGED <<channel>> \/ (funnel.pc = "send" /\ Send("pub", funnel.who))
    BY DEF Funnel, FunnelTake, FunnelRegister, FunnelSend, subs, client, wire
  <1>2. Realigned(incoming, incoming', "suback")
    BY <1>1, RealignedSame
  <1>3. Realigned(channel, channel', "sub")
    <2>1. CASE UNCHANGED <<channel>>
      BY <2>1, SameRealigns
    <2>2. CASE funnel.pc = "send" /\ Send("pub", funnel.who)
      <3>1. funnel.who \in Callers
        BY <2>2, CallersAre DEF Types
      <3> QED
        BY <2>2, <3>1, SendRealigns
    <2> QED
      BY <1>1, <2>1, <2>2
  <1> QED
    BY <1>1, <1>2, <1>3, AsideFifo

LEMMA ReadIs ==
  ASSUME Types, NEW op, Reads(op)
  PROVE  /\ incoming # <<>> /\ Len(incoming) \in Nat \ {0} /\ DOMAIN incoming = 1..Len(incoming)
         /\ 1 \in DOMAIN incoming /\ Head(incoming) = incoming[1] /\ incoming[1].op = op
         /\ incoming[1] \in Packet
         /\ DOMAIN incoming' = 1..Len(incoming) - 1
         /\ \A i \in 1..Len(incoming) - 1 : incoming'[i] = incoming[i + 1]
  <1>1. incoming \in Seq(Packet) /\ incoming # <<>> /\ Head(incoming).op = op
        /\ incoming' = Tail(incoming)
    BY DEF Reads, Types
  <1>2. /\ Len(incoming) \in Nat \ {0} /\ 1 \in DOMAIN incoming /\ Head(incoming) = incoming[1]
        /\ incoming[1] \in Packet /\ Tail(incoming) \in Seq(Packet)
        /\ Len(Tail(incoming)) = Len(incoming) - 1
        /\ \A i \in 1..Len(incoming) - 1 : Tail(incoming)[i] = incoming[i + 1]
    BY <1>1, TailIs
  <1> QED
    BY <1>1, <1>2

LEMMA ReadFifo ==
  ASSUME Types, Fifo, LoopPuback \/ LoopReply
  PROVE  Fifo'
  <1>1. /\ UNCHANGED <<pc, pending_subacks, loop>> /\ UNCHANGED <<broken, channel>>
        /\ \E op \in {"puback", "publish"} : Reads(op)
    BY DEF LoopPuback, LoopReply, Reads
  <1>2. PICK op \in {"puback", "publish"} : Reads(op)
    BY <1>1
  <1>3. Realigned(incoming, incoming', "suback")
    <2>1. /\ DOMAIN incoming = 1..Len(incoming) /\ Len(incoming) \in Nat \ {0}
          /\ incoming[1].op # "suback"
          /\ DOMAIN incoming' = 1..Len(incoming) - 1
          /\ \A i \in 1..Len(incoming) - 1 : incoming'[i] = incoming[i + 1]
      BY <1>2, ReadIs
    <2>2. /\ DOMAIN incoming \in SUBSET Nat /\ 1 \in DOMAIN incoming
          /\ \A i \in DOMAIN incoming' : /\ i + 1 \in DOMAIN incoming /\ i \in Nat \ {0}
                                         /\ incoming'[i] = incoming[i + 1]
          /\ \A i \in DOMAIN incoming : i # 1 => /\ i - 1 \in DOMAIN incoming'
                                                 /\ incoming'[i - 1] = incoming[i]
      BY <2>1
    <2> QED
      BY <2>1, <2>2, RealignedTail
  <1>4. Realigned(channel, channel', "sub")
    BY <1>1, SameRealigns
  <1> QED
    BY <1>1, <1>3, <1>4, AsideFifo

LEMMA ReceivedRealigns ==
  ASSUME Types, NEW x \in Packet, x.op # "suback", incoming' = Append(incoming, x)
  PROVE  Realigned(incoming, incoming', "suback")
  <1>1. /\ DOMAIN incoming = 1..Len(incoming) /\ Len(incoming) \in Nat
        /\ DOMAIN Append(incoming, x) = 1..Len(incoming) + 1
        /\ \A i \in 1..Len(incoming) : Append(incoming, x)[i] = incoming[i]
        /\ Append(incoming, x)[Len(incoming) + 1] = x
    <2>1. incoming \in Seq(Packet)
      BY DEF Types
    <2> QED
      BY <2>1
  <1>2. /\ DOMAIN incoming' = 1..Len(incoming) + 1
        /\ \A i \in 1..Len(incoming) : incoming'[i] = incoming[i]
        /\ incoming'[Len(incoming) + 1] = x
    BY <1>1
  <1>3. /\ \A i \in DOMAIN incoming : i \in DOMAIN incoming' /\ incoming'[i] = incoming[i]
        /\ \A i \in DOMAIN incoming' : i \in DOMAIN incoming \/ incoming'[i].op # "suback"
    BY <1>1, <1>2
  <1> QED
    BY <1>3, RealignedMore

LEMMA RespondFifo ==
  ASSUME Types, Fifo, NEW c \in Requesters, Respond(c)
  PROVE  Fifo'
  <1>1. /\ UNCHANGED <<pc, pending_subacks, loop>> /\ UNCHANGED <<broken, channel>>
        /\ incoming' = Append(incoming, Reply(c))
    BY DEF Respond, subs, client
  <1>2. Reply(c) \in Packet /\ Reply(c).op # "suback"
    BY DEF Reply, Packet
  <1>3. Realigned(incoming, incoming', "suback")
    BY <1>1, <1>2, ReceivedRealigns
  <1>4. Realigned(channel, channel', "sub")
    BY <1>1, SameRealigns
  <1> QED
    BY <1>1, <1>3, <1>4, AsideFifo

LEMMA PopRealigns ==
  ASSUME Types, NEW op, Writes(op), op # "sub"
  PROVE  Realigned(channel, channel', "sub")
  <1>1. channel \in Seq(Request)
    BY DEF Types
  <1>2. DOMAIN channel \in SUBSET Nat
    BY <1>1, ChannelIs
  <1>3. /\ 1 \in DOMAIN channel
        /\ \A i \in DOMAIN channel' : /\ i + 1 \in DOMAIN channel /\ i \in Nat \ {0}
                                       /\ channel'[i] = channel[i + 1]
        /\ \A i \in DOMAIN channel : i # 1 => /\ i - 1 \in DOMAIN channel'
                                               /\ channel'[i - 1] = channel[i]
    BY PopIs
  <1>4. channel[1].op # "sub"
    BY <1>1, Wrote
  <1> QED
    BY <1>2, <1>3, <1>4, RealignedTail

LEMMA ReachedIs ==
  ASSUME Types, NEW packets, NEW subscribed, NEW took, Reaches(packets, subscribed, took),
         packets = <<>> \/ \E x \in Packet : packets = <<x>>
  PROVE  /\ broken' = broken
         /\ \/ incoming' = incoming
            \/ \E x \in Packet : packets = <<x>> /\ incoming' = Append(incoming, x)
  <1>1. incoming \in Seq(Packet)
    BY DEF Types
  <1>2. CASE broken
    BY <1>2 DEF Reaches
  <1>3. CASE ~broken
    <2>1. incoming' = incoming \o packets /\ broken' = broken
      BY <1>3 DEF Reaches
    <2>2. CASE packets = <<>>
      <3>1. incoming \o <<>> = incoming
        BY <1>1
      <3> QED
        BY <2>1, <2>2, <3>1
    <2>3. ASSUME NEW x \in Packet, packets = <<x>>
          PROVE  incoming' = Append(incoming, x)
      <3>1. incoming \o <<x>> = Append(incoming, x)
        BY <1>1
      <3> QED
        BY <2>1, <2>3, <3>1
    <2> QED
      BY <2>1, <2>2, <2>3
  <1> QED
    BY <1>2, <1>3

LEMMA WriteFifo ==
  ASSUME Types, Shapes, Fifo, LoopUnsubscribe \/ LoopPublish
  PROVE  Fifo'
  <1>1. /\ \E op \in {"unsub", "pub"} : Writes(op)
        /\ broken' = broken
        /\ incoming' = incoming \/ \E x \in Packet : x.op # "suback" /\ incoming' = Append(incoming, x)
    <2>1. CASE LoopUnsubscribe
      <3>1. Writes("unsub") /\ Reaches(<<>>, bsubs \ {Head(channel).who}, {})
        BY <2>1 DEF LoopUnsubscribe
      <3>2. PICK packets : packets = <<>> /\ Reaches(packets, bsubs \ {Head(channel).who}, {})
        BY <3>1
      <3>3. broken' = broken /\ incoming' = incoming
        <4>1. incoming \in Seq(Packet)
          BY DEF Types
        <4>2. incoming \o <<>> = incoming
          BY <4>1
        <4>3. broken' = broken /\ incoming' \in {incoming, incoming \o <<>>}
          BY <3>1 DEF Reaches
        <4> QED
          BY <4>2, <4>3
      <3> QED
        BY <3>1, <3>3
    <2>2. CASE LoopPublish
      <3>1. PICK c, pkid : Publishing(c, pkid)
        BY <2>2, PublishIs
      <3>2. /\ Writes("pub") /\ pkid \in Nat /\ c \in Publishers
            /\ Reaches(IF pkid = 0 THEN <<>> ELSE <<Puback(pkid)>>, bsubs, {c})
        BY <3>1 DEF Publishing
      <3>3. PICK packets : /\ packets = IF pkid = 0 THEN <<>> ELSE <<Puback(pkid)>>
                           /\ Reaches(packets, bsubs, {c})
        BY <3>2
      <3>4. \A x : <<x>> = packets => x.op # "suback"
        BY <3>3 DEF Puback
      <3>5. packets = <<>> \/ \E x \in Packet : packets = <<x>>
        <4>1. pkid # 0 => Puback(pkid) \in Packet
          BY <3>2 DEF Puback, Packet
        <4> QED
          BY <3>3, <4>1
      <3>6. /\ broken' = broken
            /\ incoming' = incoming
               \/ \E x \in Packet : packets = <<x>> /\ incoming' = Append(incoming, x)
        BY <3>2, <3>3, <3>5, ReachedIs
      <3> QED
        BY <3>2, <3>4, <3>6
    <2> QED
      BY <2>1, <2>2
  <1>2. PICK op \in {"unsub", "pub"} : Writes(op)
    BY <1>1
  <1>3. UNCHANGED <<pc, pending_subacks, loop>>
    BY <1>2 DEF Writes, subs
  <1>4. Realigned(channel, channel', "sub")
    BY <1>2, PopRealigns
  <1>5. Realigned(incoming, incoming', "suback")
    BY <1>1, RealignedSame, ReceivedRealigns
  <1> QED
    BY <1>1, <1>3, <1>4, <1>5, AsideFifo

(* The connection is lost: nothing is on its way in either direction. *)
LEMMA ErrorFifo ==
  ASSUME Types, Fifo, LoopError
  PROVE  Fifo'
  <1>1. /\ UNCHANGED <<pc, pending_subacks>> /\ loop'.todo = <<>> /\ loop'.pc = "down"
        /\ incoming' = <<>> /\ channel' = <<>>
    BY DEF LoopError, subs
  <1>2. /\ \A q : ~AckOf(q)'
        /\ \A q : ~Sent("sub", q)'
        /\ \A q : Waits(q)' <=> Waits(q)
        /\ Cut'
    BY <1>1 DEF AckOf, Sent, Waits, Cut
  <1>3. AcksInOrder' /\ AsksInOrder'
    BY <1>1 DEF AcksInOrder, AsksInOrder
  <1>4. Once'
    BY <1>1, <1>2 DEF Once
  <1>5. Unsent'
    BY <1>1, <1>2 DEF Fifo, Unsent
  <1> QED
    BY <1>1, <1>3, <1>4, <1>5 DEF Fifo

(* A connection that comes back with nothing to subscribe again, which is  *)
(* when nobody waits.                                                      *)
LEMMA ConnectFifo ==
  ASSUME Types, Waiters, Fifo, LoopConnect, ~shifted'
  PROVE  Fifo'
  <1>1. CASE LoopConnack
    <2>1. /\ UNCHANGED <<pc, pending_subacks, incoming, channel>>
          /\ registry = {}
          /\ \E todo \in SetToSeqs(registry) : loop' = [pc |-> "resubscribe", todo |-> todo]
      BY <1>1 DEF LoopConnack, ToResubscribe, subs, client, wire
    <2>2. loop'.todo = <<>>
      <3>1. PICK todo \in SetToSeqs(registry) : loop' = [pc |-> "resubscribe", todo |-> todo]
        BY <2>1
      <3>2. todo \in Seq(registry)
        BY <3>1, LaidOut DEF Types
      <3>3. todo = <<>>
        BY <2>1, <3>2
      <3> QED
        BY <3>1, <3>3
    <2>3. DOMAIN pending_subacks = {}
      BY <2>1 DEF Waiters
    <2>4. channel' = channel
      BY <2>1
    <2>5. AcksInOrder'
      BY <2>1, <2>3 DEF Fifo, AcksInOrder
    <2>6. AsksInOrder'
      BY <2>1, <2>3, <2>4 DEF Fifo, AsksInOrder
    <2>7. Once'
      BY <2>1, <2>4 DEF Fifo, Once, AckOf, Sent
    <2>8. Unsent'
      BY <2>1, <2>3, <2>4 DEF Fifo, Unsent, AckOf, Sent, Waits
    <2> QED
      BY <2>2, <2>5, <2>6, <2>7, <2>8 DEF Fifo
  <1>2. CASE LoopResubscribe
    BY <1>2 DEF LoopResubscribe, Fifo
  <1>3. CASE LoopReady
    <2>1. /\ UNCHANGED <<pc, pending_subacks>> /\ UNCHANGED <<incoming, broken, channel>>
          /\ loop' = Polling /\ loop.pc = "resubscribe"
      BY <1>3 DEF LoopReady, subs, client, wire
    <2>2. loop'.todo = <<>> /\ (Cut => Cut')
      BY <2>1 DEF Polling, Cut
    <2>3. Realigned(incoming, incoming', "suback") /\ Realigned(channel, channel', "sub")
      BY <2>1, RealignedSame, SameRealigns
    <2> QED
      BY <2>1, <2>2, <2>3, FifoStays
  <1> QED
    BY <1>1, <1>2, <1>3 DEF LoopConnect

(* The next SUBSCRIBE is for the first waiter that has no SUBACK on its    *)
(* way.                                                                    *)
LEMMA SubscribeFifo ==
  ASSUME Types, Fifo, LoopSubscribe
  PROVE  Fifo'
  <1> DEFINE c == channel[1].who
             n == Len(incoming)
  <1>1. /\ UNCHANGED <<pc, pending_subacks, loop, broken>> /\ loop.pc = "poll"
        /\ channel \in Seq(Request)
        /\ Writes("sub") /\ Head(channel) = channel[1]
        /\ channel[1].op = "sub" /\ 1 \in DOMAIN channel
    <2>1. Writes("sub") /\ broken' = broken
      BY DEF LoopSubscribe, Reaches
    <2>2. channel \in Seq(Request)
      BY DEF Types
    <2> QED
      BY <2>1, <2>2, Wrote DEF Writes, Polls, subs
  <1>2. /\ DOMAIN channel \in SUBSET (Nat \ {0})
        /\ \A i \in DOMAIN channel' : /\ i + 1 \in DOMAIN channel /\ i \in Nat \ {0}
                                       /\ channel'[i] = channel[i + 1]
        /\ \A i \in DOMAIN channel : i # 1 => /\ i - 1 \in DOMAIN channel'
                                               /\ channel'[i - 1] = channel[i]
    <2>1. DOMAIN channel = 1..Len(channel) /\ Len(channel) \in Nat
      BY <1>1, ChannelIs
    <2>2. DOMAIN channel \in SUBSET (Nat \ {0})
      BY <2>1
    <2> QED
      BY <1>1, <2>2, PopIs
  <1>3. IF broken THEN incoming' = incoming
        ELSE /\ DOMAIN incoming = 1..n /\ n \in Nat
             /\ DOMAIN incoming' = 1..n + 1
             /\ \A i \in DOMAIN incoming : incoming'[i] = incoming[i]
             /\ incoming'[n + 1].op = "suback" /\ incoming'[n + 1].who = c
    <2>1. incoming \in Seq(Packet)
      BY DEF Types
    <2>2. IF broken THEN incoming' = incoming ELSE incoming' = incoming \o <<Suback(c)>>
      BY <1>1 DEF LoopSubscribe, Reaches
    <2>3. /\ DOMAIN incoming = 1..n /\ n \in Nat
          /\ DOMAIN (incoming \o <<Suback(c)>>) = 1..n + 1
          /\ \A i \in DOMAIN incoming : (incoming \o <<Suback(c)>>)[i] = incoming[i]
          /\ (incoming \o <<Suback(c)>>)[n + 1] = Suback(c)
      <3>1. Suback(c) \in {Suback(c)} \union Packet /\ incoming \in Seq({Suback(c)} \union Packet)
        BY <2>1
      <3> QED
        BY <3>1
    <2> QED
      BY <2>2, <2>3 DEF Suback
  <1> HIDE DEF n, c
  <1>4. /\ Cut <=> broken
        /\ Cut' <=> broken
        /\ loop'.todo = <<>>
    <2>1. loop' = loop
      BY <1>1
    <2> QED
      BY <1>1, <2>1 DEF Fifo, Cut
  <1>5. \A q : Sent("sub", q)' <=> Sent("sub", q) /\ q # c
    <2>1. \A i \in DOMAIN channel : channel[i].op = "sub" /\ channel[i].who = c => i = 1
      BY <1>1 DEF Fifo, Once, c
    <2>2. ASSUME NEW q, Sent("sub", q)' PROVE Sent("sub", q) /\ q # c
      <3>1. PICK i \in DOMAIN channel' : channel'[i].op = "sub" /\ channel'[i].who = q
        BY <2>2 DEF Sent
      <3>2. i + 1 \in DOMAIN channel /\ channel'[i] = channel[i + 1] /\ i + 1 # 1
        BY <1>2
      <3> QED
        BY <2>1, <3>1, <3>2 DEF Sent
    <2>3. ASSUME NEW q, Sent("sub", q), q # c PROVE Sent("sub", q)'
      <3>1. PICK i \in DOMAIN channel : channel[i].op = "sub" /\ channel[i].who = q
        BY <2>3 DEF Sent
      <3>2. i # 1
        BY <2>3, <3>1 DEF c
      <3> QED
        BY <1>2, <3>1, <3>2 DEF Sent
    <2> QED
      BY <2>2, <2>3
  <1>6. Sent("sub", c)
    BY <1>1 DEF Sent, c
  <1>7. \A i, j \in DOMAIN channel' :
           /\ channel'[i].op = "sub" /\ channel'[j].op = "sub"
           /\ channel'[i].who = channel'[j].who
           => i = j
    <2> SUFFICES ASSUME NEW i \in DOMAIN channel', NEW j \in DOMAIN channel',
                        channel'[i].op = "sub", channel'[j].op = "sub",
                        channel'[i].who = channel'[j].who
                 PROVE  i = j
      OBVIOUS
    <2>1. /\ i + 1 \in DOMAIN channel /\ channel'[i] = channel[i + 1] /\ i \in Nat
          /\ j + 1 \in DOMAIN channel /\ channel'[j] = channel[j + 1] /\ j \in Nat
      BY <1>2
    <2>2. i + 1 = j + 1
      BY <2>1 DEF Fifo, Once
    <2> QED
      BY <2>1, <2>2
  <1>8. \A q : Waits(q)' <=> Waits(q)
    BY <1>1 DEF Waits
  <1>9. CASE broken
    <2>1. incoming' = incoming /\ \A q : AckOf(q)' <=> AckOf(q)
      BY <1>3, <1>9 DEF AckOf
    <2>2. AcksInOrder'
      BY <1>1, <2>1 DEF Fifo, AcksInOrder
    <2>3. AsksInOrder'
      BY <1>1, <1>2, <1>4, <1>9 DEF Fifo, AsksInOrder
    <2>4. Once'
      BY <1>5, <1>7, <2>1 DEF Fifo, Once
    <2>5. Unsent'
      BY <1>1, <1>4, <1>5, <1>6, <1>8, <1>9, <2>1 DEF Fifo, Unsent
    <2> QED
      BY <1>4, <2>2, <2>3, <2>4, <2>5 DEF Fifo
  <1>10. CASE ~broken
    <2>1. /\ DOMAIN incoming = 1..n /\ n \in Nat
          /\ DOMAIN incoming' = 1..n + 1
          /\ \A i \in DOMAIN incoming : incoming'[i] = incoming[i]
          /\ incoming'[n + 1].op = "suback" /\ incoming'[n + 1].who = c
      BY <1>3, <1>10
    <2>2. /\ \A i \in DOMAIN incoming : i \in DOMAIN incoming' /\ i < n + 1
          /\ n + 1 \in DOMAIN incoming'
          /\ \A i \in DOMAIN incoming' : i \in DOMAIN incoming \/ i = n + 1
      BY <2>1
    <2>3. \A q : AckOf(q)' <=> AckOf(q) \/ q = c
      BY <2>1, <2>2 DEF AckOf
    <2>4. PICK k \in DOMAIN pending_subacks :
              /\ c = pending_subacks[k]
              /\ \A l \in DOMAIN pending_subacks : l < k => AckOf(pending_subacks[l])
      <3>1. \A j \in DOMAIN channel : ~(j < 1)
        BY <1>2
      <3> QED
        BY <1>1, <1>4, <1>10, <3>1 DEF Fifo, AsksInOrder, c
    <2>5. AcksInOrder'
      <3> SUFFICES ASSUME NEW i \in DOMAIN incoming', incoming'[i].op = "suback"
                   PROVE  \E h \in DOMAIN pending_subacks :
                              /\ incoming'[i].who = pending_subacks[h]
                              /\ \A l \in DOMAIN pending_subacks : l < h =>
                                    \E j \in DOMAIN incoming' :
                                        /\ j < i /\ incoming'[j].op = "suback"
                                        /\ incoming'[j].who = pending_subacks[l]
        BY <1>1 DEF AcksInOrder
      <3>1. CASE i \in DOMAIN incoming
        <4>1. PICK h \in DOMAIN pending_subacks :
                  /\ incoming[i].who = pending_subacks[h]
                  /\ \A l \in DOMAIN pending_subacks : l < h =>
                        \E j \in DOMAIN incoming :
                            /\ j < i /\ incoming[j].op = "suback"
                            /\ incoming[j].who = pending_subacks[l]
          BY <2>1, <3>1 DEF Fifo, AcksInOrder
        <4> QED
          BY <2>1, <2>2, <3>1, <4>1
      <3>2. CASE i = n + 1
        <4>1. \A l \in DOMAIN pending_subacks : l < k =>
                  \E j \in DOMAIN incoming : /\ incoming[j].op = "suback"
                                             /\ incoming[j].who = pending_subacks[l]
          BY <2>4 DEF AckOf
        <4> QED
          BY <2>1, <2>2, <2>4, <3>2, <4>1
      <3> QED
        BY <2>2, <3>1, <3>2
    <2>6. AsksInOrder'
      <3>0. \A q : AckOf(q) \/ q = c => \E j \in DOMAIN incoming' :
                                           incoming'[j].op = "suback" /\ incoming'[j].who = q
        BY <2>3 DEF AckOf
      <3> SUFFICES ASSUME NEW i \in DOMAIN channel', channel'[i].op = "sub"
                   PROVE  \E h \in DOMAIN pending_subacks :
                              /\ channel'[i].who = pending_subacks[h]
                              /\ \A l \in DOMAIN pending_subacks : l < h =>
                                    \/ \E j \in DOMAIN incoming' :
                                          /\ incoming'[j].op = "suback"
                                          /\ incoming'[j].who = pending_subacks[l]
                                    \/ \E j \in DOMAIN channel' :
                                          /\ j < i /\ channel'[j].op = "sub"
                                          /\ channel'[j].who = pending_subacks[l]
        BY <1>1 DEF AsksInOrder, AckOf
      <3>1. i + 1 \in DOMAIN channel /\ i \in Nat /\ channel'[i] = channel[i + 1]
        BY <1>2
      <3>2. PICK h \in DOMAIN pending_subacks :
                /\ channel[i + 1].who = pending_subacks[h]
                /\ \A l \in DOMAIN pending_subacks : l < h =>
                      \/ AckOf(pending_subacks[l])
                      \/ \E j \in DOMAIN channel :
                            /\ j < i + 1 /\ channel[j].op = "sub"
                            /\ channel[j].who = pending_subacks[l]
        BY <1>4, <1>10, <3>1 DEF Fifo, AsksInOrder
      <3>3. ASSUME NEW l \in DOMAIN pending_subacks, l < h, ~AckOf(pending_subacks[l]),
                   pending_subacks[l] # c
            PROVE  \E j \in DOMAIN channel' : /\ j < i /\ channel'[j].op = "sub"
                                               /\ channel'[j].who = pending_subacks[l]
        <4>1. PICK j \in DOMAIN channel : /\ j < i + 1 /\ channel[j].op = "sub"
                                           /\ channel[j].who = pending_subacks[l]
          BY <3>2, <3>3
        <4>2. j # 1 /\ j \in Nat
          BY <1>2, <3>3, <4>1 DEF c
        <4>3. j - 1 \in DOMAIN channel' /\ channel'[j - 1] = channel[j] /\ j - 1 < i
          BY <1>2, <3>1, <4>1, <4>2
        <4> QED
          BY <4>1, <4>3
      <3> QED
        BY <3>0, <3>1, <3>2, <3>3
    <2>7. Once'
      <3>1. ~AckOf(c)
        BY <1>6 DEF Fifo, Once
      <3>2. \A i \in DOMAIN incoming : incoming[i].op = "suback" => incoming[i].who # c
        BY <3>1 DEF AckOf
      <3>3. \A i, j \in DOMAIN incoming' :
               /\ incoming'[i].op = "suback" /\ incoming'[j].op = "suback"
               /\ incoming'[i].who = incoming'[j].who
               => i = j
        BY <2>1, <2>2, <3>2 DEF Fifo, Once
      <3> QED
        BY <1>5, <1>7, <2>3, <3>3 DEF Fifo, Once
    <2>8. Unsent'
      BY <1>1, <1>4, <1>5, <1>6, <1>8, <1>10, <2>3 DEF Fifo, Unsent
    <2> QED
      BY <1>4, <2>5, <2>6, <2>7, <2>8 DEF Fifo
  <1> QED
    BY <1>9, <1>10

(* The SUBACK that comes in is for the waiter at the front. *)
LEMMA SubackOfFirst ==
  ASSUME Types, Fifo, Reads("suback")
  PROVE  1 \in DOMAIN pending_subacks /\ incoming[1].who = pending_subacks[1]
  <1>1. 1 \in DOMAIN incoming /\ incoming[1].op = "suback" /\ \A j \in DOMAIN incoming : ~(j < 1)
    BY ReadIs
  <1>2. PICK k \in DOMAIN pending_subacks :
            /\ incoming[1].who = pending_subacks[k]
            /\ \A l \in DOMAIN pending_subacks : ~(l < k)
    BY <1>1 DEF Fifo, AcksInOrder
  <1>3. DOMAIN pending_subacks = 1..Len(pending_subacks) /\ Len(pending_subacks) \in Nat
    BY DEF Types
  <1>4. k = 1
    BY <1>2, <1>3
  <1> QED
    BY <1>2, <1>4

LEMMA SubackFifo ==
  ASSUME Types, Waiters, Fifo, LoopSuback
  PROVE  Fifo'
  <1> DEFINE h == pending_subacks[1]
  <1>1. /\ UNCHANGED <<pc, loop, broken, channel>> /\ Reads("suback")
    BY DEF LoopSuback, Reads
  <1>2. 1 \in DOMAIN pending_subacks /\ incoming[1].who = h
    BY <1>1, SubackOfFirst
  <1>3. /\ \A k \in DOMAIN pending_subacks' :
              /\ k + 1 \in DOMAIN pending_subacks /\ k \in Nat \ {0}
              /\ pending_subacks'[k] = pending_subacks[k + 1] /\ pending_subacks'[k] # h
        /\ \A k \in DOMAIN pending_subacks : pending_subacks[k] # h =>
              /\ k - 1 \in DOMAIN pending_subacks' /\ k \in Nat
              /\ pending_subacks'[k - 1] = pending_subacks[k]
    <2>1. pending_subacks # <<>>
      BY <1>2
    <2>2. /\ Len(pending_subacks) \in Nat
          /\ DOMAIN pending_subacks' = 1..Len(pending_subacks) - 1
          /\ DOMAIN pending_subacks = 1..Len(pending_subacks)
          /\ \A i \in 1..Len(pending_subacks) - 1 :
                /\ pending_subacks'[i] = pending_subacks[i + 1]
                /\ pending_subacks[i + 1] # h
      BY <2>1, SubackIs
    <2> HIDE DEF h
    <2>3. \A k \in DOMAIN pending_subacks : pending_subacks[k] # h => k # 1
      BY DEF h
    <2> QED
      BY <2>2, <2>3
  <1>4. /\ incoming[1].op = "suback" /\ 1 \in DOMAIN incoming
        /\ \A i \in DOMAIN incoming' : /\ i + 1 \in DOMAIN incoming /\ i \in Nat \ {0}
                                       /\ incoming'[i] = incoming[i + 1]
        /\ \A i \in DOMAIN incoming : i # 1 => /\ i - 1 \in DOMAIN incoming' /\ i \in Nat
                                               /\ incoming'[i - 1] = incoming[i]
    <2>1. /\ DOMAIN incoming = 1..Len(incoming) /\ Len(incoming) \in Nat \ {0}
          /\ incoming[1].op = "suback" /\ 1 \in DOMAIN incoming
          /\ DOMAIN incoming' = 1..Len(incoming) - 1
          /\ \A i \in 1..Len(incoming) - 1 : incoming'[i] = incoming[i + 1]
      BY <1>1, ReadIs
    <2> QED
      BY <2>1
  <1> HIDE DEF h
  <1>5. \A i \in DOMAIN incoming : incoming[i].op = "suback" /\ incoming[i].who = h => i = 1
    BY <1>2, <1>4 DEF Fifo, Once
  <1>6. channel' = channel
    BY <1>1
  <1>7. /\ Cut <=> Cut'
        /\ loop'.todo = <<>>
    <2>1. loop' = loop
      BY <1>1
    <2> QED
      BY <1>1, <2>1 DEF Fifo, Cut
  <1>8. \A q : AckOf(q)' <=> AckOf(q) /\ q # h
    <2>1. ASSUME NEW q, AckOf(q)' PROVE AckOf(q) /\ q # h
      <3>1. PICK i \in DOMAIN incoming' : incoming'[i].op = "suback" /\ incoming'[i].who = q
        BY <2>1 DEF AckOf
      <3>2. i + 1 \in DOMAIN incoming /\ incoming'[i] = incoming[i + 1] /\ i + 1 # 1
        BY <1>4
      <3> QED
        BY <1>5, <3>1, <3>2 DEF AckOf
    <2>2. ASSUME NEW q, AckOf(q), q # h PROVE AckOf(q)'
      <3>1. PICK i \in DOMAIN incoming : incoming[i].op = "suback" /\ incoming[i].who = q
        BY <2>2 DEF AckOf
      <3>2. i # 1
        BY <1>2, <2>2, <3>1
      <3> QED
        BY <1>4, <3>1, <3>2 DEF AckOf
    <2> QED
      BY <2>1, <2>2
  <1>9. /\ \A q : Sent("sub", q)' <=> Sent("sub", q)
        /\ \A q : Waits(q)' <=> Waits(q) /\ q # h
        /\ AckOf(h)
    <2>1. ASSUME NEW q, Waits(q)' PROVE Waits(q) /\ q # h
      BY <1>3, <2>1 DEF Waits
    <2>2. ASSUME NEW q, Waits(q), q # h PROVE Waits(q)'
      BY <1>3, <2>2 DEF Waits
    <2>3. \A q : Sent("sub", q)' <=> Sent("sub", q)
      BY <1>6 DEF Sent
    <2> QED
      BY <1>2, <1>4, <2>1, <2>2, <2>3 DEF AckOf
  <1>10. AcksInOrder'
    <2> SUFFICES ASSUME NEW i \in DOMAIN incoming', incoming'[i].op = "suback"
                 PROVE  \E k \in DOMAIN pending_subacks' :
                            /\ incoming'[i].who = pending_subacks'[k]
                            /\ \A l \in DOMAIN pending_subacks' : l < k =>
                                  \E j \in DOMAIN incoming' :
                                      /\ j < i /\ incoming'[j].op = "suback"
                                      /\ incoming'[j].who = pending_subacks'[l]
      BY DEF AcksInOrder
    <2>1. i + 1 \in DOMAIN incoming /\ i \in Nat \ {0} /\ incoming'[i] = incoming[i + 1]
      BY <1>4
    <2>2. PICK k \in DOMAIN pending_subacks :
              /\ incoming[i + 1].who = pending_subacks[k]
              /\ \A l \in DOMAIN pending_subacks : l < k =>
                    \E j \in DOMAIN incoming :
                        /\ j < i + 1 /\ incoming[j].op = "suback"
                        /\ incoming[j].who = pending_subacks[l]
      BY <2>1 DEF Fifo, AcksInOrder
    <2>3. pending_subacks[k] # h
      BY <1>5, <2>1, <2>2
    <2>4. k - 1 \in DOMAIN pending_subacks' /\ k \in Nat /\ pending_subacks'[k - 1] = pending_subacks[k]
      BY <1>3, <2>3
    <2>5. ASSUME NEW l \in DOMAIN pending_subacks', l < k - 1
          PROVE  \E j \in DOMAIN incoming' : /\ j < i /\ incoming'[j].op = "suback"
                                             /\ incoming'[j].who = pending_subacks'[l]
      <3>1. /\ l + 1 \in DOMAIN pending_subacks /\ l \in Nat
            /\ pending_subacks'[l] = pending_subacks[l + 1] /\ pending_subacks'[l] # h
        BY <1>3
      <3>2. l + 1 < k
        BY <2>4, <2>5, <3>1
      <3>3. PICK j \in DOMAIN incoming : /\ j < i + 1 /\ incoming[j].op = "suback"
                                         /\ incoming[j].who = pending_subacks[l + 1]
        BY <2>2, <3>1, <3>2
      <3>4. j # 1
        BY <1>2, <3>1, <3>3
      <3>5. j - 1 \in DOMAIN incoming' /\ incoming'[j - 1] = incoming[j] /\ j - 1 < i
        BY <1>4, <2>1, <3>3, <3>4
      <3> QED
        BY <3>1, <3>3, <3>5
    <2> QED
      BY <2>1, <2>2, <2>4, <2>5
  <1>11. AsksInOrder'
    <2> SUFFICES ASSUME NEW i \in DOMAIN channel, channel[i].op = "sub"
                 PROVE  \E k \in DOMAIN pending_subacks' :
                            /\ channel[i].who = pending_subacks'[k]
                            /\ Cut \/ \A l \in DOMAIN pending_subacks' : l < k =>
                                  \/ AckOf(pending_subacks'[l])
                                  \/ \E j \in DOMAIN channel :
                                        /\ j < i /\ channel[j].op = "sub"
                                        /\ channel[j].who = pending_subacks'[l]
      <3>1. \A l \in DOMAIN pending_subacks' : AckOf(pending_subacks'[l]) =>
                \E j \in DOMAIN incoming' : /\ incoming'[j].op = "suback"
                                            /\ incoming'[j].who = pending_subacks'[l]
        <4> SUFFICES ASSUME NEW l \in DOMAIN pending_subacks', AckOf(pending_subacks'[l])
                     PROVE  \E j \in DOMAIN incoming' : /\ incoming'[j].op = "suback"
                                                        /\ incoming'[j].who = pending_subacks'[l]
          OBVIOUS
        <4>1. PICK q : q = pending_subacks'[l]
          OBVIOUS
        <4>2. AckOf(q) /\ q # h
          BY <1>3, <4>1
        <4>3. AckOf(q)'
          BY <1>8, <4>2
        <4> QED
          BY <4>1, <4>3 DEF AckOf
      <3> QED
        BY <1>6, <1>7, <3>1 DEF AsksInOrder, AckOf
    <2>1. PICK k \in DOMAIN pending_subacks :
              /\ channel[i].who = pending_subacks[k]
              /\ Cut \/ \A l \in DOMAIN pending_subacks : l < k =>
                    \/ AckOf(pending_subacks[l])
                    \/ \E j \in DOMAIN channel :
                          /\ j < i /\ channel[j].op = "sub"
                          /\ channel[j].who = pending_subacks[l]
      BY DEF Fifo, AsksInOrder
    <2>2. pending_subacks[k] # h
      <3>1. ~Sent("sub", h)
        BY <1>9 DEF Fifo, Once
      <3> QED
        BY <2>1, <3>1 DEF Sent
    <2>3. k - 1 \in DOMAIN pending_subacks' /\ k \in Nat /\ pending_subacks'[k - 1] = pending_subacks[k]
      BY <1>3, <2>2
    <2>4. \A l \in DOMAIN pending_subacks' : l < k - 1 =>
             l + 1 \in DOMAIN pending_subacks /\ l + 1 < k /\ pending_subacks'[l] = pending_subacks[l + 1]
      BY <1>3, <2>3
    <2> QED
      BY <2>1, <2>3, <2>4
  <1>12. Once'
    <2>1. \A i, j \in DOMAIN incoming' :
             /\ incoming'[i].op = "suback" /\ incoming'[j].op = "suback"
             /\ incoming'[i].who = incoming'[j].who
             => i = j
      <3> SUFFICES ASSUME NEW i \in DOMAIN incoming', NEW j \in DOMAIN incoming',
                          incoming'[i].op = "suback", incoming'[j].op = "suback",
                          incoming'[i].who = incoming'[j].who
                   PROVE  i = j
        OBVIOUS
      <3>1. /\ i + 1 \in DOMAIN incoming /\ incoming'[i] = incoming[i + 1] /\ i \in Nat
            /\ j + 1 \in DOMAIN incoming /\ incoming'[j] = incoming[j + 1] /\ j \in Nat
        BY <1>4
      <3>2. i + 1 = j + 1
        BY <3>1 DEF Fifo, Once
      <3> QED
        BY <3>1, <3>2
    <2> QED
      BY <1>6, <1>8, <1>9, <2>1 DEF Fifo, Once
  <1>13. Unsent'
    BY <1>1, <1>7, <1>8, <1>9 DEF Fifo, Unsent
  <1> QED
    BY <1>7, <1>10, <1>11, <1>12, <1>13 DEF Fifo

FifoInOrder == shifted \/ Fifo

LEMMA FifoInit == Init => FifoInOrder
  <1> SUFFICES ASSUME Init PROVE Fifo
    BY DEF FifoInOrder
  <1>1. /\ \A c \in Callers : pc[c] = "idle"
        /\ incoming = <<>> /\ pending_subacks = <<>> /\ loop.todo = <<>>
        /\ channel = <<>>
    BY DEF Init, Polling
  <1>2. AcksInOrder /\ AsksInOrder
    BY <1>1 DEF AcksInOrder, AsksInOrder
  <1>3. Once
    BY <1>1 DEF Once, AckOf
  <1>4. Unsent
    BY <1>1, CallersAre DEF Unsent, Waits
  <1> QED
    BY <1>1, <1>2, <1>3, <1>4 DEF Fifo

(* The FIFO is never put right again. *)
LEMMA StaysShifted ==
  ASSUME Types, shifted, [Next]_vars
  PROVE  shifted'
  <1>1. ASSUME NEW c \in Callers, CallerActs(c) PROVE shifted'
    <2>1. CASE Moves(c)
      BY <2>1, MovesAre
    <2>2. CASE \/ SubscribeRegister(c) \/ SubscribeSend(c) \/ Unsubscribe(c)
               \/ DropGuards(c) \/ Submit(c) \/ Release(c)
      BY <2>2 DEF SubscribeRegister, SubscribeSend, Unsubscribe, DropGuards, Submit,
                  Release, history
    <2> QED
      BY <1>1, <2>1, <2>2 DEF CallerActs
  <1>2. CASE Funnel
    BY <1>2 DEF Funnel, FunnelTake, FunnelRegister, FunnelSend, history
  <1>3. CASE LoopRead
    BY <1>3 DEF LoopRead, LoopSuback, LoopPuback, LoopReply, Reads, history
  <1>4. CASE LoopWrite
    BY <1>4 DEF LoopWrite, LoopSubscribe, LoopUnsubscribe, LoopPublish, Writes
  <1>5. CASE Fails
    BY <1>5 DEF Fails, LoopError, LoopRetry, history
  <1>6. CASE LoopConnect
    BY <1>6 DEF LoopConnect, LoopConnack, LoopResubscribe, LoopReady, history
  <1>7. CASE WireBreaks \/ \E c \in Requesters : Respond(c)
    BY <1>7 DEF WireBreaks, Respond, history
  <1>8. CASE UNCHANGED vars
    BY <1>8 DEF vars, history
  <1> QED
    BY <1>1, <1>2, <1>3, <1>4, <1>5, <1>6, <1>7, <1>8, NextIs

LEMMA IdleFifo ==
  ASSUME Types, Fifo, LoopRetry \/ WireBreaks \/ UNCHANGED vars
  PROVE  Fifo'
  <1>1. /\ UNCHANGED <<pc, pending_subacks, loop>> /\ UNCHANGED <<incoming, channel>>
        /\ broken => broken'
    BY DEF LoopRetry, WireBreaks, vars, subs, client, wire
  <1>2. Realigned(incoming, incoming', "suback") /\ Realigned(channel, channel', "sub")
    BY <1>1, RealignedSame, SameRealigns
  <1> QED
    BY <1>1, <1>2, AsideFifo

(* As long as nothing shifted it, the FIFO of waiters lines up with the    *)
(* SUBACKs on their way and the SUBSCRIBEs in the channel: the order in    *)
(* which pending_subacks is popped is the order of the broker's answers.   *)
THEOREM FifoHolds == Spec => []FifoInOrder
  <1>1. Basis /\ FifoInOrder /\ [Next]_vars => FifoInOrder'
    <2> SUFFICES ASSUME Basis, FifoInOrder, [Next]_vars, ~shifted' PROVE Fifo'
      BY DEF FifoInOrder
    <2>1. Types /\ Shapes /\ Waiters
      BY DEF Basis
    <2>2. Fifo
      BY <2>1, StaysShifted DEF FifoInOrder
    <2>3. ASSUME NEW c \in Callers, CallerActs(c) PROVE Fifo'
      BY <2>1, <2>2, <2>3, CallerFifo, RegisterFifo, SendFifo DEF CallerActs
    <2>4. CASE LoopRead
      BY <2>1, <2>2, <2>4, SubackFifo, ReadFifo DEF LoopRead
    <2>5. CASE LoopWrite
      BY <2>1, <2>2, <2>5, SubscribeFifo, WriteFifo DEF LoopWrite
    <2>6. CASE Funnel \/ Fails \/ LoopConnect
      BY <2>1, <2>2, <2>6, FunnelFifo, ErrorFifo, IdleFifo, ConnectFifo DEF Fails
    <2>7. CASE WireBreaks \/ (\E c \in Requesters : Respond(c)) \/ UNCHANGED vars
      BY <2>1, <2>2, <2>7, IdleFifo, RespondFifo
    <2> QED
      BY <2>3, <2>4, <2>5, <2>6, <2>7, NextIs
  <1> QED
    BY FifoInit, BasisHolds, <1>1, PTL DEF Spec

-----------------------------------------------------------------------------
(* What the broker granted. *)
AcksGranted == \A i \in DOMAIN incoming :
    incoming[i].op = "suback" /\ incoming[i].who \notin Rejects => incoming[i].who \in granted

Grants == bsubs \subseteq granted /\ AcksGranted /\ AckedIsGranted

LEMMA GrantsStay ==
  ASSUME Grants, UNCHANGED <<incoming, bsubs, answer>>, granted \subseteq granted',
         shifted => shifted'
  PROVE  Grants'
  BY DEF Grants, AcksGranted, AckedIsGranted

LEMMA CallerGrants ==
  ASSUME Types, Grants, NEW c \in Callers, CallerActs(c), shifted => shifted'
  PROVE  Grants'
  <1>1. CASE Moves(c)
    <2>1. UNCHANGED <<incoming, bsubs, answer>> /\ granted' = granted
      BY <1>1, MovesAre DEF subs, wire
    <2> QED
      BY <2>1, GrantsStay
  <1>2. CASE \/ SubscribeRegister(c) \/ SubscribeSend(c) \/ Unsubscribe(c)
             \/ DropGuards(c) \/ Submit(c) \/ Release(c)
    <2>1. UNCHANGED <<incoming, bsubs, answer>> /\ granted' = granted
      BY <1>2 DEF SubscribeRegister, SubscribeSend, Unsubscribe, DropGuards, Submit, Release,
                  subs, wire, history
    <2> QED
      BY <2>1, GrantsStay
  <1> QED
    BY <1>1, <1>2 DEF CallerActs

LEMMA ReachGrants ==
  ASSUME Types, Grants, NEW packets, NEW subscribed, NEW took,
         Reaches(packets, subscribed, took), UNCHANGED <<answer, shifted>>,
         packets = <<>> \/ \E x \in Packet : packets = <<x>>,
         \A x : packets = <<x>> /\ x.op = "suback" /\ x.who \notin Rejects =>
                   x.who \in subscribed
  PROVE  Grants'
  <1>1. CASE broken
    BY <1>1, GrantsStay DEF Reaches
  <1>2. CASE ~broken
    <2>1. /\ incoming' = incoming \o packets /\ bsubs' = subscribed
          /\ granted' = granted \union (subscribed \ bsubs)
      BY <1>2 DEF Reaches
    <2>2. subscribed \subseteq granted' /\ granted \subseteq granted'
      BY <2>1 DEF Grants
    <2>3. AcksGranted'
      <3>1. incoming \in Seq(Packet)
        BY DEF Types
      <3>2. CASE packets = <<>>
        <4>1. incoming \o <<>> = incoming
          BY <3>1
        <4>2. incoming' = incoming
          BY <2>1, <3>2, <4>1
        <4> QED
          BY <2>2, <4>2 DEF Grants, AcksGranted
      <3>3. CASE \E x \in Packet : packets = <<x>>
        <4>1. PICK x \in Packet : packets = <<x>>
          BY <3>3
        <4>2. /\ DOMAIN incoming = 1..Len(incoming) /\ Len(incoming) \in Nat
              /\ DOMAIN (incoming \o <<x>>) = 1..Len(incoming) + 1
              /\ \A i \in DOMAIN incoming : (incoming \o <<x>>)[i] = incoming[i]
              /\ (incoming \o <<x>>)[Len(incoming) + 1] = x
          BY <3>1
        <4>3. \A i \in DOMAIN incoming' :
                 (i \in DOMAIN incoming /\ incoming'[i] = incoming[i]) \/ incoming'[i] = x
          BY <2>1, <4>1, <4>2
        <4>4. x.op = "suback" /\ x.who \notin Rejects => x.who \in granted'
          BY <2>2, <4>1
        <4> QED
          BY <2>2, <4>3, <4>4 DEF Grants, AcksGranted
      <3> QED
        BY <3>2, <3>3
    <2>4. AckedIsGranted'
      BY <2>2 DEF Grants, AckedIsGranted
    <2> QED
      BY <2>1, <2>2, <2>3, <2>4 DEF Grants
  <1> QED
    BY <1>1, <1>2

LEMMA WriteGrants ==
  ASSUME Types, Shapes, Grants, LoopWrite
  PROVE  Grants'
  <1>1. CASE LoopSubscribe
    <2>1. /\ Writes("sub")
          /\ Reaches(<<Suback(Head(channel).who)>>,
                     bsubs \union ({Head(channel).who} \ Rejects), {})
      BY <1>1 DEF LoopSubscribe
    <2>2. PICK c : c = Head(channel).who
      OBVIOUS
    <2>3. c \in Filters
      <3>1. channel[1].op = "sub" /\ WellFormed(channel[1]) /\ Head(channel) = channel[1]
        BY <2>1, WritesShapes
      <3> QED
        BY <2>2, <3>1 DEF WellFormed
    <2>4. PICK packets, subscribed, took :
            /\ packets = <<Suback(c)>> /\ subscribed = bsubs \union ({c} \ Rejects)
            /\ Reaches(packets, subscribed, took)
      BY <2>1, <2>2
    <2>5. Suback(c) \in Packet /\ Suback(c).who = c
      BY <2>3 DEF Suback, Packet
    <2>6. \A x : packets = <<x>> => x = Suback(c)
      BY <2>4
    <2>7. UNCHANGED <<answer, shifted>>
      BY <2>1 DEF Writes, subs
    <2> QED
      BY <2>4, <2>5, <2>6, <2>7, ReachGrants
  <1>2. CASE LoopUnsubscribe
    <2>1. Writes("unsub") /\ Reaches(<<>>, bsubs \ {Head(channel).who}, {})
      BY <1>2 DEF LoopUnsubscribe
    <2>2. UNCHANGED <<answer, shifted>>
      BY <2>1 DEF Writes, subs
    <2>3. PICK packets, subscribed, took :
            /\ packets = <<>> /\ Reaches(packets, subscribed, took)
      BY <2>1
    <2>4. \A x : packets # <<x>>
      BY <2>3
    <2> QED
      BY <2>2, <2>3, <2>4, ReachGrants
  <1>3. CASE LoopPublish
    <2>1. PICK c, pkid : Publishing(c, pkid)
      BY <1>3, PublishIs
    <2>2. /\ Writes("pub") /\ pkid \in Nat /\ c \in Publishers
          /\ Reaches(IF pkid = 0 THEN <<>> ELSE <<Puback(pkid)>>, bsubs, {c})
      BY <2>1 DEF Publishing
    <2>3. UNCHANGED <<answer, shifted>>
      BY <2>2 DEF Writes, subs
    <2>4. PICK packets : /\ packets = IF pkid = 0 THEN <<>> ELSE <<Puback(pkid)>>
                         /\ Reaches(packets, bsubs, {c})
      BY <2>2
    <2>5. \A x : <<x>> = packets => x.op # "suback"
      BY <2>4 DEF Puback
    <2>6. packets = <<>> \/ \E x \in Packet : packets = <<x>>
      <3>1. pkid # 0 => Puback(pkid) \in Packet
        BY <2>2 DEF Puback, Packet
      <3> QED
        BY <2>4, <3>1
    <2> QED
      BY <2>3, <2>4, <2>5, <2>6, ReachGrants
  <1> QED
    BY <1>1, <1>2, <1>3 DEF LoopWrite

LEMMA ReadGrants ==
  ASSUME Types, Waiters, FifoInOrder, Grants, LoopRead
  PROVE  Grants'
  <1>1. UNCHANGED <<bsubs, granted, shifted, lapsed>> /\ \E op : Reads(op)
    BY DEF LoopRead, LoopSuback, LoopPuback, LoopReply, Reads, history
  <1>2. AcksGranted'
    <2>1. PICK op : Reads(op)
      BY <1>1
    <2>2. /\ DOMAIN incoming = 1..Len(incoming) /\ Len(incoming) \in Nat \ {0}
          /\ DOMAIN incoming' = 1..Len(incoming) - 1
          /\ \A i \in 1..Len(incoming) - 1 : incoming'[i] = incoming[i + 1]
      BY <2>1, ReadIs
    <2>3. \A i \in DOMAIN incoming' : i + 1 \in DOMAIN incoming /\ incoming'[i] = incoming[i + 1]
      BY <2>2
    <2> QED
      BY <1>1, <2>3 DEF Grants, AcksGranted
  <1>3. AckedIsGranted'
    <2>1. CASE LoopPuback \/ LoopReply
      BY <1>1, <2>1 DEF LoopPuback, LoopReply, Grants, AckedIsGranted
    <2>2. CASE LoopSuback /\ ~shifted
      <3>1. Fifo /\ Reads("suback")
        BY <2>2 DEF FifoInOrder, LoopSuback
      <3>2. 1 \in DOMAIN pending_subacks /\ incoming[1].who = pending_subacks[1]
        BY <3>1, SubackOfFirst
      <3>3. incoming[1].op = "suback" /\ 1 \in DOMAIN incoming /\ Head(incoming) = incoming[1]
        BY <3>1, ReadIs
      <3>4. pending_subacks # <<>>
        BY <3>2
      <3>5. /\ answer'[pending_subacks[1]] =
                  IF Accepted(Head(incoming).who) THEN "ok" ELSE "err"
            /\ \A q \in Callers : q # pending_subacks[1] => answer'[q] = answer[q]
        BY <2>2, <3>4, SubackIs
      <3>6. answer'[pending_subacks[1]] = "ok" => pending_subacks[1] \in granted
        BY <3>2, <3>3, <3>5 DEF Grants, AcksGranted, Accepted
      <3> QED
        BY <1>1, <2>2, <3>5, <3>6 DEF Grants, AckedIsGranted
    <2>3. CASE shifted
      BY <1>1, <2>3 DEF AckedIsGranted
    <2> QED
      BY <2>1, <2>2, <2>3 DEF LoopRead
  <1> QED
    BY <1>1, <1>2, <1>3 DEF Grants

LEMMA OtherGrants ==
  ASSUME Types, Grants, shifted => shifted',
         \/ Funnel \/ LoopConnect \/ WireBreaks \/ UNCHANGED vars
         \/ Fails
         \/ \E c \in Requesters : Respond(c)
  PROVE  Grants'
  <1>1. CASE Funnel \/ LoopRetry \/ LoopConnect \/ WireBreaks \/ UNCHANGED vars
    <2>1. UNCHANGED <<incoming, bsubs, answer>> /\ granted' = granted
      BY <1>1 DEF Funnel, FunnelTake, FunnelRegister, FunnelSend, LoopRetry, LoopConnect, LoopConnack,
                  LoopResubscribe, LoopReady, WireBreaks, vars, subs, wire, history
    <2> QED
      BY <2>1, GrantsStay
  <1>2. CASE LoopError
    <2>1. incoming' = <<>> /\ bsubs' = {} /\ UNCHANGED <<answer, granted, shifted>>
      BY <1>2 DEF LoopError, subs
    <2> QED
      BY <2>1 DEF Grants, AcksGranted, AckedIsGranted
  <1>3. CASE \E c \in Requesters : Respond(c)
    <2>1. PICK c \in Requesters : Respond(c)
      BY <1>3
    <2>2. /\ incoming' = Append(incoming, Reply(c))
          /\ UNCHANGED <<bsubs, answer, granted, shifted>>
      BY <2>1 DEF Respond, subs, history
    <2>3. /\ DOMAIN Append(incoming, Reply(c)) = 1..Len(incoming) + 1
          /\ DOMAIN incoming = 1..Len(incoming) /\ Len(incoming) \in Nat
          /\ \A i \in 1..Len(incoming) : Append(incoming, Reply(c))[i] = incoming[i]
          /\ Append(incoming, Reply(c))[Len(incoming) + 1] = Reply(c)
      <3>1. incoming \in Seq(Packet)
        BY DEF Types
      <3>2. Reply(c) \in Packet
        BY DEF Reply, Packet
      <3> QED
        BY <3>1, <3>2
    <2>4. \A i \in DOMAIN incoming' :
             (i \in DOMAIN incoming /\ incoming'[i] = incoming[i]) \/ incoming'[i] = Reply(c)
      BY <2>2, <2>3
    <2>5. Reply(c).op # "suback"
      BY DEF Reply
    <2> QED
      BY <2>2, <2>4, <2>5 DEF Grants, AcksGranted, AckedIsGranted
  <1> QED
    BY <1>1, <1>2, <1>3 DEF Fails

(* A subscribe that returned success is active at the broker, unless the   *)
(* FIFO of waiters was shifted before (pending_subacks, popped by every    *)
(* SUBACK whoever it is for).                                              *)
THEOREM AckedIsGrantedCorrect == Spec => []AckedIsGranted
  <1>1. Init => Grants
    BY DEF Init, Grants, AcksGranted, AckedIsGranted
  <1>2. Basis /\ FifoInOrder /\ Grants /\ [Next]_vars => Grants'
    <2> SUFFICES ASSUME Basis, FifoInOrder, Grants, [Next]_vars PROVE Grants'
      OBVIOUS
    <2>1. Types /\ Shapes /\ Waiters
      BY DEF Basis
    <2>2. shifted => shifted'
      BY <2>1, StaysShifted
    <2>3. ASSUME NEW c \in Callers, CallerActs(c) PROVE Grants'
      BY <2>1, <2>2, <2>3, CallerGrants
    <2>4. CASE LoopRead
      BY <2>1, <2>4, ReadGrants
    <2>5. CASE LoopWrite
      BY <2>1, <2>5, WriteGrants
    <2> QED
      BY <2>1, <2>2, <2>3, <2>4, <2>5, NextIs, OtherGrants
  <1>3. Grants => AckedIsGranted
    BY DEF Grants
  <1> QED
    BY BasisHolds, FifoHolds, <1>1, <1>2, <1>3, PTL DEF Spec
=============================================================================
