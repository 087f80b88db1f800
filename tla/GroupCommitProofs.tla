------------------------- MODULE GroupCommitProofs -------------------------
(***************************************************************************)
(* Theorems about GroupCommit, for every set of producers, every bound and *)
(* every policy.                                                           *)
(***************************************************************************)
EXTENDS GroupCommit, TLAPS

(* Names for parts of an action stand for these parts throughout. *)
USE DEF FlushTarget, LeaderFree, WokenByDone, ResolvedUpTo

(* The records a call pushes are well-formed, and there are k of them. *)
LEMMA FreshType ==
    ASSUME TypeOK, NEW p \in Producers, NEW k \in Nat
    PROVE  /\ Fresh(p, k) \in Seq(Pending)
           /\ Len(Fresh(p, k)) = k
           /\ \A i \in 1..k : Fresh(p, k)[i].seq = next_seq + i - 1
BY DEF Fresh, TypeOK, Pending, Call, Seqs

(* Room is what the bound of the queue leaves. *)
LEMMA RoomType == ASSUME TypeOK PROVE Room \in Nat /\ Room + Len(queue) = MaxBufferedRecords
BY GroupCommitAssumption DEF Room, TypeOK

(* A queue that got k records within its room is still a queue. *)
LEMMA PushQueue ==
    ASSUME TypeOK, NEW p \in Producers, NEW k \in Nat, k <= Room
    PROVE  /\ queue \o Fresh(p, k) \in Seq(Pending)
           /\ Len(queue \o Fresh(p, k)) = Len(queue) + k
           /\ Len(queue) + k <= MaxBufferedRecords
<1>1. queue \in Seq(Pending) /\ Len(queue) \in Nat
  BY DEF TypeOK
<1>2. Fresh(p, k) \in Seq(Pending) /\ Len(Fresh(p, k)) = k
  BY FreshType
<1>3. /\ queue \o Fresh(p, k) \in Seq(Pending)
      /\ Len(queue \o Fresh(p, k)) = Len(queue) + k
  BY <1>1, <1>2
<1>4. Len(queue) + k <= MaxBufferedRecords
  BY <1>1, RoomType, GroupCommitAssumption
<1> QED BY <1>3, <1>4

(* Pushing k records of a call that has at least as many to push. *)
LEMMA PushType ==
    ASSUME TypeOK, NEW p \in Producers, NEW k \in Nat, k <= Room, Push(p, k)
    PROVE  /\ queue' \in Seq(Pending) /\ Len(queue') <= MaxBufferedRecords
           /\ next_seq' \in Seqs
           /\ mustSync' \subseteq Seqs
<1>1. next_seq \in Nat \ {0} /\ mustSync \subseteq Seqs
  BY DEF TypeOK, Seqs
<1>2. FreshSeqs(k) \subseteq Seqs
  BY <1>1 DEF Seqs, FreshSeqs
<1>3. queue' \in Seq(Pending) /\ Len(queue') <= MaxBufferedRecords
  BY PushQueue DEF Push
<1>4. next_seq' \in Seqs
  BY <1>1 DEF Push, Seqs
<1>5. mustSync' \subseteq Seqs
  BY <1>1, <1>2 DEF Push
<1> QED BY <1>3, <1>4, <1>5

(* The call that pushed them is still a call. *)
LEMMA PushedType ==
    ASSUME TypeOK, NEW p \in Producers, NEW k \in Nat, k <= call[p].todo
    PROVE  Pushed(p, k) \in Call
<1>1. next_seq \in Nat \ {0} /\ call[p] \in Call
  BY DEF TypeOK, Seqs
<1>2. FreshSeqs(k) \subseteq Seqs
  BY <1>1 DEF Seqs, FreshSeqs
<1> QED BY <1>1, <1>2, GroupCommitAssumption DEF Pushed, Call

(* What is queued, drained or refused by the leader is well-formed, so the *)
(* sequences the writer handles are sequences.                             *)
LEMMA CurrentType ==
    ASSUME TypeOK, NEW p \in Producers, written[p] < Len(group[p])
    PROVE  Current(p) \in Seqs
<1>1. group[p] \in Seq(Pending) /\ written[p] \in Nat
  BY DEF TypeOK
<1>2. written[p] + 1 \in 1..Len(group[p])
  BY <1>1
<1>3. group[p][written[p] + 1] \in Pending
  BY <1>1, <1>2
<1> QED BY <1>3 DEF Current, Pending

(* The highest sequence of a group is a natural number. *)
LEMMA MaxOfType ==
    ASSUME TypeOK, NEW p \in Producers
    PROVE  MaxOf(group[p]) \in Nat
<1>1. group[p] \in Seq(Pending)
  BY DEF TypeOK
<1>2. CASE group[p] = <<>>
  BY <1>2 DEF MaxOf
<1>3. CASE group[p] # <<>>
  <2>1. Len(group[p]) \in 1..Len(group[p])
    BY <1>1, <1>3
  <2>2. group[p][Len(group[p])] \in Pending
    BY <1>1, <2>1
  <2> QED BY <1>3, <2>2 DEF MaxOf, Pending, Seqs
<1> QED BY <1>2, <1>3

(* What is in the active segment file was appended to the log. *)
LEMMA ActiveSegmentType == ASSUME TypeOK PROVE ActiveSegment \subseteq Seqs
<1>1. log \in Seq(Seqs) /\ active_base \in Nat
  BY DEF TypeOK
<1>2. \A i \in active_base + 1 .. Len(log) : i \in 1..Len(log)
  BY <1>1
<1> QED BY <1>1, <1>2 DEF ActiveSegment

(* Initially every variable has its type. *)
LEMMA TypeInit == Init => TypeOK
<1> SUFFICES ASSUME Init PROVE TypeOK
  OBVIOUS
<1>1. NoCall \in Call
  BY GroupCommitAssumption DEF NoCall, Call, Seqs
<1>2. /\ queue \in Seq(Pending) /\ Len(queue) <= MaxBufferedRecords
      /\ log \in Seq(Seqs)
  BY GroupCommitAssumption DEF Init
<1>3. call \in [Producers -> Call]
  BY <1>1 DEF Init
<1>4. group \in [Producers -> Seq(Pending)]
  <2>1. <<>> \in Seq(Pending)
    OBVIOUS
  <2> QED BY <2>1 DEF Init
<1>5. errors_local \in [Producers -> SUBSET Seqs]
  BY DEF Init
<1>6. /\ next_seq \in Seqs /\ resolved_seq \in Nat /\ active_base \in Nat
      /\ flushed \in Nat /\ written \in [Producers -> Nat]
  BY DEF Init, Seqs
<1>8. pc \in [Producers -> Locations] /\ leader_active \in BOOLEAN
  BY DEF Init, Locations
<1>7. /\ errors \subseteq Seqs /\ durable \subseteq Seqs /\ refused \subseteq Seqs
      /\ mustSync \subseteq Seqs /\ told \subseteq Seqs /\ wronged \subseteq Seqs
  BY DEF Init
<1> QED BY <1>2, <1>3, <1>4, <1>5, <1>6, <1>7, <1>8 DEF TypeOK

(* Pushing k records of p's call leaves every variable its type. *)
LEMMA TypePush ==
    ASSUME TypeOK, NEW p \in Producers, NEW k \in Nat, k <= Room, k <= call[p].todo,
           Push(p, k),
           \/ call' = [call EXCEPT ![p] = Pushed(p, k)]
           \/ call' = [call EXCEPT ![p] = NoCall],
           pc' \in [Producers -> Locations],
           UNCHANGED <<resolved_seq, errors, leader_active, group, written,
                       errors_local, store, refused, told, wronged, flushed>>
    PROVE  TypeOK'
<1>1. call' \in [Producers -> Call]
  <2>1. NoCall \in Call
    BY GroupCommitAssumption DEF NoCall, Call, Seqs
  <2>2. Pushed(p, k) \in Call
    BY PushedType
  <2>3. call \in [Producers -> Call]
    BY DEF TypeOK
  <2> QED BY <2>1, <2>2, <2>3
<1>2. /\ queue' \in Seq(Pending) /\ Len(queue') <= MaxBufferedRecords
      /\ next_seq' \in Seqs
      /\ mustSync' \subseteq Seqs
  BY PushType
<1>3. UNCHANGED <<log, active_base, durable>>
  BY DEF store
<1> QED BY <1>1, <1>2, <1>3 DEF TypeOK

(* Every step leaves every variable its type.  A step that only moves       *)
(* producers from one place to another is dealt with once.                 *)
LEMMA TypeMove ==
    ASSUME TypeOK, UNCHANGED <<ingest, group, written, errors_local, store, history>>,
           call' \in [Producers -> Call], pc' \in [Producers -> Locations]
    PROVE  TypeOK'
<1>1. UNCHANGED <<queue, next_seq, resolved_seq, errors, leader_active>>
  BY DEF ingest
<1>2. UNCHANGED <<log, active_base, durable>>
  BY DEF store
<1>3. UNCHANGED <<refused, mustSync, told, wronged, flushed>>
  BY DEF history
<1> QED BY <1>1, <1>2, <1>3 DEF TypeOK

LEMMA TypeNext == TypeOK /\ [Next]_vars => TypeOK'
<1> SUFFICES ASSUME TypeOK, [Next]_vars PROVE TypeOK'
  OBVIOUS
<1>0. NoCall \in Call
  BY GroupCommitAssumption DEF NoCall, Call, Seqs
<1>1. /\ pc \in [Producers -> Locations] /\ call \in [Producers -> Call]
      /\ group \in [Producers -> Seq(Pending)] /\ written \in [Producers -> Nat]
      /\ errors_local \in [Producers -> SUBSET Seqs] /\ queue \in Seq(Pending)
  BY DEF TypeOK
<1>2. /\ log \in Seq(Seqs) /\ active_base \in Nat /\ durable \subseteq Seqs
      /\ next_seq \in Nat \ {0} /\ resolved_seq \in Nat
  BY DEF TypeOK, Seqs
<1>3. ASSUME NEW p \in Producers, Begin(p) PROVE TypeOK'
  <2>1. CASE BeginFlush(p)
    <3>1. call' \in [Producers -> Call]
      <4>1. next_seq \in Nat /\ next_seq - 1 \in Nat
        BY <1>2
      <4>2. [NoCall EXCEPT !.kind = "flush", !.first = next_seq, !.last = next_seq - 1] \in Call
        <5>1. 0 \in 0..MaxBatch
          BY GroupCommitAssumption
        <5> QED BY <4>1, <5>1 DEF NoCall, Call
      <4> QED BY <1>1, <2>1, <4>2 DEF BeginFlush
    <3>2. pc' \in [Producers -> Locations]
      BY <1>1, <2>1 DEF BeginFlush, Locations
    <3> QED BY <2>1, <3>1, <3>2, TypeMove DEF BeginFlush
  <2>2. ASSUME NEW kind \in {"append", "append_batch"}, NEW n \in 1..MaxBatch,
               BeginAppend(p, kind, n)
        PROVE  TypeOK'
    <3>1. call' \in [Producers -> Call]
      <4>1. NeedsFsync(kind) \in BOOLEAN /\ n \in 0..MaxBatch
        BY GroupCommitAssumption DEF NeedsFsync
      <4>2. [NoCall EXCEPT !.kind = kind, !.todo = n, !.needs_fsync = NeedsFsync(kind)] \in Call
        BY <4>1 DEF NoCall, Call
      <4> QED BY <1>1, <2>2, <4>2 DEF BeginAppend
    <3>2. pc' \in [Producers -> Locations]
      BY <1>1, <2>2 DEF BeginAppend, Locations
    <3> QED BY <2>2, <3>1, <3>2, TypeMove DEF BeginAppend
  <2> QED BY <1>3, <2>1, <2>2 DEF Begin
<1>4. ASSUME NEW p \in Producers,
             Enqueue(p) \/ EnqueueWait(p) \/ EnqueueReject(p)
      PROVE  TypeOK'
  <2>1. Room \in Nat /\ call[p].todo \in Nat
    BY <1>1, RoomType, GroupCommitAssumption DEF Call
  <2>2. CASE Enqueue(p)
    <3>1. call[p].todo <= Room /\ Push(p, call[p].todo)
      BY <2>2 DEF Enqueue, Fits
    <3>2. pc' \in [Producers -> Locations]
      BY <1>1, <2>2 DEF Enqueue, Locations
    <3>3. UNCHANGED <<resolved_seq, errors, leader_active, group, written,
                      errors_local, store, refused, told, wronged, flushed>>
      BY <2>2 DEF Enqueue
    <3>4. \/ call' = [call EXCEPT ![p] = Pushed(p, call[p].todo)]
          \/ call' = [call EXCEPT ![p] = NoCall]
      BY <2>2 DEF Enqueue
    <3> QED BY <2>1, <3>1, <3>2, <3>3, <3>4, TypePush
  <2>3. CASE EnqueueWait(p)
    <3>1. Room <= call[p].todo /\ Push(p, Room)
      BY <2>1, <2>3 DEF EnqueueWait, Fits
    <3>2. pc' \in [Producers -> Locations]
      BY <1>1, <2>3 DEF EnqueueWait, Locations
    <3>3. UNCHANGED <<resolved_seq, errors, leader_active, group, written,
                      errors_local, store, refused, told, wronged, flushed>>
      BY <2>3 DEF EnqueueWait
    <3>4. \/ call' = [call EXCEPT ![p] = Pushed(p, Room)]
          \/ call' = [call EXCEPT ![p] = NoCall]
      BY <2>3 DEF EnqueueWait
    <3> QED BY <2>1, <3>1, <3>2, <3>3, <3>4, TypePush
  <2>4. CASE EnqueueReject(p)
    <3>1. Room <= call[p].todo /\ Push(p, Room)
      BY <2>1, <2>4 DEF EnqueueReject, Fits
    <3>2. pc' \in [Producers -> Locations]
      BY <1>1, <2>4 DEF EnqueueReject, Locations
    <3>3. UNCHANGED <<resolved_seq, errors, leader_active, group, written,
                      errors_local, store, refused, told, wronged, flushed>>
      BY <2>4 DEF EnqueueReject
    <3>4. \/ call' = [call EXCEPT ![p] = Pushed(p, Room)]
          \/ call' = [call EXCEPT ![p] = NoCall]
      BY <2>4 DEF EnqueueReject
    <3> QED BY <2>1, <3>1, <3>2, <3>3, <3>4, TypePush
  <2> QED BY <1>4, <2>2, <2>3, <2>4
<1>5. ASSUME NEW p \in Producers,
             \/ DriveResolved(p) \/ DriveWait(p) \/ NotifySpace(p) \/ NotifyDone(p)
             \/ RoomWait(p) \/ RoomFreed(p) \/ SpuriousWakeup(p)
      PROVE  TypeOK'
  <2>1. pc' \in [Producers -> Locations]
    BY <1>1, <1>5 DEF DriveResolved, DriveWait, NotifySpace, NotifyDone, RoomWait,
                      RoomFreed, SpuriousWakeup, Locations, Leading
  <2>2. UNCHANGED <<ingest, call, group, written, errors_local, store, history>>
    BY <1>5 DEF DriveResolved, DriveWait, NotifySpace, NotifyDone, RoomWait,
                RoomFreed, SpuriousWakeup
  <2> QED BY <1>1, <2>1, <2>2, TypeMove
<1>6. ASSUME NEW p \in Producers, DriveLead(p) PROVE TypeOK'
  <2>1. pc' \in [Producers -> Locations] /\ group' \in [Producers -> Seq(Pending)]
    BY <1>1, <1>6 DEF DriveLead, Locations, Leading
  <2>2. queue' \in Seq(Pending) /\ Len(queue') <= MaxBufferedRecords
    BY <1>6, GroupCommitAssumption DEF DriveLead
  <2>3. leader_active' \in BOOLEAN
    BY <1>6 DEF DriveLead
  <2>4. UNCHANGED <<log, active_base, durable, refused, mustSync, told, wronged, flushed>>
    BY <1>6 DEF DriveLead, store, history
  <2> QED BY <1>6, <2>1, <2>2, <2>3, <2>4 DEF DriveLead, TypeOK
<1>7. ASSUME NEW p \in Producers, WriteRecord(p) PROVE TypeOK'
  <2>1. Current(p) \in Seqs
    BY <1>7, CurrentType DEF WriteRecord
  <2>2. log' \in Seq(Seqs) /\ active_base' \in Nat /\ written' \in [Producers -> Nat]
    BY <1>1, <1>2, <1>7, <2>1 DEF WriteRecord
  <2>3. UNCHANGED <<queue, next_seq, resolved_seq, errors, leader_active,
                    refused, mustSync, told, wronged, flushed>>
    BY <1>7 DEF WriteRecord, ingest, history
  <2> QED BY <1>7, <2>2, <2>3 DEF WriteRecord, TypeOK
<1>8. ASSUME NEW p \in Producers, RefuseRecord(p) PROVE TypeOK'
  <2>1. Current(p) \in Seqs
    BY <1>8, CurrentType DEF RefuseRecord
  <2>2. written' \in [Producers -> Nat] /\ errors_local' \in [Producers -> SUBSET Seqs]
    BY <1>1, <1>8, <2>1 DEF RefuseRecord
  <2>3. refused' \subseteq Seqs
    BY <1>8, <2>1 DEF RefuseRecord, TypeOK
  <2>4. UNCHANGED <<queue, next_seq, resolved_seq, errors, leader_active,
                    log, active_base, durable>>
    BY <1>8 DEF RefuseRecord, ingest, store
  <2> QED BY <1>8, <2>2, <2>3, <2>4 DEF RefuseRecord, TypeOK
<1>9. ASSUME NEW p \in Producers, FinishGroup(p) PROVE TypeOK'
  <2>1. durable' \subseteq Seqs
    BY <1>2, <1>9, ActiveSegmentType DEF FinishGroup
  <2>2. pc' \in [Producers -> Locations]
    BY <1>1, <1>9 DEF FinishGroup, Locations, Leading
  <2>3. UNCHANGED <<queue, next_seq, resolved_seq, errors, leader_active,
                    refused, mustSync, told, wronged, flushed>>
    BY <1>9 DEF FinishGroup, ingest, history
  <2> QED BY <1>9, <2>1, <2>2, <2>3 DEF FinishGroup, TypeOK
<1>10. ASSUME NEW p \in Producers, Resolve(p) PROVE TypeOK'
  <2>1. resolved_seq' \in Nat
    BY <1>2, <1>10, MaxOfType DEF Resolve
  <2>2. errors' \subseteq Seqs
    BY <1>1, <1>10 DEF Resolve, TypeOK
  <2>3. /\ pc' \in [Producers -> Locations] /\ group' \in [Producers -> Seq(Pending)]
        /\ written' \in [Producers -> Nat] /\ errors_local' \in [Producers -> SUBSET Seqs]
    <3>1. <<>> \in Seq(Pending)
      OBVIOUS
    <3> QED BY <1>1, <1>10, <3>1 DEF Resolve, Locations
  <2>4. leader_active' \in BOOLEAN
    BY <1>10 DEF Resolve
  <2>5. UNCHANGED <<log, active_base, durable, refused, mustSync, told, wronged, flushed>>
    BY <1>10 DEF Resolve, store, history
  <2> QED BY <1>10, <2>1, <2>2, <2>3, <2>4, <2>5 DEF Resolve, TypeOK
<1>11. ASSUME NEW p \in Producers, TakeResult(p) PROVE TypeOK'
  <2>1. call[p].mine \subseteq Seqs
    BY <1>1 DEF Call
  <2>2. errors' \subseteq Seqs /\ told' \subseteq Seqs /\ wronged' \subseteq Seqs
    BY <1>11, <2>1 DEF TakeResult, TypeOK
  <2>3. pc' \in [Producers -> Locations] /\ call' \in [Producers -> Call]
    BY <1>0, <1>1, <1>11 DEF TakeResult, Locations
  <2>4. UNCHANGED <<log, active_base, durable>>
    BY <1>11 DEF TakeResult, store
  <2> QED BY <1>11, <2>2, <2>3, <2>4 DEF TakeResult, TypeOK
<1>12. ASSUME NEW p \in Producers, FlushSync(p) PROVE TypeOK'
  <2>1. durable' \subseteq Seqs
    BY <1>2, <1>12, ActiveSegmentType DEF FlushSync
  <2>2. flushed' \in Nat
    <3>1. call[p].first \in Nat /\ flushed \in Nat
      BY <1>1 DEF Call, TypeOK
    <3> QED BY <1>12, <3>1 DEF FlushSync
  <2>3. pc' \in [Producers -> Locations] /\ call' \in [Producers -> Call]
    BY <1>0, <1>1, <1>12 DEF FlushSync, Locations
  <2>4. UNCHANGED <<queue, next_seq, resolved_seq, errors, leader_active>>
    BY <1>12 DEF FlushSync, ingest
  <2> QED BY <1>12, <2>1, <2>2, <2>3, <2>4 DEF FlushSync, TypeOK
<1>13. CASE MaintenanceSync
  <2>1. durable' \subseteq Seqs
    BY <1>2, <1>13, ActiveSegmentType DEF MaintenanceSync
  <2>2. UNCHANGED <<queue, next_seq, resolved_seq, errors, leader_active, pc, call,
                    group, written, errors_local>>
    BY <1>13 DEF MaintenanceSync, ingest, locals
  <2>3. UNCHANGED <<refused, mustSync, told, wronged, flushed>>
    BY <1>13 DEF MaintenanceSync, history
  <2> QED BY <1>13, <2>1, <2>2, <2>3 DEF MaintenanceSync, TypeOK
<1>14. CASE UNCHANGED vars
  <2>1. UNCHANGED <<ingest, group, written, errors_local, store, history, pc, call>>
    BY <1>14 DEF vars, locals
  <2> QED BY <1>1, <2>1, TypeMove
<1> QED BY <1>3, <1>4, <1>5, <1>6, <1>7, <1>8, <1>9, <1>10, <1>11, <1>12, <1>13,
           <1>14 DEF Next, Step

(* In every reachable state the variables have their types, and the queue  *)
(* holds at most max_buffered_records records: a producer that pushes part *)
(* of a batch, waits and pushes again never passes the bound.              *)
THEOREM TypeCorrect == Spec => []TypeOK
BY TypeInit, TypeNext, PTL DEF Spec

-----------------------------------------------------------------------------
(* One leader.                                                             *)

(* A step at which nobody becomes a leader or stops being one.             *)
LEMMA SameLeaders ==
    ASSUME OneLeader, UNCHANGED leader_active,
           \A q \in Producers : pc'[q] \in Leading <=> pc[q] \in Leading
    PROVE  OneLeader'
<1>1. Leaders' = Leaders
  BY DEF Leaders
<1> QED BY <1>1 DEF OneLeader

(* Nobody leads at first, and every step leaves at most one leader, of     *)
(* whom leader_active knows.                                               *)
LEMMA OneLeaderNext == TypeOK /\ OneLeader /\ [Next]_vars => OneLeader'
<1> SUFFICES ASSUME TypeOK, OneLeader, [Next]_vars PROVE OneLeader'
  OBVIOUS
<1>1. pc \in [Producers -> Locations]
  BY DEF TypeOK
<1>2. ASSUME NEW p \in Producers,
             \/ Begin(p) \/ Enqueue(p) \/ EnqueueWait(p) \/ EnqueueReject(p)
             \/ TakeResult(p) \/ FlushSync(p) \/ DriveResolved(p) \/ DriveWait(p)
             \/ NotifySpace(p) \/ NotifyDone(p) \/ RoomWait(p) \/ RoomFreed(p)
             \/ FinishGroup(p) \/ SpuriousWakeup(p)
      PROVE  OneLeader'
  <2>1. \A q \in Producers : pc'[q] \in Leading <=> pc[q] \in Leading
    <3>1. CASE \/ Begin(p) \/ Enqueue(p) \/ EnqueueWait(p) \/ EnqueueReject(p)
               \/ TakeResult(p) \/ FlushSync(p)
      BY <1>1, <3>1 DEF Begin, BeginAppend, BeginFlush, Enqueue, EnqueueWait,
                        EnqueueReject, TakeResult, FlushSync, Leading
    <3>2. CASE \/ DriveResolved(p) \/ DriveWait(p) \/ NotifySpace(p) \/ NotifyDone(p)
               \/ RoomWait(p) \/ RoomFreed(p) \/ FinishGroup(p) \/ SpuriousWakeup(p)
      BY <1>1, <3>2 DEF DriveResolved, DriveWait, NotifySpace, NotifyDone, RoomWait,
                        RoomFreed, FinishGroup, SpuriousWakeup, Leading
    <3> QED BY <1>2, <3>1, <3>2
  <2>2. UNCHANGED leader_active
    BY <1>2 DEF Begin, BeginAppend, BeginFlush, Enqueue, EnqueueWait, EnqueueReject,
                TakeResult, FlushSync, DriveResolved, DriveWait, NotifySpace,
                NotifyDone, RoomWait, RoomFreed, FinishGroup, SpuriousWakeup, ingest
  <2> QED BY <2>1, <2>2, SameLeaders
<1>3. ASSUME NEW p \in Producers, DriveLead(p) PROVE OneLeader'
  <2>1. Leaders = {}
    BY <1>3 DEF DriveLead, OneLeader
  <2>2. Leaders' = {p}
    <3>1. pc'[p] \in Leading
      BY <1>1, <1>3 DEF DriveLead, Leading
    <3>2. \A q \in Producers : q # p => pc'[q] \notin Leading
      BY <1>1, <1>3, <2>1 DEF DriveLead, Leaders
    <3> QED BY <3>1, <3>2 DEF Leaders
  <2>3. leader_active'
    BY <1>3 DEF DriveLead
  <2> QED BY <2>2, <2>3 DEF OneLeader
<1>4. ASSUME NEW p \in Producers, WriteRecord(p) \/ RefuseRecord(p) PROVE OneLeader'
  <2>1. UNCHANGED <<pc, leader_active>>
    BY <1>4 DEF WriteRecord, RefuseRecord, ingest
  <2> QED BY <2>1, SameLeaders
<1>5. ASSUME NEW p \in Producers, Resolve(p) PROVE OneLeader'
  <2>1. p \in Leaders
    BY <1>5 DEF Resolve, Leaders, Leading
  <2>2. Leaders' = {}
    <3>1. \A q \in Producers : q # p => pc[q] \notin Leading
      BY <2>1 DEF OneLeader, Leaders
    <3>2. \A q \in Producers : pc'[q] \notin Leading
      BY <1>1, <1>5, <3>1 DEF Resolve, Leading
    <3> QED BY <3>2 DEF Leaders
  <2>3. ~leader_active'
    BY <1>5 DEF Resolve
  <2> QED BY <2>2, <2>3 DEF OneLeader
<1>6. CASE MaintenanceSync \/ UNCHANGED vars
  <2>1. UNCHANGED <<pc, leader_active>>
    BY <1>6 DEF MaintenanceSync, vars, locals, ingest
  <2> QED BY <2>1, SameLeaders
<1> QED BY <1>2, <1>3, <1>4, <1>5, <1>6 DEF Next, Step

(* Two producers never write to the store at the same time: leader_active  *)
(* keeps the leader alone although it writes outside the ingest lock.      *)
THEOREM OneLeaderCorrect == Spec => []OneLeader
<1>1. Init => OneLeader
  BY DEF Init, OneLeader, Leaders, Leading
<1> QED BY <1>1, TypeCorrect, OneLeaderNext, PTL DEF Spec

-----------------------------------------------------------------------------
(* The order of the log.                                                   *)

(* A step that neither submits, drains, writes, refuses nor resolves.      *)
LEMMA SameOrder ==
    ASSUME OrderInv, UNCHANGED <<queue, next_seq, resolved_seq, group, written, log, refused>>,
           \A q \in Producers : pc'[q] \in Leading <=> pc[q] \in Leading,
           \A q \in Producers : pc'[q] = "resolve" => \/ pc[q] = "resolve"
                                                     \/ written[q] = Len(group[q])
    PROVE  OrderInv'
<1>1. Leaders' = Leaders
  BY DEF Leaders
<1>2. Decided' = Decided /\ QueueIsTail' /\ SubmissionOrder'
  BY DEF Decided, QueueIsTail, SubmissionOrder, OrderInv
<1>3. \A q \in Leaders : Between(q)'
  <2> SUFFICES ASSUME NEW q \in Leaders PROVE Between(q)'
    OBVIOUS
  <2>1. q \in Producers /\ Between(q)
    BY DEF Leaders, OrderInv
  <2>2. pc'[q] = "resolve" => written'[q] = Len(group'[q])
    BY <2>1 DEF Between
  <2> QED BY <1>2, <2>1, <2>2 DEF Between
<1>4. NoneBetween => NoneBetween'
  BY <1>2 DEF NoneBetween
<1> QED BY <1>1, <1>2, <1>3, <1>4 DEF OrderInv

(* Pushing k records extends the tail.                                     *)
LEMMA PushOrder ==
    ASSUME TypeOK, OrderInv, NEW p \in Producers, NEW k \in Nat, k <= Room, Push(p, k),
           UNCHANGED <<resolved_seq, group, written, log, refused>>,
           \A q \in Producers : pc'[q] \in Leading <=> pc[q] \in Leading,
           \A q \in Producers : pc'[q] = "resolve" => pc[q] = "resolve"
    PROVE  OrderInv'
<1>1. /\ queue \in Seq(Pending) /\ Len(queue) \in Nat
      /\ next_seq \in Nat \ {0} /\ resolved_seq \in Nat
  BY DEF TypeOK, Seqs
<1>2. /\ Fresh(p, k) \in Seq(Pending) /\ Len(Fresh(p, k)) = k
      /\ \A i \in 1..k : Fresh(p, k)[i].seq = next_seq + i - 1
  BY FreshType
<1>3. queue' = queue \o Fresh(p, k)
  BY DEF Push
<1>4. next_seq' = next_seq + k
  BY DEF Push
<1>5. Len(queue') = Len(queue) + k
  BY <1>3, PushQueue
<1>6. QueueIsTail'
  <2> SUFFICES ASSUME NEW i \in 1..Len(queue')
               PROVE  queue'[i].seq + Len(queue') = next_seq' - 1 + i
    BY DEF QueueIsTail
  <2>1. CASE i \in 1..Len(queue)
    <3>1. queue'[i] = queue[i] /\ queue[i].seq \in Nat
      <4>1. queue[i] \in Pending
        BY <1>1, <2>1
      <4> QED BY <1>1, <1>2, <1>3, <2>1, <4>1 DEF Pending, Seqs
    <3>2. queue[i].seq + Len(queue) = next_seq - 1 + i
      BY <2>1 DEF OrderInv, QueueIsTail
    <3>3. i \in Nat /\ Len(queue) \in Nat /\ next_seq \in Nat
      BY <1>1, <2>1
    <3>4. queue'[i].seq = queue[i].seq /\ queue[i].seq \in Nat
      BY <3>1
    <3>5. queue[i].seq + (Len(queue) + k) = (next_seq + k) - 1 + i
      <4> DEFINE s == queue[i].seq
                 l == Len(queue)
      <4>1. s \in Nat /\ l \in Nat /\ s + l = next_seq - 1 + i
        BY <3>2, <3>3, <3>4
      <4> HIDE DEF s, l
      <4>2. s + (l + k) = (next_seq + k) - 1 + i
        BY <3>3, <4>1
      <4> QED BY <4>2 DEF s, l
    <3> QED BY <1>4, <1>5, <3>4, <3>5
  <2>2. CASE i \notin 1..Len(queue)
    <3>1. i - Len(queue) \in 1..k
      BY <1>1, <1>5, <2>2
    <3>2. queue'[i] = Fresh(p, k)[i - Len(queue)]
      BY <1>1, <1>2, <1>3, <1>5, <2>2
    <3> QED BY <1>1, <1>2, <1>5, <1>4, <3>1, <3>2
  <2> QED BY <2>1, <2>2
<1>7. Leaders' = Leaders /\ Decided' = Decided /\ SubmissionOrder'
  <2>1. Leaders' = Leaders
    BY DEF Leaders
  <2> QED BY <2>1 DEF Decided, SubmissionOrder, OrderInv
<1>8. \A q \in Leaders : Between(q)'
  <2> SUFFICES ASSUME NEW q \in Leaders PROVE Between(q)'
    OBVIOUS
  <2>1. q \in Producers /\ Between(q) /\ Len(group[q]) \in Nat
    BY DEF Leaders, OrderInv, TypeOK
  <2>2. resolved_seq' + Len(group'[q]) + Len(queue') + 1 = next_seq'
    <3>1. resolved_seq + Len(group[q]) + Len(queue) + 1 = next_seq
      BY <2>1 DEF Between
    <3> QED BY <1>1, <1>5, <1>4, <2>1, <3>1
  <2>3. pc'[q] = "resolve" => written'[q] = Len(group'[q])
    BY <2>1 DEF Between
  <2> QED BY <1>7, <2>1, <2>2, <2>3 DEF Between
<1>9. NoneBetween => NoneBetween'
  <2>1. resolved_seq + Len(queue) + 1 = next_seq => resolved_seq' + Len(queue') + 1 = next_seq'
    <3>1. Len(queue) \in Nat /\ next_seq \in Nat /\ resolved_seq \in Nat
      BY <1>1
    <3> QED BY <1>5, <1>4, <3>1
  <2> QED BY <1>7, <2>1 DEF NoneBetween
<1> QED BY <1>6, <1>7, <1>8, <1>9 DEF OrderInv

(* The leader takes the whole tail between the decided ones and the queue. *)
LEMMA LeadOrder ==
    ASSUME TypeOK, OneLeader, OrderInv, NEW p \in Producers, DriveLead(p)
    PROVE  OrderInv'
<1>1. /\ queue \in Seq(Pending) /\ Len(queue) \in Nat
      /\ next_seq \in Nat \ {0} /\ resolved_seq \in Nat
      /\ pc \in [Producers -> Locations] /\ group \in [Producers -> Seq(Pending)]
  BY DEF TypeOK, Seqs
<1>2. Leaders = {} /\ NoneBetween
  BY DEF DriveLead, OneLeader, OrderInv
<1>3. Leaders' = {p}
  <2>1. pc'[p] \in Leading
    BY <1>1 DEF DriveLead, Leading
  <2>2. \A q \in Producers : q # p => pc'[q] \notin Leading
    BY <1>1, <1>2 DEF DriveLead, Leaders
  <2> QED BY <2>1, <2>2 DEF Leaders
<1>4. /\ group'[p] = queue /\ queue' = <<>> /\ written'[p] = 0 /\ written[p] = 0
      /\ pc'[p] # "resolve"
  BY <1>1, <1>2 DEF DriveLead, OrderInv
<1>5. UNCHANGED <<next_seq, resolved_seq, written, log, refused>>
  BY DEF DriveLead, store, history
<1>6. Decided' = Decided /\ SubmissionOrder' /\ QueueIsTail'
  BY <1>4, <1>5 DEF Decided, SubmissionOrder, QueueIsTail, OrderInv
<1>7. Between(p)'
  <2>1. \A i \in 1..Len(queue) : queue[i].seq = resolved_seq + i
    <3> SUFFICES ASSUME NEW i \in 1..Len(queue) PROVE queue[i].seq = resolved_seq + i
      OBVIOUS
    <3>1. queue[i].seq \in Nat
      <4>1. queue[i] \in Pending
        BY <1>1
      <4> QED BY <4>1 DEF Pending, Seqs
    <3>2. queue[i].seq + Len(queue) = next_seq - 1 + i
      BY DEF OrderInv, QueueIsTail
    <3>3. resolved_seq + Len(queue) + 1 = next_seq
      BY <1>2 DEF NoneBetween
    <3>4. i \in Nat /\ Len(queue) \in Nat /\ next_seq \in Nat /\ resolved_seq \in Nat
      BY <1>1
    <3> QED BY <3>1, <3>2, <3>3, <3>4
  <2>2. resolved_seq + Len(queue) + 0 + 1 = next_seq
    BY <1>1, <1>2 DEF NoneBetween
  <2>3. Decided = 1 .. resolved_seq + 0
    BY <1>1, <1>2 DEF NoneBetween
  <2> QED BY <1>1, <1>4, <1>5, <1>6, <2>1, <2>2, <2>3 DEF Between
<1>8. \A q \in Producers \ Leaders' : group'[q] = <<>> /\ written'[q] = 0
  BY <1>1, <1>2, <1>3, <1>5 DEF DriveLead, OrderInv
<1> QED BY <1>3, <1>6, <1>7, <1>8, <1>5 DEF OrderInv

(* What a leader writes next is the first undecided sequence, and nobody   *)
(* else leads.                                                             *)
LEMMA WriterFacts ==
    ASSUME TypeOK, OneLeader, OrderInv, NEW p \in Producers, pc[p] = "write",
           written[p] < Len(group[p])
    PROVE  /\ Leaders = {p} /\ Between(p)
           /\ written[p] \in Nat /\ resolved_seq \in Nat /\ Len(group[p]) \in Nat
           /\ Current(p) = resolved_seq + written[p] + 1
           /\ Decided \union {Current(p)} = 1 .. resolved_seq + (written[p] + 1)
<1>1. p \in Leaders /\ Leaders = {p} /\ Between(p)
  BY DEF Leaders, Leading, OneLeader, OrderInv
<1>2. written[p] \in Nat /\ resolved_seq \in Nat /\ Len(group[p]) \in Nat
  BY DEF TypeOK
<1>3. written[p] + 1 \in 1..Len(group[p])
  BY <1>2
<1>4. Current(p) = resolved_seq + written[p] + 1
  BY <1>1, <1>2, <1>3 DEF Between, Current
<1>5. Decided = 1 .. resolved_seq + written[p]
  BY <1>1 DEF Between
<1>6. Decided \union {Current(p)} = 1 .. resolved_seq + (written[p] + 1)
  BY <1>2, <1>4, <1>5
<1> QED BY <1>1, <1>2, <1>4, <1>6

(* Deciding the next record, either way, keeps the decided ones an initial *)
(* part of the sequences.                                                  *)
LEMMA DecideOrder ==
    ASSUME TypeOK, OneLeader, OrderInv, NEW p \in Producers, pc[p] = "write",
           written[p] < Len(group[p]), written' = [written EXCEPT ![p] = @ + 1],
           Decided' = Decided \union {Current(p)},
           UNCHANGED <<queue, next_seq, resolved_seq, group, pc>>,
           SubmissionOrder'
    PROVE  OrderInv'
<1>1. /\ Leaders = {p} /\ Between(p)
      /\ written[p] \in Nat /\ resolved_seq \in Nat /\ Len(group[p]) \in Nat
      /\ Decided' = 1 .. resolved_seq + (written[p] + 1)
  BY WriterFacts
<1>2. written \in [Producers -> Nat]
  BY DEF TypeOK
<1>3. Leaders' = {p}
  BY <1>1 DEF Leaders
<1>4. written'[p] = written[p] + 1
  BY <1>2
<1>5. Between(p)'
  BY <1>1, <1>4 DEF Between
<1>6. \A q \in Producers \ Leaders' : group'[q] = <<>> /\ written'[q] = 0
  BY <1>1, <1>2, <1>3 DEF OrderInv
<1>7. QueueIsTail'
  BY DEF OrderInv, QueueIsTail
<1> QED BY <1>3, <1>5, <1>6, <1>7 DEF OrderInv

(* The record written goes behind all the others.                          *)
LEMMA WriteOrder ==
    ASSUME TypeOK, OneLeader, OrderInv, NEW p \in Producers, WriteRecord(p)
    PROVE  OrderInv'
<1>1. /\ pc[p] = "write" /\ written[p] < Len(group[p])
      /\ log' = Append(log, Current(p)) /\ written' = [written EXCEPT ![p] = @ + 1]
      /\ UNCHANGED <<group, pc>>
  BY DEF WriteRecord
<1>2. UNCHANGED <<queue, next_seq, resolved_seq, refused>>
  BY DEF WriteRecord, ingest, history
<1>3. log \in Seq(Seqs) /\ Current(p) \in Seqs /\ Len(log) \in Nat
  BY <1>1, CurrentType DEF TypeOK
<1>4. /\ Len(log') = Len(log) + 1
      /\ \A i \in 1..Len(log) : log'[i] = log[i]
      /\ log'[Len(log) + 1] = Current(p)
  BY <1>1, <1>3
<1>5. {log'[i] : i \in 1..Len(log')} = {log[i] : i \in 1..Len(log)} \union {Current(p)}
  <2>1. \A i : i \in 1..Len(log') <=> i \in 1..Len(log) \/ i = Len(log) + 1
    BY <1>3, <1>4
  <2> QED BY <1>4, <2>1
<1>6. Decided' = Decided \union {Current(p)}
  BY <1>2, <1>5 DEF Decided
<1>7. SubmissionOrder'
  <2>1. /\ written[p] \in Nat /\ resolved_seq \in Nat
        /\ Decided = 1 .. resolved_seq + written[p]
        /\ Current(p) = resolved_seq + written[p] + 1
    BY <1>1, WriterFacts DEF Between
  <2>2. \A i \in 1..Len(log) : log[i] < Current(p)
    <3> SUFFICES ASSUME NEW i \in 1..Len(log) PROVE log[i] < Current(p)
      OBVIOUS
    <3>1. log[i] \in Decided
      BY DEF Decided
    <3>2. log[i] \in 1 .. resolved_seq + written[p]
      BY <2>1, <3>1
    <3> QED BY <2>1, <3>2
  <2>3. SubmissionOrder
    BY DEF OrderInv
  <2> SUFFICES ASSUME NEW i \in 1..Len(log'), NEW j \in 1..Len(log'), i < j
               PROVE  log'[i] < log'[j]
    BY DEF SubmissionOrder
  <2>4. i \in 1..Len(log)
    BY <1>3, <1>4
  <2>5. j \in 1..Len(log) \/ j = Len(log) + 1
    BY <1>3, <1>4
  <2> QED BY <1>4, <2>2, <2>3, <2>4, <2>5 DEF SubmissionOrder
<1> QED BY <1>1, <1>2, <1>6, <1>7, DecideOrder

(* A refused record leaves no trace in the log.                            *)
LEMMA RefuseOrder ==
    ASSUME TypeOK, OneLeader, OrderInv, NEW p \in Producers, RefuseRecord(p)
    PROVE  OrderInv'
<1>1. /\ pc[p] = "write" /\ written[p] < Len(group[p])
      /\ refused' = refused \union {Current(p)}
      /\ written' = [written EXCEPT ![p] = @ + 1]
      /\ UNCHANGED <<group, pc>>
  BY DEF RefuseRecord
<1>2. UNCHANGED <<queue, next_seq, resolved_seq, log>>
  BY DEF RefuseRecord, ingest, store
<1>3. Decided' = Decided \union {Current(p)}
  BY <1>1, <1>2 DEF Decided
<1>4. SubmissionOrder'
  BY <1>2 DEF OrderInv, SubmissionOrder
<1> QED BY <1>1, <1>2, <1>3, <1>4, DecideOrder

(* Resolving a group makes the decided sequences the resolved ones.        *)
LEMMA ResolveOrder ==
    ASSUME TypeOK, OneLeader, OrderInv, NEW p \in Producers, Resolve(p)
    PROVE  OrderInv'
<1>1. /\ pc \in [Producers -> Locations] /\ group \in [Producers -> Seq(Pending)]
      /\ written \in [Producers -> Nat]
      /\ resolved_seq \in Nat /\ Len(group[p]) \in Nat /\ Len(queue) \in Nat
  BY DEF TypeOK
<1>2. p \in Leaders /\ Leaders = {p} /\ Between(p)
  BY DEF Resolve, Leaders, Leading, OneLeader, OrderInv
<1>3. Leaders' = {}
  <2>1. \A q \in Producers : q # p => pc[q] \notin Leading
    BY <1>2 DEF Leaders
  <2>2. \A q \in Producers : pc'[q] \notin Leading
    BY <1>1, <2>1 DEF Resolve, Leading
  <2> QED BY <2>2 DEF Leaders
<1>4. resolved_seq' = resolved_seq + Len(group[p])
  <2>1. CASE group[p] = <<>>
    BY <1>1, <2>1 DEF Resolve, MaxOf
  <2>2. CASE group[p] # <<>>
    <3>1. Len(group[p]) \in 1..Len(group[p])
      BY <1>1, <2>2
    <3>2. MaxOf(group[p]) = resolved_seq + Len(group[p])
      BY <1>2, <2>2, <3>1 DEF MaxOf, Between
    <3>3. resolved_seq + Len(group[p]) > resolved_seq
      BY <1>1, <3>1
    <3> QED BY <3>2, <3>3 DEF Resolve
  <2> QED BY <2>1, <2>2
<1>5. UNCHANGED <<queue, next_seq, log, refused>>
  BY DEF Resolve, store, history
<1>6. Decided' = Decided /\ QueueIsTail' /\ SubmissionOrder'
  BY <1>5 DEF Decided, QueueIsTail, SubmissionOrder, OrderInv
<1>7. NoneBetween'
  <2>1. /\ resolved_seq + Len(group[p]) + Len(queue) + 1 = next_seq
        /\ Decided = 1 .. resolved_seq + Len(group[p])
    BY <1>2 DEF Between, Resolve
  <2> QED BY <1>4, <1>5, <1>6, <2>1 DEF NoneBetween
<1>8. \A q \in Producers : group'[q] = <<>> /\ written'[q] = 0
  BY <1>1, <1>2 DEF Resolve, OrderInv
<1> QED BY <1>3, <1>6, <1>7, <1>8 DEF OrderInv

(* Every step keeps the order.                                             *)
LEMMA OrderNext == TypeOK /\ OneLeader /\ OrderInv /\ [Next]_vars => OrderInv'
<1> SUFFICES ASSUME TypeOK, OneLeader, OrderInv, [Next]_vars PROVE OrderInv'
  OBVIOUS
<1>1. pc \in [Producers -> Locations]
  BY DEF TypeOK
<1>2. ASSUME NEW p \in Producers,
             \/ Begin(p) \/ TakeResult(p) \/ FlushSync(p) \/ DriveResolved(p)
             \/ DriveWait(p) \/ NotifySpace(p) \/ NotifyDone(p) \/ RoomWait(p)
             \/ RoomFreed(p) \/ FinishGroup(p) \/ SpuriousWakeup(p)
      PROVE  OrderInv'
  <2>1. CASE Begin(p) \/ TakeResult(p) \/ FlushSync(p)
    <3>1. UNCHANGED <<queue, next_seq, resolved_seq, group, written, log, refused>>
      BY <2>1 DEF Begin, BeginAppend, BeginFlush, TakeResult, FlushSync, ingest,
                  store, history
    <3>2. \A q \in Producers : pc'[q] \in Leading <=> pc[q] \in Leading
      BY <1>1, <2>1 DEF Begin, BeginAppend, BeginFlush, TakeResult, FlushSync, Leading
    <3>3. \A q \in Producers : pc'[q] = "resolve" => pc[q] = "resolve"
      BY <1>1, <2>1 DEF Begin, BeginAppend, BeginFlush, TakeResult, FlushSync
    <3> QED BY <3>1, <3>2, <3>3, SameOrder
  <2>2. CASE \/ DriveResolved(p) \/ DriveWait(p) \/ NotifySpace(p) \/ NotifyDone(p)
             \/ RoomWait(p) \/ RoomFreed(p) \/ FinishGroup(p) \/ SpuriousWakeup(p)
    <3>1. UNCHANGED <<queue, next_seq, resolved_seq, group, written, log, refused>>
      BY <2>2 DEF DriveResolved, DriveWait, NotifySpace, NotifyDone, RoomWait,
                  RoomFreed, FinishGroup, SpuriousWakeup, ingest, store, history
    <3>2. \A q \in Producers : pc'[q] \in Leading <=> pc[q] \in Leading
      BY <1>1, <2>2 DEF DriveResolved, DriveWait, NotifySpace, NotifyDone, RoomWait,
                        RoomFreed, FinishGroup, SpuriousWakeup, Leading
    <3>3. \A q \in Producers : pc'[q] = "resolve" => \/ pc[q] = "resolve"
                                                    \/ written[q] = Len(group[q])
      BY <1>1, <2>2 DEF DriveResolved, DriveWait, NotifySpace, NotifyDone, RoomWait,
                        RoomFreed, FinishGroup, SpuriousWakeup
    <3> QED BY <3>1, <3>2, <3>3, SameOrder
  <2> QED BY <1>2, <2>1, <2>2
<1>3. ASSUME NEW p \in Producers, Enqueue(p) \/ EnqueueWait(p) \/ EnqueueReject(p)
      PROVE  OrderInv'
  <2>1. Room \in Nat /\ call[p].todo \in Nat
    <3>1. call[p] \in Call
      BY DEF TypeOK
    <3> QED BY <3>1, RoomType, GroupCommitAssumption DEF Call
  <2>2. UNCHANGED <<resolved_seq, group, written, log, refused>>
    BY <1>3 DEF Enqueue, EnqueueWait, EnqueueReject, store
  <2>3. \A q \in Producers : pc'[q] \in Leading <=> pc[q] \in Leading
    BY <1>1, <1>3 DEF Enqueue, EnqueueWait, EnqueueReject, Leading
  <2>4. \A q \in Producers : pc'[q] = "resolve" => pc[q] = "resolve"
    BY <1>1, <1>3 DEF Enqueue, EnqueueWait, EnqueueReject
  <2>5. CASE Enqueue(p)
    <3>1. call[p].todo <= Room /\ Push(p, call[p].todo)
      BY <2>5 DEF Enqueue, Fits
    <3> QED BY <2>1, <2>2, <2>3, <2>4, <3>1, PushOrder
  <2>6. CASE EnqueueWait(p) \/ EnqueueReject(p)
    <3>1. Room <= Room /\ Push(p, Room)
      BY <2>1, <2>6 DEF EnqueueWait, EnqueueReject
    <3> QED BY <2>1, <2>2, <2>3, <2>4, <3>1, PushOrder
  <2> QED BY <1>3, <2>5, <2>6
<1>4. CASE MaintenanceSync \/ UNCHANGED vars
  <2>1. UNCHANGED <<queue, next_seq, resolved_seq, group, written, log, refused, pc>>
    BY <1>4 DEF MaintenanceSync, vars, ingest, locals, store, history
  <2> QED BY <2>1, SameOrder
<1> QED BY <1>2, <1>3, <1>4, LeadOrder, WriteOrder, RefuseOrder, ResolveOrder
        DEF Next, Step

(* Nothing is submitted at first.                                          *)
LEMMA OrderInit == Init => OrderInv
<1> SUFFICES ASSUME Init PROVE OrderInv
  OBVIOUS
<1>1. /\ queue = <<>> /\ next_seq = 1 /\ resolved_seq = 0 /\ log = <<>> /\ refused = {}
      /\ \A p \in Producers : pc[p] = "idle" /\ group[p] = <<>> /\ written[p] = 0
  BY DEF Init
<1>2. Leaders = {}
  BY <1>1 DEF Leaders, Leading
<1>3. QueueIsTail /\ SubmissionOrder
  BY <1>1 DEF QueueIsTail, SubmissionOrder
<1>4. NoneBetween
  BY <1>1 DEF NoneBetween, Decided
<1> QED BY <1>1, <1>2, <1>3, <1>4 DEF OrderInv

(* The resolved sequences, the leader's group and the queue are always     *)
(* consecutive, whoever leads and however batches interleave.              *)
THEOREM OrderInvCorrect == Spec => []OrderInv
BY OrderInit, OrderNext, TypeCorrect, OneLeaderCorrect, PTL DEF Spec

(* The log holds the records in the order they were submitted, and none of *)
(* them twice, for any number of producers and any policy.                 *)
THEOREM SubmissionOrderCorrect == Spec => []SubmissionOrder
<1>1. OrderInv => SubmissionOrder
  BY DEF OrderInv
<1> QED BY <1>1, OrderInvCorrect, PTL

(* drive_until leaves a producer go only when its record was written or    *)
(* refused: resolved_seq never runs ahead of the store.                    *)
THEOREM ResolvedIsDecidedCorrect == Spec => []ResolvedIsDecided
<1>1. TypeOK /\ OrderInv => ResolvedIsDecided
  <2> SUFFICES ASSUME TypeOK, OrderInv, NEW s \in 1..resolved_seq
               PROVE  s \in refused \/ \E i \in 1..Len(log) : log[i] = s
    BY DEF ResolvedIsDecided
  <2>1. resolved_seq \in Nat /\ written \in [Producers -> Nat]
    BY DEF TypeOK
  <2>2. s \in Decided
    <3>1. CASE Leaders = {}
      BY <3>1 DEF OrderInv, NoneBetween
    <3>2. ASSUME NEW p \in Leaders PROVE s \in Decided
      <4>1. Decided = 1 .. resolved_seq + written[p] /\ written[p] \in Nat
        BY <2>1, <3>2 DEF OrderInv, Between, Leaders
      <4> QED BY <2>1, <4>1
    <3> QED BY <3>1, <3>2
  <2> QED BY <2>2 DEF Decided
<1> QED BY <1>1, TypeCorrect, OrderInvCorrect, PTL

-----------------------------------------------------------------------------
(* Refinement.                                                             *)

(* The leader, if there is one, is the one Handled chooses.                *)
LEMMA HandledIs ==
    ASSUME OneLeader
    PROVE  /\ Leaders = {} => Handled = resolved_seq
           /\ \A p \in Leaders : Handled = resolved_seq + written[p]
<1>1. Leaders = {} => Handled = resolved_seq
  BY DEF Handled
<1>2. ASSUME NEW p \in Leaders PROVE Handled = resolved_seq + written[p]
  <2>1. Leaders = {p}
    BY <1>2 DEF OneLeader
  <2>2. (CHOOSE q \in Leaders : TRUE) = p
    BY <2>1
  <2> QED BY <2>1, <2>2 DEF Handled
<1> QED BY <1>1, <1>2

(* A step that handles nothing and resolves nothing.                       *)
LEMMA SameHandled ==
    ASSUME UNCHANGED <<resolved_seq, written>>,
           \A q \in Producers : pc'[q] \in Leading <=> pc[q] \in Leading
    PROVE  Handled' = Handled
<1>1. Leaders' = Leaders
  BY DEF Leaders
<1> QED BY <1>1 DEF Handled

(* Every step of a producer is a step of the one writer, or none.          *)
LEMMA OrderedStep ==
    ASSUME TypeOK, OneLeader, OrderInv, OneLeader', [Next]_vars
    PROVE  [Ordered!Next]_(Ordered!vars)
<1>1. /\ pc \in [Producers -> Locations] /\ written \in [Producers -> Nat]
      /\ group \in [Producers -> Seq(Pending)] /\ queue \in Seq(Pending)
      /\ resolved_seq \in Nat /\ next_seq \in Nat \ {0} /\ Len(queue) \in Nat
  BY DEF TypeOK, Seqs
<1>2. ASSUME UNCHANGED <<next_seq, resolved_seq, Handled, log, refused>>
      PROVE  [Ordered!Next]_(Ordered!vars)
  BY <1>2 DEF Ordered!vars
<1>3. ASSUME NEW p \in Producers,
             \/ Begin(p) \/ TakeResult(p) \/ FlushSync(p) \/ DriveResolved(p)
             \/ DriveWait(p) \/ NotifySpace(p) \/ NotifyDone(p) \/ RoomWait(p)
             \/ RoomFreed(p) \/ FinishGroup(p) \/ SpuriousWakeup(p)
      PROVE  UNCHANGED <<next_seq, resolved_seq, Handled, log, refused>>
  <2>1. CASE Begin(p) \/ TakeResult(p) \/ FlushSync(p)
    <3>1. UNCHANGED <<next_seq, resolved_seq, written, log, refused>>
      BY <2>1 DEF Begin, BeginAppend, BeginFlush, TakeResult, FlushSync, ingest,
                  store, history
    <3>2. \A q \in Producers : pc'[q] \in Leading <=> pc[q] \in Leading
      BY <1>1, <2>1 DEF Begin, BeginAppend, BeginFlush, TakeResult, FlushSync, Leading
    <3> QED BY <3>1, <3>2, SameHandled
  <2>2. CASE \/ DriveResolved(p) \/ DriveWait(p) \/ NotifySpace(p) \/ NotifyDone(p)
             \/ RoomWait(p) \/ RoomFreed(p) \/ FinishGroup(p) \/ SpuriousWakeup(p)
    <3>1. UNCHANGED <<next_seq, resolved_seq, written, log, refused>>
      BY <2>2 DEF DriveResolved, DriveWait, NotifySpace, NotifyDone, RoomWait,
                  RoomFreed, FinishGroup, SpuriousWakeup, ingest, store, history
    <3>2. \A q \in Producers : pc'[q] \in Leading <=> pc[q] \in Leading
      BY <1>1, <2>2 DEF DriveResolved, DriveWait, NotifySpace, NotifyDone, RoomWait,
                        RoomFreed, FinishGroup, SpuriousWakeup, Leading
    <3> QED BY <3>1, <3>2, SameHandled
  <2> QED BY <1>3, <2>1, <2>2
<1>4. ASSUME NEW p \in Producers, Enqueue(p) \/ EnqueueWait(p) \/ EnqueueReject(p)
      PROVE  [Ordered!Next]_(Ordered!vars)
  <2>1. Room \in Nat /\ call[p].todo \in Nat
    <3>1. call[p] \in Call
      BY DEF TypeOK
    <3> QED BY <3>1, RoomType, GroupCommitAssumption DEF Call
  <2>2. UNCHANGED <<resolved_seq, log, refused, written>>
    BY <1>4 DEF Enqueue, EnqueueWait, EnqueueReject, store
  <2>3. Handled' = Handled
    <3>1. \A q \in Producers : pc'[q] \in Leading <=> pc[q] \in Leading
      BY <1>1, <1>4 DEF Enqueue, EnqueueWait, EnqueueReject, Leading
    <3> QED BY <2>2, <3>1, SameHandled
  <2>4. PICK k \in Nat : next_seq' = next_seq + k
    <3>1. next_seq' = next_seq + call[p].todo \/ next_seq' = next_seq + Room
      BY <1>4 DEF Enqueue, EnqueueWait, EnqueueReject, Push
    <3> QED BY <2>1, <3>1
  <2>5. CASE next_seq' = next_seq
    BY <1>2, <2>2, <2>3, <2>5
  <2>6. CASE next_seq' # next_seq
    <3>1. next_seq' - 1 \in Nat /\ next_seq' - 1 > next_seq - 1
      BY <1>1, <2>4, <2>6
    <3>2. Ordered!Submit
      BY <2>2, <2>3, <3>1 DEF Ordered!Submit
    <3> QED BY <3>2 DEF Ordered!Next
  <2> QED BY <2>5, <2>6
<1>5. ASSUME NEW p \in Producers, DriveLead(p)
      PROVE  UNCHANGED <<next_seq, resolved_seq, Handled, log, refused>>
  <2>1. Leaders = {} /\ written[p] = 0
    BY <1>5 DEF DriveLead, OneLeader, OrderInv
  <2>2. UNCHANGED <<next_seq, resolved_seq, written, log, refused>>
    BY <1>5 DEF DriveLead, store, history
  <2>3. Leaders' = {p}
    <3>1. p \in Leaders'
      BY <1>1, <1>5 DEF DriveLead, Leaders, Leading
    <3> QED BY <3>1 DEF OneLeader
  <2>4. Handled' = resolved_seq' + written'[p]
    <3>1. (CHOOSE q \in {p} : TRUE) = p
      OBVIOUS
    <3> QED BY <2>3, <3>1 DEF Handled
  <2> QED BY <1>1, <2>1, <2>2, <2>4, HandledIs
<1>6. ASSUME NEW p \in Producers, WriteRecord(p) \/ RefuseRecord(p)
      PROVE  Ordered!Handle
  <2>1. /\ pc[p] = "write" /\ written[p] < Len(group[p])
        /\ written' = [written EXCEPT ![p] = @ + 1] /\ UNCHANGED pc
    BY <1>6 DEF WriteRecord, RefuseRecord
  <2>2. UNCHANGED <<next_seq, resolved_seq>>
    BY <1>6 DEF WriteRecord, RefuseRecord, ingest
  <2>3. /\ Leaders = {p} /\ written[p] \in Nat /\ Len(group[p]) \in Nat
        /\ resolved_seq + Len(group[p]) + Len(queue) + 1 = next_seq
        /\ Current(p) = resolved_seq + written[p] + 1
    BY <2>1, WriterFacts DEF Between
  <2>4. Handled = resolved_seq + written[p] /\ Handled' = Handled + 1
    <3>1. Leaders' = {p}
      BY <2>1, <2>3 DEF Leaders
    <3>2. (CHOOSE q \in {p} : TRUE) = p
      OBVIOUS
    <3>3. Handled = resolved_seq + written[p] /\ Handled' = resolved_seq + written'[p]
      BY <2>2, <2>3, <3>1, <3>2 DEF Handled
    <3>4. written'[p] = written[p] + 1
      BY <1>1, <2>1
    <3> QED BY <1>1, <2>3, <3>3, <3>4
  <2>5. Handled < next_seq - 1 /\ Handled' = Current(p)
    BY <1>1, <2>1, <2>3, <2>4
  <2>6. \/ log' = Append(log, Handled') /\ UNCHANGED refused
        \/ refused' = refused \union {Handled'} /\ UNCHANGED log
    <3>1. CASE WriteRecord(p)
      BY <2>5, <3>1 DEF WriteRecord, history
    <3>2. CASE RefuseRecord(p)
      BY <2>5, <3>2 DEF RefuseRecord, store
    <3> QED BY <1>6, <3>1, <3>2
  <2> QED BY <2>2, <2>4, <2>5, <2>6 DEF Ordered!Handle
<1>7. ASSUME NEW p \in Producers, Resolve(p)
      PROVE  [Ordered!Next]_(Ordered!vars)
  <2>1. p \in Leaders /\ Between(p) /\ written[p] = Len(group[p]) /\ Len(group[p]) \in Nat
    <3>1. pc[p] = "resolve"
      BY <1>7 DEF Resolve
    <3>2. p \in Leaders
      BY <3>1 DEF Leaders, Leading
    <3>3. Between(p)
      BY <1>1, <3>2 DEF OrderInv
    <3>4. Len(group[p]) \in Nat
      BY <1>1
    <3>5. written[p] = Len(group[p])
      BY <3>1, <3>3 DEF Between
    <3> QED BY <3>2, <3>3, <3>4, <3>5
  <2>2. Handled = resolved_seq + Len(group[p])
    BY <2>1, HandledIs
  <2>3. Leaders' = {}
    <3>1. ~leader_active'
      BY <1>7 DEF Resolve
    <3> QED BY <3>1 DEF OneLeader
  <2>4. resolved_seq' = Handled
    <3>1. CASE group[p] = <<>>
      BY <1>1, <1>7, <2>2, <3>1 DEF Resolve, MaxOf
    <3>2. CASE group[p] # <<>>
      <4>1. Len(group[p]) \in 1..Len(group[p])
        BY <1>1, <3>2
      <4>2. MaxOf(group[p]) = resolved_seq + Len(group[p])
        BY <2>1, <3>2, <4>1 DEF MaxOf, Between
      <4>3. resolved_seq + Len(group[p]) > resolved_seq
        BY <1>1, <4>1
      <4> QED BY <1>7, <2>2, <4>2, <4>3 DEF Resolve
    <3> QED BY <3>1, <3>2
  <2>5. Handled' = resolved_seq'
    BY <2>3 DEF Handled
  <2>6. UNCHANGED <<next_seq, log, refused>>
    BY <1>7 DEF Resolve, store, history
  <2>7. CASE Len(group[p]) = 0
    <3>1. resolved_seq' = resolved_seq /\ Handled' = Handled
      BY <1>1, <2>2, <2>4, <2>5, <2>7
    <3> QED BY <1>2, <2>6, <3>1
  <2>8. CASE Len(group[p]) # 0
    <3>1. resolved_seq < Handled
      BY <1>1, <2>1, <2>2, <2>8
    <3>2. Ordered!Resolve
      BY <2>4, <2>5, <2>6, <3>1 DEF Ordered!Resolve
    <3> QED BY <3>2 DEF Ordered!Next
  <2> QED BY <2>7, <2>8
<1>8. CASE MaintenanceSync \/ UNCHANGED vars
  <2>1. UNCHANGED <<next_seq, resolved_seq, written, log, refused, pc>>
    BY <1>8 DEF MaintenanceSync, vars, ingest, locals, store, history
  <2> QED BY <1>2, <2>1, SameHandled
<1> QED BY <1>2, <1>3, <1>4, <1>5, <1>6, <1>7, <1>8 DEF Next, Step, Ordered!Next

(* The group commit is one writer: the log that any number of producers    *)
(* fill through the queue is one that OrderedLog allows.                   *)
THEOREM GroupCommitImplementsOrderedLog == Spec => ImplementsOrderedLog
<1>1. Init => Ordered!Init
  <2> SUFFICES ASSUME Init PROVE Ordered!Init
    OBVIOUS
  <2>1. Leaders = {}
    BY DEF Init, Leaders, Leading
  <2>2. Handled = 0 /\ next_seq - 1 = 0 /\ resolved_seq = 0 /\ log = <<>> /\ refused = {}
    BY <2>1 DEF Init, Handled
  <2> QED BY <2>2 DEF Ordered!Init
<1> QED BY <1>1, OrderedStep, TypeCorrect, OneLeaderCorrect, OrderInvCorrect, PTL
        DEF Spec, ImplementsOrderedLog, Ordered!Spec

-----------------------------------------------------------------------------
(* Outcomes.  The range of sequences from which a call takes its errors is *)
(* its own as long as no call waits in the middle of its batch, or no      *)
(* record can be refused.                                                  *)
Contiguous == OnFull = "rejectNew" \/ MaxBatch = 1 \/ "append" \notin Faults

(* What is decided ends between what is resolved and what is submitted.    *)
LEMMA DecidedRange ==
    ASSUME TypeOK, OrderInv
    PROVE  1..resolved_seq \subseteq Decided /\ Decided \subseteq 1..next_seq - 1
<1>1. resolved_seq \in Nat /\ next_seq \in Nat /\ Len(queue) \in Nat
  BY DEF TypeOK, Seqs
<1>2. CASE Leaders = {}
  BY <1>1, <1>2 DEF OrderInv, NoneBetween
<1>3. CASE Leaders # {}
  <2>1. PICK p \in Leaders : TRUE
    BY <1>3
  <2>2. /\ resolved_seq + Len(group[p]) + Len(queue) + 1 = next_seq
        /\ written[p] <= Len(group[p]) /\ Decided = 1 .. resolved_seq + written[p]
    BY <2>1 DEF OrderInv, Between
  <2>3. written[p] \in Nat /\ Len(group[p]) \in Nat
    BY <2>1 DEF TypeOK, Leaders
  <2> QED BY <1>1, <2>2, <2>3
<1> QED BY <1>2, <1>3

Entering == {"enqueue", "wait_space"}

(* The sequences of the calls: a call has those of its own records, in its *)
(* range, and no two calls share one.                                      *)
Ranges == \A p \in Producers :
    /\ pc[p] = "idle" => call[p].mine = {}
    /\ call[p].mine \subseteq call[p].first .. call[p].last
    /\ \A s \in call[p].mine : s < next_seq
    /\ pc[p] \in Entering => /\ call[p].todo > 0 /\ call[p].kind # "flush"
                             /\ MayRefuse => call[p].mine = {}
    /\ pc[p] \notin Entering \union {"idle"} /\ MayRefuse =>
          call[p].mine = call[p].first .. call[p].last
    /\ \A q \in Producers : p # q => call[p].mine \intersect call[q].mine = {}
    /\ call[p].kind = "flush" => call[p].mine = {} /\ call[p].last + 1 = call[p].first
    /\ pc[p] = "sync" => call[p].kind = "flush"
    /\ pc[p] \in {"take", "sync"} => call[p].last <= resolved_seq

Owned(s) == \E p \in Producers : pc[p] # "idle" /\ s \in call[p].mine

(* The refused records: each is in the map of errors, or in the leader's   *)
(* hands, until its call takes the error.                                  *)
Accounts ==
    /\ errors \subseteq refused
    /\ \A p \in Producers : pc[p] \notin Leading => errors_local[p] = {}
    /\ \A p \in Producers : \A s \in errors_local[p] :
          s \in refused /\ s > resolved_seq /\ s < next_seq
    /\ \A p \in Producers : \A s \in call[p].mine \intersect refused :
          s \in errors \/ \E l \in Producers : s \in errors_local[l]
    /\ ~MayRefuse => refused = {}
    /\ \A s \in told : s \in 1..resolved_seq /\ s \notin refused
    /\ \A s \in errors : s \in abandoned \/ Owned(s)
    /\ \A s \in resolved_seq + 1 .. next_seq - 1 : s \in abandoned \/ Owned(s)
    /\ wronged = {}

Outcomes == Ranges /\ Accounts

Told == <<next_seq, resolved_seq, errors, errors_local, refused, told, abandoned, wronged>>

(* A step that moves producers, and changes nothing of calls and errors.   *)
LEMMA SameOutcomes ==
    ASSUME TypeOK, Outcomes, UNCHANGED Told, UNCHANGED call,
           \A q \in Producers : pc'[q] = "idle" <=> pc[q] = "idle",
           \A q \in Producers : pc'[q] \in Entering <=> pc[q] \in Entering,
           \A q \in Producers : pc[q] \in Leading => pc'[q] \in Leading,
           \A q \in Producers : pc'[q] \in {"take", "sync"} =>
                 \/ pc'[q] = pc[q]
                 \/ call[q].last <= resolved_seq /\ (pc'[q] = "sync" => call[q].kind = "flush")
    PROVE  Outcomes'
<1>1. Ranges'
  BY DEF Outcomes, Ranges, Told
<1>2. \A s : Owned(s)' <=> Owned(s)
  BY DEF Owned
<1>3. Accounts'
  BY <1>2 DEF Outcomes, Accounts, Told
<1> QED BY <1>1, <1>3 DEF Outcomes

(* A step in which a producer waits, leads or wakes, or a record is written.*)
LEMMA MoveOutcomes ==
    ASSUME TypeOK, Outcomes, NEW p \in Producers,
           \/ DriveResolved(p) \/ DriveWait(p) \/ DriveLead(p) \/ NotifySpace(p)
           \/ NotifyDone(p) \/ RoomWait(p) \/ RoomFreed(p) \/ FinishGroup(p)
           \/ SpuriousWakeup(p) \/ WriteRecord(p)
    PROVE  Outcomes'
<1>1. pc \in [Producers -> Locations]
  BY DEF TypeOK
<1>2. UNCHANGED Told /\ UNCHANGED call
  BY DEF DriveResolved, DriveWait, DriveLead, NotifySpace, NotifyDone, RoomWait, RoomFreed,
         FinishGroup, SpuriousWakeup, WriteRecord, ingest, history, Told
<1>3. /\ \A q \in Producers : pc'[q] = "idle" <=> pc[q] = "idle"
      /\ \A q \in Producers : pc'[q] \in Entering <=> pc[q] \in Entering
      /\ \A q \in Producers : pc[q] \in Leading => pc'[q] \in Leading
      /\ \A q \in Producers : pc'[q] \in {"take", "sync"} =>
            \/ pc'[q] = pc[q]
            \/ call[q].last <= resolved_seq /\ (pc'[q] = "sync" => call[q].kind = "flush")
  <2>1. CASE \/ DriveWait(p) \/ DriveLead(p) \/ RoomWait(p) \/ RoomFreed(p)
             \/ FinishGroup(p) \/ SpuriousWakeup(p) \/ WriteRecord(p)
    BY <1>1, <2>1 DEF DriveWait, DriveLead, RoomWait, RoomFreed, FinishGroup,
                      SpuriousWakeup, WriteRecord, Entering, Leading
  <2>2. CASE NotifySpace(p) \/ NotifyDone(p)
    BY <1>1, <2>2 DEF NotifySpace, NotifyDone, Entering, Leading
  <2>3. CASE DriveResolved(p)
    <3>1. /\ \A q \in Producers : pc'[q] =
                IF q = p THEN IF call[p].kind = "flush" THEN "sync" ELSE "take" ELSE pc[q]
          /\ pc[p] = "drive" /\ resolved_seq >= call[p].last
      BY <1>1, <2>3 DEF DriveResolved
    <3>2. call[p].last \in Nat /\ resolved_seq \in Nat
      BY DEF TypeOK, Call
    <3> QED BY <3>1, <3>2 DEF Entering, Leading
  <2> QED BY <2>1, <2>2, <2>3
<1> QED BY <1>2, <1>3, SameOutcomes

(* A call begins with no sequences of its own.                             *)
LEMMA BeginOutcomes ==
    ASSUME TypeOK, Outcomes, NEW p \in Producers, Begin(p)
    PROVE  Outcomes'
<1>1. PICK c : /\ \A q \in Producers : call'[q] = IF q = p THEN c ELSE call[q]
               /\ c.mine = {} /\ c.first \in Nat /\ c.last \in Nat
               /\ c.kind = "flush" => c.last + 1 = c.first /\ pc'[p] = "drive"
               /\ c.kind # "flush" => c.todo > 0 /\ pc'[p] = "enqueue"
  <2>1. call \in [Producers -> Call] /\ next_seq \in Nat \ {0}
    BY DEF TypeOK, Seqs
  <2>2. CASE BeginFlush(p)
    <3> DEFINE c == [NoCall EXCEPT !.kind = "flush", !.first = next_seq, !.last = next_seq - 1]
    <3>1. /\ \A q \in Producers : call'[q] = IF q = p THEN c ELSE call[q]
          /\ pc'[p] = "drive"
      BY <2>1, <2>2 DEF BeginFlush, TypeOK
    <3>2. c.mine = {} /\ c.first = next_seq /\ c.last = next_seq - 1 /\ c.kind = "flush"
      BY DEF NoCall
    <3> HIDE DEF c
    <3> QED BY <2>1, <3>1, <3>2
  <2>3. CASE \E kind \in {"append", "append_batch"}, n \in 1..MaxBatch : BeginAppend(p, kind, n)
    <3>1. PICK kind \in {"append", "append_batch"}, n \in 1..MaxBatch : BeginAppend(p, kind, n)
      BY <2>3
    <3> DEFINE c == [NoCall EXCEPT !.kind = kind, !.todo = n, !.needs_fsync = NeedsFsync(kind)]
    <3>2. /\ \A q \in Producers : call'[q] = IF q = p THEN c ELSE call[q]
          /\ pc'[p] = "enqueue"
      BY <2>1, <3>1 DEF BeginAppend, TypeOK
    <3>3. c.mine = {} /\ c.first = 0 /\ c.last = 0 /\ c.kind # "flush" /\ c.todo = n
      BY DEF NoCall
    <3>4. n > 0
      BY GroupCommitAssumption
    <3> HIDE DEF c
    <3> QED BY <3>2, <3>3, <3>4
  <2> QED BY <2>2, <2>3 DEF Begin
<1>2. /\ UNCHANGED Told /\ pc[p] = "idle"
      /\ \A q \in Producers : q # p => pc'[q] = pc[q]
      /\ pc'[p] = "drive" \/ pc'[p] = "enqueue"
  BY DEF Begin, BeginFlush, BeginAppend, ingest, history, Told, TypeOK
<1>3. Ranges'
  <2>1. \A x, y \in Nat : x + 1 = y => y..x = {}
    OBVIOUS
  <2> DEFINE Own(q) ==
        /\ pc[q] = "idle" => call[q].mine = {}
        /\ call[q].mine \subseteq call[q].first .. call[q].last
        /\ \A s \in call[q].mine : s < next_seq
        /\ pc[q] \in Entering => /\ call[q].todo > 0 /\ call[q].kind # "flush"
                                 /\ MayRefuse => call[q].mine = {}
        /\ pc[q] \notin Entering \union {"idle"} /\ MayRefuse =>
              call[q].mine = call[q].first .. call[q].last
        /\ call[q].kind = "flush" => call[q].mine = {} /\ call[q].last + 1 = call[q].first
        /\ pc[q] = "sync" => call[q].kind = "flush"
        /\ pc[q] \in {"take", "sync"} => call[q].last <= resolved_seq
  <2>2. \A q \in Producers : Own(q)
    BY DEF Outcomes, Ranges
  <2>3. ASSUME NEW q \in Producers, q # p PROVE Own(q)'
    BY <1>1, <1>2, <2>2, <2>3 DEF Told
  <2>4. Own(p)'
    <3>1. call'[p] = c /\ c.mine = {}
      BY <1>1
    <3>2. CASE c.kind = "flush"
      BY <1>1, <2>1, <3>1, <3>2 DEF Entering
    <3>3. CASE c.kind # "flush"
      BY <1>1, <3>1, <3>3 DEF Entering
    <3> QED BY <3>2, <3>3
  <2>5. ASSUME NEW q \in Producers, NEW r \in Producers, q # r
        PROVE  call'[q].mine \intersect call'[r].mine = {}
    <3>1. call[q].mine \intersect call[r].mine = {}
      BY <2>5 DEF Outcomes, Ranges
    <3> QED BY <1>1, <2>5, <3>1
  <2> HIDE DEF Own
  <2>6. \A q \in Producers : Own(q)'
    BY <2>3, <2>4
  <2> QED BY <2>5, <2>6 DEF Ranges, Own
<1>4. \A s : Owned(s) => Owned(s)'
  BY <1>1, <1>2 DEF Owned
<1>5. Accounts'
  BY <1>1, <1>2, <1>4 DEF Outcomes, Accounts, Told, Leading
<1> QED BY <1>3, <1>5 DEF Outcomes

(* What k records of p's call do to what the calls know. *)
Grown(p, k) ==
    /\ UNCHANGED <<resolved_seq, errors, errors_local, refused, told, wronged>>
    /\ next_seq' = next_seq + k
    /\ \A s \in FreshSeqs(k) : s \notin refused

(* What is fresh is next, and decided by nobody.                           *)
LEMMA FreshIs ==
    ASSUME TypeOK, OrderInv, NEW k \in Nat
    PROVE  /\ \A s : s \in FreshSeqs(k) <=> s \in Nat /\ next_seq <= s /\ s < next_seq + k
           /\ \A s \in FreshSeqs(k) : s \notin refused
<1>1. next_seq \in Nat \ {0}
  BY DEF TypeOK, Seqs
<1>2. \A s : s \in FreshSeqs(k) <=> s \in Nat /\ next_seq <= s /\ s < next_seq + k
  BY <1>1 DEF FreshSeqs
<1>3. refused \subseteq 1..next_seq - 1
  BY DecidedRange DEF Decided
<1> QED BY <1>1, <1>2, <1>3

(* What is new is owned, or abandoned. *)
LEMMA GrownAccounts ==
    ASSUME TypeOK, OrderInv, Outcomes, NEW p \in Producers, NEW k \in Nat, Grown(p, k),
           \A q \in Producers : call'[q].mine = IF q = p THEN call'[p].mine ELSE call[q].mine,
           \A q \in Producers : pc'[q] = "idle" <=> (IF q = p THEN pc'[p] = "idle" ELSE pc[q] = "idle"),
           pc[p] # "idle", pc[p] \notin Leading, pc'[p] \notin Leading,
           \A q \in Producers : q # p => pc'[q] = pc[q],
           \/ /\ call'[p].mine = call[p].mine \union FreshSeqs(k) /\ pc'[p] # "idle"
              /\ abandoned' = abandoned
           \/ /\ call'[p].mine = {}
              /\ abandoned' = abandoned \union (call[p].mine \union FreshSeqs(k))
    PROVE  Accounts'
<1>0. next_seq \in Nat \ {0} /\ resolved_seq \in Nat
  BY DEF TypeOK, Seqs
<1>1. \A s \in FreshSeqs(k) : s \notin refused
  BY FreshIs
<1>2. \A s \in call'[p].mine : s \in call[p].mine \/ s \in FreshSeqs(k)
  OBVIOUS
<1>3. \A s : Owned(s) => Owned(s)' \/ s \in abandoned'
  BY DEF Owned
<1>4. \A s \in FreshSeqs(k) : Owned(s)' \/ s \in abandoned'
  BY DEF Owned
<1>5. \A s \in abandoned : s \in abandoned'
  OBVIOUS
<1>6. \A s \in resolved_seq' + 1 .. next_seq' - 1 :
         s \in resolved_seq + 1 .. next_seq - 1 \/ s \in FreshSeqs(k)
  BY <1>0, FreshIs DEF Grown
<1>7. \A s \in resolved_seq' + 1 .. next_seq' - 1 : s \in abandoned' \/ Owned(s)'
  BY <1>3, <1>4, <1>5, <1>6 DEF Outcomes, Accounts
<1>8. \A s \in errors' : s \in abandoned' \/ Owned(s)'
  BY <1>3, <1>5 DEF Outcomes, Accounts, Grown
<1>9. \A q \in Producers : \A s \in call'[q].mine \intersect refused' :
         s \in errors' \/ \E l \in Producers : s \in errors_local'[l]
  BY <1>1, <1>2 DEF Outcomes, Accounts, Grown
<1>10. \A q \in Producers : \A s \in errors_local'[q] :
          s \in refused' /\ s > resolved_seq' /\ s < next_seq'
  <2>1. \A q \in Producers : \A s \in errors_local[q] :
           s \in refused /\ s > resolved_seq /\ s < next_seq /\ s \in Nat
    BY DEF Outcomes, Accounts, TypeOK, Seqs
  <2> QED BY <1>0, <2>1 DEF Grown
<1>11. /\ errors' \subseteq refused'
       /\ \A q \in Producers : pc'[q] \notin Leading => errors_local'[q] = {}
       /\ ~MayRefuse => refused' = {}
       /\ \A s \in told' : s \in 1..resolved_seq' /\ s \notin refused'
       /\ wronged' = {}
  BY DEF Outcomes, Accounts, Grown
<1> QED BY <1>7, <1>8, <1>9, <1>10, <1>11 DEF Accounts, MayRefuse

(* A call gets the sequences that are next.                                *)
LEMMA PushOutcomes ==
    ASSUME Contiguous, TypeOK, OrderInv, Outcomes, NEW p \in Producers,
           Enqueue(p) \/ EnqueueWait(p) \/ EnqueueReject(p)
    PROVE  Outcomes'
<1>1. /\ pc \in [Producers -> Locations] /\ call \in [Producers -> Call]
      /\ next_seq \in Nat \ {0} /\ resolved_seq \in Nat
      /\ Room \in Nat /\ call[p].todo \in Nat /\ call[p].todo \in 0..MaxBatch
      /\ pc[p] = "enqueue"
  <2>1. Room \in Nat
    BY RoomType
  <2>2. /\ pc \in [Producers -> Locations] /\ call \in [Producers -> Call]
        /\ next_seq \in Nat \ {0} /\ resolved_seq \in Nat
    BY DEF TypeOK, Seqs
  <2>3. call[p].todo \in 0..MaxBatch
    BY <2>2 DEF Call
  <2>4. pc[p] = "enqueue"
    BY DEF Enqueue, EnqueueWait, EnqueueReject
  <2> QED BY <2>1, <2>2, <2>3, <2>4, GroupCommitAssumption
<1>2. /\ call[p].todo > 0 /\ call[p].kind # "flush" /\ (MayRefuse => call[p].mine = {})
      /\ call[p].mine \subseteq call[p].first .. call[p].last
      /\ \A s \in call[p].mine : s < next_seq
      /\ call[p].first \in Nat /\ call[p].last \in Nat
  BY <1>1 DEF Outcomes, Ranges, Entering, Call
<1> DEFINE Pushes(k, c) ==
        /\ Push(p, k) /\ k <= call[p].todo
        /\ \A q \in Producers : call'[q] = IF q = p THEN c ELSE call[q]
        /\ \A q \in Producers : q # p => pc'[q] = pc[q]
        /\ UNCHANGED <<resolved_seq, errors, errors_local, refused, told, wronged>>
        /\ \/ /\ c = Pushed(p, k) /\ k = call[p].todo /\ pc'[p] = "drive"
              /\ abandoned' = abandoned
           \/ /\ c = Pushed(p, k) /\ k < call[p].todo /\ pc'[p] = "wait_space"
              /\ abandoned' = abandoned /\ OnFull # "rejectNew" /\ k = Room
           \/ /\ c = NoCall /\ pc'[p] = "idle"
              /\ abandoned' = abandoned \union Pushed(p, k).mine
<1>3a. PICK k \in Nat : \E c : Pushes(k, c)
  <2>1. CASE Enqueue(p)
    <3>1. /\ Push(p, call[p].todo) /\ pc'[p] = "drive" /\ abandoned' = abandoned
          /\ \A q \in Producers : call'[q] = IF q = p THEN Pushed(p, call[p].todo) ELSE call[q]
          /\ \A q \in Producers : q # p => pc'[q] = pc[q]
          /\ UNCHANGED <<resolved_seq, errors, errors_local, refused, told, wronged>>
      BY <1>1, <2>1 DEF Enqueue
    <3> QED BY <1>1, <3>1
  <2>2. CASE EnqueueWait(p)
    <3>1. /\ Push(p, Room) /\ pc'[p] = "wait_space" /\ abandoned' = abandoned
          /\ \A q \in Producers : call'[q] = IF q = p THEN Pushed(p, Room) ELSE call[q]
          /\ \A q \in Producers : q # p => pc'[q] = pc[q]
          /\ UNCHANGED <<resolved_seq, errors, errors_local, refused, told, wronged>>
          /\ OnFull # "rejectNew" /\ Room < call[p].todo
      BY <1>1, <2>2 DEF EnqueueWait, Fits
    <3> QED BY <1>1, <3>1
  <2>3. CASE EnqueueReject(p)
    <3>1. /\ Push(p, Room) /\ pc'[p] = "idle"
          /\ abandoned' = abandoned \union Pushed(p, Room).mine
          /\ \A q \in Producers : call'[q] = IF q = p THEN NoCall ELSE call[q]
          /\ \A q \in Producers : q # p => pc'[q] = pc[q]
          /\ UNCHANGED <<resolved_seq, errors, errors_local, refused, told, wronged>>
          /\ Room < call[p].todo
      BY <1>1, <2>3 DEF EnqueueReject, Fits
    <3> QED BY <1>1, <3>1
  <2> QED BY <2>1, <2>2, <2>3
<1>3. PICK c : Pushes(k, c)
  BY <1>3a
<1>4. next_seq' = next_seq + k /\ Grown(p, k)
  BY <1>3, FreshIs DEF Push, Grown
<1>5. \A s : s \in FreshSeqs(k) <=> s \in Nat /\ next_seq <= s /\ s < next_seq + k
  BY FreshIs
<1>6. /\ c.mine = call[p].mine \union FreshSeqs(k) \/ c.mine = {}
      /\ c.mine \subseteq c.first .. c.last
      /\ c.kind # "flush" \/ (c.mine = {} /\ c.last + 1 = c.first)
      /\ pc'[p] \in Entering => c.todo > 0 /\ c.kind # "flush" /\ (MayRefuse => c.mine = {})
      /\ pc'[p] \notin Entering \union {"idle"} /\ MayRefuse => c.mine = c.first .. c.last
      /\ pc'[p] = "idle" => c.mine = {}
  <2>1. CASE c = NoCall /\ pc'[p] = "idle"
    BY <2>1 DEF NoCall, Entering
  <2>2. CASE c = Pushed(p, k)
    <3>1. /\ c.mine = call[p].mine \union FreshSeqs(k) /\ c.kind = call[p].kind
          /\ c.todo = call[p].todo - k
          /\ c.first = IF call[p].mine = {} /\ k > 0 THEN next_seq ELSE call[p].first
          /\ c.last = IF k > 0 THEN next_seq + k - 1 ELSE call[p].last
      BY <2>2 DEF Pushed
    <3>2. CASE k = 0
      <4>1. c.mine = call[p].mine
        BY <1>1, <1>5, <3>1, <3>2
      <4>2. c.first = call[p].first /\ c.last = call[p].last /\ c.todo = call[p].todo
        BY <1>1, <3>1, <3>2
      <4>3. pc'[p] = "wait_space"
        BY <1>1, <1>2, <1>3, <2>2, <3>2, <4>2 DEF NoCall
      <4> QED BY <1>2, <3>1, <4>1, <4>2, <4>3 DEF Entering
    <3>3. CASE k > 0
      <4>1. c.last = next_seq + k - 1
        BY <3>1, <3>3
      <4>2. c.mine \subseteq c.first .. c.last
        <5>1. CASE call[p].mine = {}
          BY <1>1, <1>5, <3>1, <3>3, <4>1, <5>1
        <5>2. CASE call[p].mine # {}
          <6>1. PICK x \in call[p].mine : TRUE
            BY <5>2
          <6>2. c.first = call[p].first /\ c.first \in Nat /\ c.first <= next_seq /\ x \in Nat
            BY <1>1, <1>2, <3>1, <5>2, <6>1
          <6>3. \A s \in call[p].mine : s \in Nat /\ c.first <= s /\ s <= c.last
            BY <1>1, <1>2, <3>3, <4>1, <6>2
          <6>4. \A s \in FreshSeqs(k) : s \in Nat /\ c.first <= s /\ s <= c.last
            BY <1>1, <1>5, <4>1, <6>2
          <6> QED BY <1>1, <3>1, <4>1, <6>2, <6>3, <6>4
        <5> QED BY <5>1, <5>2
      <4>3. MayRefuse => c.mine = c.first .. c.last /\ pc'[p] = "drive"
        <5> SUFFICES ASSUME MayRefuse PROVE c.mine = c.first .. c.last /\ pc'[p] = "drive"
          OBVIOUS
        <5>1. call[p].mine = {} /\ c.first = next_seq /\ c.mine = FreshSeqs(k)
          BY <1>2, <3>1, <3>3
        <5>2. c.mine = c.first .. c.last
          BY <1>1, <4>1, <5>1 DEF FreshSeqs
        <5>3. pc'[p] = "drive"
          <6>1. ASSUME k < call[p].todo, OnFull # "rejectNew" PROVE FALSE
            <7>1. MaxBatch = 1
              BY <6>1 DEF Contiguous, MayRefuse
            <7> QED BY <1>1, <3>3, <6>1, <7>1
          <6>2. c # NoCall
            BY <2>2, <5>1, <5>2, <1>1, <1>5, <3>3 DEF NoCall
          <6> QED BY <1>3, <6>1, <6>2
        <5> QED BY <5>2, <5>3
      <4>4. pc'[p] \in {"drive", "wait_space"}
        <5>1. c # NoCall
          <6>1. next_seq \in c.mine
            BY <1>1, <1>5, <3>1, <3>3
          <6> QED BY <6>1 DEF NoCall
        <5> QED BY <1>3, <5>1
      <4>5. pc'[p] = "wait_space" => c.todo > 0
        BY <1>1, <1>3, <3>1
      <4> QED BY <1>2, <3>1, <4>2, <4>3, <4>4, <4>5 DEF Entering
    <3> QED BY <3>2, <3>3
  <2> QED BY <1>3, <2>1, <2>2
<1>7. Ranges'
  <2>1. \A s \in c.mine : s < next_seq'
    BY <1>1, <1>2, <1>4, <1>5, <1>6
  <2>2. \A q \in Producers : \A s \in call[q].mine : s < next_seq /\ s < next_seq'
    <3>1. \A q \in Producers : \A s \in call[q].mine : s < next_seq /\ s \in Nat
      BY DEF Outcomes, Ranges, TypeOK, Call, Seqs
    <3> QED BY <1>1, <1>4, <3>1
  <2>3. \A q \in Producers : q # p => c.mine \intersect call[q].mine = {}
    <3>1. \A q \in Producers : \A s \in FreshSeqs(k) : s \notin call[q].mine
      BY <1>1, <1>5, <2>2
    <3> QED BY <1>6, <3>1 DEF Outcomes, Ranges
  <2>4. pc'[p] \notin {"take", "sync"} /\ resolved_seq' = resolved_seq
    BY <1>3
  <2> QED BY <1>3, <1>6, <2>1, <2>2, <2>3, <2>4 DEF Outcomes, Ranges, MayRefuse
<1>8. Accounts'
  <2>1. /\ pc[p] # "idle" /\ pc[p] \notin Leading /\ pc'[p] \notin Leading
    BY <1>1, <1>3 DEF Leading
  <2>2. Pushed(p, k).mine = call[p].mine \union FreshSeqs(k) /\ NoCall.mine = {}
    BY DEF Pushed, NoCall
  <2>3. \/ /\ call'[p].mine = call[p].mine \union FreshSeqs(k) /\ pc'[p] # "idle"
           /\ abandoned' = abandoned
        \/ /\ call'[p].mine = {}
           /\ abandoned' = abandoned \union (call[p].mine \union FreshSeqs(k))
    BY <1>3, <2>2
  <2>4. /\ \A q \in Producers : call'[q].mine = IF q = p THEN call'[p].mine ELSE call[q].mine
        /\ \A q \in Producers : pc'[q] = "idle" <=> (IF q = p THEN pc'[p] = "idle" ELSE pc[q] = "idle")
    BY <1>3
  <2> QED BY <1>3, <1>4, <2>1, <2>3, <2>4, GrownAccounts
<1> QED BY <1>7, <1>8 DEF Outcomes

(* The leader is the only one that holds errors in its hands. *)
LEMMA RefuseOutcomes ==
    ASSUME TypeOK, OneLeader, OrderInv, Outcomes, NEW p \in Producers, RefuseRecord(p)
    PROVE  Outcomes'
<1>1. /\ pc[p] = "write" /\ written[p] < Len(group[p]) /\ MayRefuse
      /\ refused' = refused \union {Current(p)}
      /\ UNCHANGED <<pc, call, next_seq, resolved_seq, errors, told, abandoned, wronged>>
  BY DEF RefuseRecord, ingest
<1>2. \A q \in Producers : errors_local'[q] =
         IF q = p THEN errors_local[p] \union {Current(p)} ELSE errors_local[q]
  BY DEF RefuseRecord, TypeOK
<1>3. Current(p) > resolved_seq /\ Current(p) < next_seq /\ Current(p) \in Nat
  <2>1. /\ Between(p) /\ written[p] \in Nat /\ resolved_seq \in Nat /\ Len(group[p]) \in Nat
        /\ Current(p) = resolved_seq + written[p] + 1
    BY <1>1, WriterFacts
  <2>2. next_seq \in Nat /\ Len(queue) \in Nat
    BY DEF TypeOK, Seqs
  <2>3. resolved_seq + Len(group[p]) + Len(queue) + 1 = next_seq
    BY <2>1 DEF Between
  <2> QED BY <1>1, <2>1, <2>2, <2>3
<1>4. Ranges'
  BY <1>1 DEF Outcomes, Ranges
<1>5. \A s : Owned(s)' <=> Owned(s)
  BY <1>1 DEF Owned
<1>6. resolved_seq \in Nat
  BY DEF TypeOK
<1>7. /\ errors' \subseteq refused'
      /\ \A q \in Producers : pc'[q] \notin Leading => errors_local'[q] = {}
  BY <1>1, <1>2 DEF Outcomes, Accounts, Leading
<1>8. \A q \in Producers : \A s \in errors_local'[q] :
         s \in refused' /\ s > resolved_seq' /\ s < next_seq'
  BY <1>1, <1>2, <1>3 DEF Outcomes, Accounts
<1>9. \A q \in Producers : \A s \in call'[q].mine \intersect refused' :
         s \in errors' \/ \E l \in Producers : s \in errors_local'[l]
  BY <1>1, <1>2 DEF Outcomes, Accounts
<1>10. ~MayRefuse => refused' = {}
  BY <1>1
<1>11. \A s \in told' : s \in 1..resolved_seq' /\ s \notin refused'
  BY <1>1, <1>3, <1>6 DEF Outcomes, Accounts
<1>12. /\ \A s \in errors' : s \in abandoned' \/ Owned(s)'
       /\ \A s \in resolved_seq' + 1 .. next_seq' - 1 : s \in abandoned' \/ Owned(s)'
       /\ wronged' = {}
  BY <1>1, <1>5 DEF Outcomes, Accounts
<1>13. Accounts'
  BY <1>7, <1>8, <1>9, <1>10, <1>11, <1>12 DEF Accounts, MayRefuse
<1> QED BY <1>4, <1>13 DEF Outcomes

(* Resolving publishes the errors of the group. *)
LEMMA ResolveOutcomes ==
    ASSUME TypeOK, OneLeader, OrderInv, OrderInv', TypeOK', Outcomes,
           NEW p \in Producers, Resolve(p)
    PROVE  Outcomes'
<1>1. /\ pc[p] = "resolve" /\ errors' = errors \union errors_local[p]
      /\ \A q \in Producers : errors_local'[q] = IF q = p THEN {} ELSE errors_local[q]
      /\ \A q \in Producers : pc'[q] = IF q = p THEN "notify_done" ELSE pc[q]
      /\ UNCHANGED <<call, next_seq, refused, told, abandoned, wronged>>
  BY DEF Resolve, history, TypeOK
<1>2. resolved_seq' >= resolved_seq /\ resolved_seq' \in Nat /\ resolved_seq \in Nat
  BY MaxOfType DEF Resolve, TypeOK
<1>3. \A q \in Producers : q # p => errors_local[q] = {}
  BY <1>1 DEF Outcomes, Accounts, OneLeader, Leaders, Leading
<1>4. Ranges'
  <2>1. \A q \in Producers : call[q].last \in Nat
    BY DEF TypeOK, Call
  <2>2. \A q \in Producers : call[q].last <= resolved_seq => call[q].last <= resolved_seq'
    BY <1>2, <2>1
  <2>3. \A q \in Producers : /\ pc'[q] \in Entering <=> pc[q] \in Entering
                             /\ pc'[q] = "idle" <=> pc[q] = "idle"
                             /\ pc'[q] \in {"take", "sync"} => pc'[q] = pc[q]
    BY <1>1 DEF Entering
  <2> QED BY <1>1, <2>2, <2>3 DEF Outcomes, Ranges
<1>5. \A s : Owned(s)' <=> Owned(s)
  BY <1>1 DEF Owned
<1>6. /\ errors' \subseteq refused'
      /\ \A q \in Producers : errors_local'[q] = {}
  BY <1>1, <1>3 DEF Outcomes, Accounts
<1>7. \A q \in Producers : \A s \in call'[q].mine \intersect refused' : s \in errors'
  BY <1>1, <1>3 DEF Outcomes, Accounts
<1>8. ~MayRefuse => refused' = {}
  BY <1>1 DEF Outcomes, Accounts
<1>9. \A s \in told' : s \in 1..resolved_seq' /\ s \notin refused'
  <2>1. \A s \in 1..resolved_seq : s \in 1..resolved_seq'
    BY <1>2
  <2> QED BY <1>1, <2>1 DEF Outcomes, Accounts
<1>10. \A s \in resolved_seq' + 1 .. next_seq' - 1 : s \in abandoned' \/ Owned(s)'
  <2>1. \A s \in resolved_seq' + 1 .. next_seq' - 1 : s \in resolved_seq + 1 .. next_seq - 1
    <3>1. next_seq \in Nat /\ next_seq' = next_seq
      BY <1>1 DEF TypeOK, Seqs
    <3>2. \A a, b, n \in Nat : a <= b => \A s \in b + 1 .. n - 1 : s \in a + 1 .. n - 1
      OBVIOUS
    <3>3. \A s \in resolved_seq' + 1 .. next_seq - 1 : s \in resolved_seq + 1 .. next_seq - 1
      BY <1>2, <3>1, <3>2
    <3> QED BY <3>1, <3>3
  <2> QED BY <1>1, <1>5, <2>1 DEF Outcomes, Accounts
<1>11. \A s \in errors' : s \in abandoned' \/ Owned(s)'
  <2>1. \A s \in errors_local[p] : s \in resolved_seq + 1 .. next_seq - 1
    <3>1. \A s \in errors_local[p] : s \in Nat /\ s > resolved_seq /\ s < next_seq
      BY DEF Outcomes, Accounts, TypeOK, Seqs
    <3> QED BY <1>2, <3>1 DEF TypeOK, Seqs
  <2> QED BY <1>1, <1>5, <2>1 DEF Outcomes, Accounts
<1>12. wronged' = {}
  BY <1>1 DEF Outcomes, Accounts
<1>13. Accounts'
  BY <1>6, <1>7, <1>8, <1>9, <1>10, <1>11, <1>12 DEF Accounts, MayRefuse
<1> QED BY <1>4, <1>13 DEF Outcomes

(* The call ends: its own errors, and no others, leave the map. *)
LEMMA ReturnRanges ==
    ASSUME TypeOK, Outcomes, NEW p \in Producers, pc'[p] = "idle",
           \A q \in Producers : q # p => pc'[q] = pc[q] /\ call'[q] = call[q],
           call'[p] = NoCall, UNCHANGED <<next_seq, resolved_seq>>
    PROVE  Ranges'
<1>1. NoCall.mine = {} /\ NoCall.kind # "flush"
  BY DEF NoCall
<1>2. \A q \in Producers : pc'[q] = "idle" \/ (pc'[q] = pc[q] /\ call'[q] = call[q])
  OBVIOUS
<1>3. \A q \in Producers : call'[q].mine = {} \/ call'[q] = call[q]
  BY <1>1
<1> QED BY <1>1, <1>2, <1>3 DEF Outcomes, Ranges, MayRefuse, Entering

(* A call takes its own errors, and learns whether there were any.         *)
LEMMA TakeOutcomes ==
    ASSUME TypeOK, OrderInv, Outcomes, NEW p \in Producers, TakeResult(p)
    PROVE  Outcomes'
<1>1. /\ pc[p] = "take" /\ pc'[p] = "idle" /\ call'[p] = NoCall
      /\ \A q \in Producers : q # p => pc'[q] = pc[q] /\ call'[q] = call[q]
      /\ errors' = errors \ Taken(p)
      /\ told' = IF Taken(p) = {} THEN told \union call[p].mine ELSE told
      /\ wronged' = IF Taken(p) # {} /\ call[p].mine \intersect refused = {}
                    THEN wronged \union call[p].mine ELSE wronged
      /\ UNCHANGED <<next_seq, resolved_seq, errors_local, refused, abandoned>>
  BY DEF TakeResult, TypeOK
<1>2. /\ call[p].mine \subseteq 1..resolved_seq
      /\ resolved_seq \in Nat
  <2>1. /\ call[p].mine \subseteq Nat \ {0} /\ call[p].mine \subseteq call[p].first .. call[p].last
        /\ call[p].last <= resolved_seq /\ call[p].first \in Nat /\ call[p].last \in Nat
        /\ resolved_seq \in Nat
    BY <1>1 DEF Outcomes, Ranges, TypeOK, Call, Seqs
  <2> QED BY <2>1
<1>3. Taken(p) = errors \intersect call[p].mine
  <2>1. CASE MayRefuse
    BY <1>1, <2>1 DEF Outcomes, Ranges, Entering, Taken
  <2>2. CASE ~MayRefuse
    BY <2>2 DEF Outcomes, Accounts, Taken
  <2> QED BY <2>1, <2>2
<1>4. \A s \in call[p].mine \intersect refused : s \in errors
  <2>1. \A l \in Producers : \A s \in errors_local[l] : s > resolved_seq
    BY DEF Outcomes, Accounts
  <2> QED BY <1>2, <2>1 DEF Outcomes, Accounts
<1>5. NoCall.mine = {}
  BY DEF NoCall
<1>6. Ranges'
  BY <1>1, ReturnRanges
<1>7. \A s : Owned(s) => Owned(s)' \/ s \in call[p].mine
  BY <1>1 DEF Owned
<1>8. /\ errors' \subseteq refused'
      /\ \A q \in Producers : pc'[q] \notin Leading => errors_local'[q] = {}
  BY <1>1 DEF Outcomes, Accounts, Leading
<1>9. \A q \in Producers : \A s \in errors_local'[q] :
         s \in refused' /\ s > resolved_seq' /\ s < next_seq'
  BY <1>1 DEF Outcomes, Accounts
<1>10. \A q \in Producers : \A s \in call'[q].mine \intersect refused' :
          s \in errors' \/ \E l \in Producers : s \in errors_local'[l]
  <2>1. \A q \in Producers : q # p => call[q].mine \intersect call[p].mine = {}
    BY DEF Outcomes, Ranges
  <2> QED BY <1>1, <1>3, <1>5, <2>1 DEF Outcomes, Accounts
<1>11. ~MayRefuse => refused' = {}
  BY <1>1 DEF Outcomes, Accounts
<1>12. \A s \in told' : s \in 1..resolved_seq' /\ s \notin refused'
  BY <1>1, <1>2, <1>3, <1>4 DEF Outcomes, Accounts
<1>13. wronged' = {}
  BY <1>1, <1>3 DEF Outcomes, Accounts
<1>14. \A s \in errors' : s \in abandoned' \/ Owned(s)'
  BY <1>1, <1>3, <1>7 DEF Outcomes, Accounts
<1>15. \A s \in resolved_seq' + 1 .. next_seq' - 1 : s \in abandoned' \/ Owned(s)'
  <2>1. \A s \in resolved_seq + 1 .. next_seq - 1 : s \notin call[p].mine
    BY <1>2 DEF TypeOK, Seqs
  <2> QED BY <1>1, <1>7, <2>1 DEF Outcomes, Accounts
<1>16. Accounts'
  BY <1>8, <1>9, <1>10, <1>11, <1>12, <1>13, <1>14, <1>15 DEF Accounts, MayRefuse
<1> QED BY <1>6, <1>16 DEF Outcomes

(* A flush takes no outcome. *)
LEMMA FlushOutcomes ==
    ASSUME TypeOK, Outcomes, NEW p \in Producers, FlushSync(p)
    PROVE  Outcomes'
<1>1. /\ pc[p] = "sync" /\ pc'[p] = "idle" /\ call'[p] = NoCall
      /\ \A q \in Producers : q # p => pc'[q] = pc[q] /\ call'[q] = call[q]
      /\ UNCHANGED Told
  BY DEF FlushSync, TypeOK, ingest, Told
<1>2. call[p].mine = {} /\ NoCall.mine = {}
  BY <1>1 DEF Outcomes, Ranges, NoCall
<1>3. Ranges'
  BY <1>1, ReturnRanges DEF Told
<1>4. \A s : Owned(s) => Owned(s)'
  BY <1>1, <1>2 DEF Owned
<1>5. \A q \in Producers : call'[q].mine = call[q].mine
  BY <1>1, <1>2
<1>6. \A q \in Producers : pc'[q] \notin Leading => pc[q] \notin Leading
  BY <1>1 DEF Leading
<1>7. Accounts'
  BY <1>1, <1>4, <1>5, <1>6 DEF Outcomes, Accounts, Told, MayRefuse
<1> QED BY <1>3, <1>7 DEF Outcomes

(* Every step keeps the accounts.                                          *)
LEMMA OutcomesNext ==
    ASSUME Contiguous
    PROVE  TypeOK /\ OneLeader /\ OrderInv /\ Outcomes /\ TypeOK' /\ OrderInv' /\ [Next]_vars
              => Outcomes'
<1> SUFFICES ASSUME TypeOK, OneLeader, OrderInv, Outcomes, TypeOK', OrderInv', [Next]_vars
             PROVE  Outcomes'
  OBVIOUS
<1>1. CASE MaintenanceSync \/ UNCHANGED vars
  <2>1. UNCHANGED Told /\ UNCHANGED call /\ UNCHANGED pc
    BY <1>1 DEF MaintenanceSync, vars, ingest, locals, history, Told
  <2> QED BY <2>1, SameOutcomes
<1> QED BY <1>1, MoveOutcomes, BeginOutcomes, PushOutcomes, RefuseOutcomes, ResolveOutcomes,
           TakeOutcomes, FlushOutcomes DEF Next, Step

(* At first nobody is in a call.                                           *)
LEMMA OutcomesInit == Init => Outcomes
<1> SUFFICES ASSUME Init PROVE Outcomes
  OBVIOUS
<1>1. /\ \A p \in Producers : pc[p] = "idle" /\ call[p] = NoCall /\ errors_local[p] = {}
      /\ next_seq = 1 /\ resolved_seq = 0
      /\ errors = {} /\ refused = {} /\ told = {} /\ abandoned = {} /\ wronged = {}
  BY DEF Init
<1>2. NoCall.mine = {} /\ NoCall.kind # "flush"
  BY DEF NoCall
<1>3. Ranges
  BY <1>1, <1>2 DEF Ranges, Entering
<1>4. resolved_seq + 1 .. next_seq - 1 = {}
  BY <1>1
<1>5. Accounts
  BY <1>1, <1>2, <1>4 DEF Accounts
<1> QED BY <1>3, <1>5 DEF Outcomes

(* Every call learns the outcome of its own records and of no others, and  *)
(* no outcome is left behind, as long as no call waits in the middle of    *)
(* its batch or no record can be refused (log.rs take_batch_result).       *)
THEOREM OutcomesAreOwnCorrect ==
    ASSUME Contiguous
    PROVE  Spec => []OutcomesAreOwn
<1>1. TypeOK /\ OrderInv /\ Outcomes => OutcomesAreOwn
  <2> SUFFICES ASSUME TypeOK, OrderInv, Outcomes PROVE OutcomesAreOwn
    OBVIOUS
  <2>1. AckedIsWritten
    <3>1. \A s \in told : s \in Decided /\ s \notin refused
      BY DecidedRange DEF Outcomes, Accounts
    <3> QED BY <3>1 DEF AckedIsWritten, Decided
  <2>2. ErrIsOwn /\ ErrorsHaveOwner
    BY DEF Outcomes, Accounts, Owned, ErrIsOwn, ErrorsHaveOwner
  <2> QED BY <2>1, <2>2 DEF OutcomesAreOwn
<1>2. TypeOK /\ OneLeader /\ OrderInv /\ Outcomes /\ TypeOK' /\ OrderInv' /\ [Next]_vars
         => Outcomes'
  BY OutcomesNext
<1> QED BY <1>1, <1>2, OutcomesInit, TypeCorrect, OneLeaderCorrect, OrderInvCorrect, PTL DEF Spec

-----------------------------------------------------------------------------
(* Durability.  sync reaches the active segment file only, so what is      *)
(* proved of an fsync holds of every record but those in closed segments.  *)
Closed == {log[i] : i \in 1..active_base}

Kept(s) == s \in refused \/ s \in durable \/ s \in unsynced \/ s \in Closed

(* A queued or drained record carries the demand of its call.              *)
Demands ==
    /\ \A s \in mustSync : s < next_seq
    /\ \A i \in 1..Len(queue) : queue[i].seq \in mustSync => queue[i].needs_fsync
    /\ \A p \in Producers : \A i \in 1..Len(group[p]) :
          group[p][i].seq \in mustSync => group[p][i].needs_fsync

(* The sequences of the group of a leader.                                 *)
Drained(p) == {group[p][i].seq : i \in 1..Len(group[p])}

(* The group of a leader is kept before it is resolved.                    *)
Durability ==
    /\ active_base <= Len(log)
    /\ Demands
    /\ \A s \in mustSync : s <= resolved_seq => Kept(s)
    /\ \A p \in Producers : pc[p] = "resolve" => \A s \in mustSync \intersect Drained(p) : Kept(s)

(* What was written is in a closed segment or in the active one.           *)
LEMMA WrittenIn ==
    ASSUME TypeOK, active_base <= Len(log), NEW i \in 1..Len(log)
    PROVE  log[i] \in Closed \/ log[i] \in ActiveSegment
<1>1. active_base \in Nat /\ Len(log) \in Nat
  BY DEF TypeOK
<1>2. i \in 1..active_base \/ i \in active_base + 1 .. Len(log)
  BY <1>1
<1> QED BY <1>2 DEF Closed, ActiveSegment

(* Nothing that is decided, fsynced or in a closed segment ceases to be.   *)
LEMMA StoreGrows ==
    ASSUME TypeOK, active_base <= Len(log), [Next]_vars
    PROVE  /\ active_base' <= Len(log') /\ Closed \subseteq Closed'
           /\ refused \subseteq refused' /\ durable \subseteq durable' /\ unsynced \subseteq unsynced'
<1>1. refused \subseteq refused' /\ durable \subseteq durable' /\ unsynced \subseteq unsynced'
  <2>1. ASSUME NEW p \in Producers,
               \/ Begin(p) \/ DriveResolved(p) \/ DriveWait(p) \/ DriveLead(p) \/ NotifySpace(p)
               \/ WriteRecord(p) \/ Resolve(p) \/ NotifyDone(p) \/ SpuriousWakeup(p)
               \/ RoomWait(p) \/ RoomFreed(p)
        PROVE  UNCHANGED <<refused, durable, unsynced>>
    BY <2>1 DEF Begin, BeginAppend, BeginFlush, DriveResolved, DriveWait, DriveLead, NotifySpace,
                WriteRecord, Resolve, NotifyDone, SpuriousWakeup, RoomWait, RoomFreed, store, history
  <2>2. ASSUME NEW p \in Producers, Enqueue(p) \/ EnqueueWait(p) \/ EnqueueReject(p)
        PROVE  UNCHANGED <<refused, durable, unsynced>>
    BY <2>2 DEF Enqueue, EnqueueWait, EnqueueReject, store
  <2>3. ASSUME NEW p \in Producers, RefuseRecord(p)
        PROVE  refused \subseteq refused' /\ UNCHANGED <<durable, unsynced>>
    BY <2>3 DEF RefuseRecord, store
  <2>4. ASSUME NEW p \in Producers, FinishGroup(p)
        PROVE  /\ UNCHANGED refused
               /\ durable \subseteq durable' /\ unsynced \subseteq unsynced'
    BY <2>4 DEF FinishGroup
  <2>5. ASSUME NEW p \in Producers, TakeResult(p) \/ FlushSync(p)
        PROVE  UNCHANGED <<refused, unsynced>> /\ durable \subseteq durable'
    BY <2>5 DEF TakeResult, FlushSync, store
  <2>6. CASE MaintenanceSync \/ UNCHANGED vars
    BY <2>6 DEF MaintenanceSync, vars, store, history
  <2> QED BY <2>1, <2>2, <2>3, <2>4, <2>5, <2>6 DEF Next, Step
<1>2. \/ UNCHANGED <<log, active_base>>
      \/ \E p \in Producers : WriteRecord(p)
  <2>1. ASSUME NEW p \in Producers,
               \/ Begin(p) \/ DriveResolved(p) \/ DriveWait(p) \/ DriveLead(p) \/ NotifySpace(p)
               \/ Resolve(p) \/ NotifyDone(p) \/ SpuriousWakeup(p)
               \/ RoomWait(p) \/ RoomFreed(p) \/ TakeResult(p) \/ RefuseRecord(p)
        PROVE  UNCHANGED <<log, active_base>>
    BY <2>1 DEF Begin, BeginAppend, BeginFlush, DriveResolved, DriveWait, DriveLead, NotifySpace,
                Resolve, NotifyDone, SpuriousWakeup, RoomWait, RoomFreed, TakeResult,
                RefuseRecord, store
  <2>2. ASSUME NEW p \in Producers,
               Enqueue(p) \/ EnqueueWait(p) \/ EnqueueReject(p) \/ FinishGroup(p) \/ FlushSync(p)
        PROVE  UNCHANGED <<log, active_base>>
    BY <2>2 DEF Enqueue, EnqueueWait, EnqueueReject, FinishGroup, FlushSync, store
  <2>3. CASE MaintenanceSync \/ UNCHANGED vars
    BY <2>3 DEF MaintenanceSync, vars, store
  <2> QED BY <2>1, <2>2, <2>3 DEF Next, Step
<1>3. active_base' <= Len(log') /\ Closed \subseteq Closed'
  <2>1. CASE UNCHANGED <<log, active_base>>
    BY <2>1 DEF Closed
  <2>2. ASSUME NEW p \in Producers, WriteRecord(p)
        PROVE  active_base' <= Len(log') /\ Closed \subseteq Closed'
    <3>1. /\ log \in Seq(Seqs) /\ Current(p) \in Seqs /\ active_base \in Nat /\ Len(log) \in Nat
          /\ log' = Append(log, Current(p))
          /\ active_base' = active_base \/ active_base' = Len(log)
      BY <2>2, CurrentType DEF WriteRecord, TypeOK
    <3>2. Len(log') = Len(log) + 1 /\ \A i \in 1..Len(log) : log'[i] = log[i]
      BY <3>1
    <3>3. \A i \in 1..active_base : i \in 1..Len(log) /\ i \in 1..active_base'
      BY <3>1
    <3>4. Closed \subseteq Closed'
      BY <3>2, <3>3 DEF Closed
    <3>5. active_base' <= Len(log')
      BY <3>1, <3>2
    <3> QED BY <3>4, <3>5
  <2> QED BY <1>2, <2>1, <2>2
<1> QED BY <1>1, <1>3

(* What is kept stays so.                                                  *)
LEMMA KeptStays ==
    ASSUME TypeOK, active_base <= Len(log), [Next]_vars
    PROVE  active_base' <= Len(log') /\ \A s : Kept(s) => Kept(s)'
BY StoreGrows DEF Kept

(* A step that submits, drains, resolves nothing and readies no group.     *)
LEMMA SameDurability ==
    ASSUME TypeOK, Durability, [Next]_vars,
           UNCHANGED <<queue, group, mustSync, resolved_seq, next_seq>>,
           \A q \in Producers : pc'[q] = "resolve" => pc[q] = "resolve"
    PROVE  Durability'
<1>1. active_base' <= Len(log') /\ \A s : Kept(s) => Kept(s)'
  BY KeptStays DEF Durability
<1>2. Demands'
  BY DEF Durability, Demands
<1>3. \A q \in Producers : Drained(q)' = Drained(q)
  BY DEF Drained
<1> QED BY <1>1, <1>2, <1>3 DEF Durability

(* The sequences of a leader's group lie between the resolved ones and the *)
(* next one; nobody else has a group.                                      *)
LEMMA GroupIs ==
    ASSUME TypeOK, OrderInv, NEW q \in Producers, NEW i \in 1..Len(group[q])
    PROVE  /\ pc[q] \in Leading /\ i \in Nat /\ group[q][i].seq = resolved_seq + i
           /\ group[q][i].seq < next_seq
<1>1. group[q] \in Seq(Pending) /\ resolved_seq \in Nat /\ Len(queue) \in Nat
  BY DEF TypeOK
<1>2. q \in Leaders
  <2>1. q \notin Leaders => group[q] = <<>>
    BY DEF OrderInv
  <2> QED BY <1>1, <2>1
<1>3. /\ resolved_seq + Len(group[q]) + Len(queue) + 1 = next_seq
      /\ group[q][i].seq = resolved_seq + i
  BY <1>2 DEF OrderInv, Between
<1> QED BY <1>1, <1>2, <1>3 DEF Leaders

(* New sequences are beyond all that was demanded before.                  *)
LEMMA PushDurability ==
    ASSUME TypeOK, OrderInv, Durability, NEW p \in Producers, [Next]_vars,
           Enqueue(p) \/ EnqueueWait(p) \/ EnqueueReject(p)
    PROVE  Durability'
<1>1. active_base' <= Len(log') /\ \A s : Kept(s) => Kept(s)'
  BY KeptStays DEF Durability
<1>2. PICK k \in Nat : Push(p, k)
  <2>1. Room \in Nat
    BY RoomType
  <2>2. call[p].todo \in Nat
    BY GroupCommitAssumption DEF TypeOK, Call
  <2>3. Push(p, call[p].todo) \/ Push(p, Room)
    BY DEF Enqueue, EnqueueWait, EnqueueReject
  <2> QED BY <2>1, <2>2, <2>3
<1>3. /\ UNCHANGED <<group, resolved_seq>>
      /\ \A q \in Producers : pc'[q] = "resolve" => pc[q] = "resolve"
  BY DEF Enqueue, EnqueueWait, EnqueueReject, TypeOK
<1>4. /\ queue \in Seq(Pending) /\ next_seq \in Nat \ {0} /\ resolved_seq \in Nat
      /\ resolved_seq < next_seq /\ mustSync \subseteq Nat
  <2>1. resolved_seq < next_seq
    <3>1. 1..resolved_seq \subseteq 1..next_seq - 1 /\ resolved_seq \in Nat /\ next_seq \in Nat \ {0}
      BY DecidedRange DEF TypeOK, Seqs
    <3>2. CASE resolved_seq = 0
      BY <3>1, <3>2
    <3>3. CASE resolved_seq # 0
      <4>1. resolved_seq \in 1..resolved_seq
        BY <3>1, <3>3
      <4>2. resolved_seq \in 1..next_seq - 1
        BY <3>1, <4>1
      <4> QED BY <3>1, <4>2
    <3> QED BY <3>2, <3>3
  <2> QED BY <2>1 DEF TypeOK, Seqs
<1>5. \A s \in FreshSeqs(k) : s \in Nat /\ s >= next_seq /\ s < next_seq + k
  BY FreshIs
<1>6. /\ \A s \in mustSync' : s \in mustSync \/ (s \in FreshSeqs(k) /\ call[p].needs_fsync)
      /\ next_seq' = next_seq + k /\ queue' = queue \o Fresh(p, k)
  BY <1>2 DEF Push
<1>7. \A s : s \in mustSync' /\ s < next_seq => s \in mustSync
  BY <1>4, <1>5, <1>6
<1>8. \A s \in mustSync' : s < next_seq'
  <2>1. \A s \in mustSync : s < next_seq /\ s \in Nat
    BY <1>4 DEF Durability, Demands
  <2>2. \A s \in mustSync : s < next_seq + k
    BY <1>4, <2>1
  <2> QED BY <1>5, <1>6, <2>2
<1>9. \A i \in 1..Len(queue') : queue'[i].seq \in mustSync' => queue'[i].needs_fsync
  <2> SUFFICES ASSUME NEW i \in 1..Len(queue'), queue'[i].seq \in mustSync'
               PROVE  queue'[i].needs_fsync
    OBVIOUS
  <2>1. /\ Fresh(p, k) \in Seq(Pending) /\ Len(Fresh(p, k)) = k
        /\ \A j \in 1..k : Fresh(p, k)[j].seq = next_seq + j - 1
    BY FreshType
  <2>2. Len(queue') = Len(queue) + k /\ Len(queue) \in Nat
    <3>1. queue' = queue \o Fresh(p, k) /\ queue \in Seq(Pending)
      BY <1>4, <1>6
    <3>2. \A f \in Seq(Pending) : Len(queue \o f) = Len(queue) + Len(f) /\ Len(queue) \in Nat
      BY <3>1
    <3>3. Len(queue \o Fresh(p, k)) = Len(queue) + k /\ Len(queue) \in Nat
      BY <2>1, <3>2
    <3> QED BY <3>1, <3>3
  <2>3. CASE i \in 1..Len(queue)
    <3>1. queue'[i] = queue[i]
      <4>1. queue' = queue \o Fresh(p, k) /\ queue \in Seq(Pending)
        BY <1>4, <1>6
      <4> QED BY <2>1, <2>3, <4>1
    <3>2. queue[i].seq + Len(queue) = next_seq - 1 + i /\ queue[i].seq \in Nat
      <4>1. queue[i] \in Pending
        BY <1>4, <2>3
      <4> QED BY <2>3, <4>1 DEF OrderInv, QueueIsTail, Pending, Seqs
    <3>3. queue[i].seq < next_seq
      BY <1>4, <2>2, <2>3, <3>2
    <3>4. queue[i].seq \in mustSync
      BY <1>7, <3>1, <3>3
    <3> QED BY <2>3, <3>1, <3>4 DEF Durability, Demands
  <2>4. CASE i \notin 1..Len(queue)
    <3>1. i - Len(queue) \in 1..k
      BY <2>2, <2>4
    <3>2. queue'[i] = Fresh(p, k)[i - Len(queue)]
      BY <1>4, <1>6, <2>1, <2>2, <2>4
    <3>3. /\ queue'[i].seq = next_seq + (i - Len(queue)) - 1
          /\ queue'[i].needs_fsync = call[p].needs_fsync
      BY <2>1, <3>1, <3>2 DEF Fresh
    <3>4. queue'[i].seq \notin mustSync
      <4>1. queue'[i].seq \in Nat /\ queue'[i].seq >= next_seq
        BY <1>4, <2>2, <3>1, <3>3
      <4>2. \A s \in mustSync : s < next_seq /\ s \in Nat
        BY <1>4 DEF Durability, Demands
      <4> QED BY <1>4, <4>1, <4>2
    <3> QED BY <1>6, <3>3, <3>4
  <2> QED BY <2>3, <2>4
<1>10. \A q \in Producers : \A i \in 1..Len(group[q]) :
          group[q][i].seq \in mustSync' => group[q][i].seq \in mustSync
  BY <1>7, GroupIs
<1>11. Demands'
  BY <1>3, <1>8, <1>9, <1>10 DEF Durability, Demands
<1>12. \A s \in mustSync' : s <= resolved_seq' => Kept(s)'
  <2>1. \A s \in mustSync' : s <= resolved_seq => s \in mustSync
    BY <1>4, <1>5, <1>6
  <2> QED BY <1>1, <1>3, <2>1 DEF Durability
<1>13. \A q \in Producers : pc'[q] = "resolve" =>
          \A s \in mustSync' \intersect Drained(q)' : Kept(s)'
  <2>1. \A q \in Producers : Drained(q)' = Drained(q)
    BY <1>3 DEF Drained
  <2>2. \A q \in Producers : \A s \in mustSync' \intersect Drained(q) : s \in mustSync
    BY <1>10 DEF Drained
  <2> QED BY <1>1, <1>3, <2>1, <2>2 DEF Durability
<1> QED BY <1>1, <1>11, <1>12, <1>13 DEF Durability

(* The queue becomes the group, and keeps its demands.                     *)
LEMMA LeadDurability ==
    ASSUME TypeOK, Durability, NEW p \in Producers, [Next]_vars, DriveLead(p)
    PROVE  Durability'
<1>1. active_base' <= Len(log') /\ \A s : Kept(s) => Kept(s)'
  BY KeptStays DEF Durability
<1>2. /\ queue' = <<>> /\ UNCHANGED <<mustSync, next_seq, resolved_seq>>
      /\ \A q \in Producers : group'[q] = IF q = p THEN queue ELSE group[q]
      /\ \A q \in Producers : pc'[q] = "resolve" => pc[q] = "resolve" /\ q # p
  BY DEF DriveLead, history, TypeOK
<1>3. Demands'
  BY <1>2 DEF Durability, Demands
<1>4. \A q \in Producers : q # p => Drained(q)' = Drained(q)
  BY <1>2 DEF Drained
<1> QED BY <1>1, <1>2, <1>3, <1>4 DEF Durability

(* The fsync of a group covers what it wrote, or is seen to have failed.   *)
LEMMA FinishDurability ==
    ASSUME TypeOK, OrderInv, Durability, NEW p \in Producers, [Next]_vars, FinishGroup(p),
           errors_local[p] \subseteq refused
    PROVE  Durability'
<1>1. active_base' <= Len(log') /\ \A s : Kept(s) => Kept(s)'
  BY KeptStays DEF Durability
<1>2. /\ UNCHANGED <<queue, group, mustSync, resolved_seq, next_seq, log, active_base, refused>>
      /\ \A q \in Producers : pc'[q] = "resolve" => pc[q] = "resolve" \/ q = p
      /\ pc[p] = "write" /\ written[p] = Len(group[p])
  BY DEF FinishGroup, ingest, TypeOK
<1>3. Demands'
  BY <1>2 DEF Durability, Demands
<1>4. ASSUME NEW s \in mustSync, NEW i \in 1..Len(group[p]), s = group[p][i].seq
      PROVE  Kept(s)'
  <2>1. s \in Decided
    <3>1. Decided = 1 .. resolved_seq + Len(group[p])
      <4>1. p \in Leaders
        BY <1>2 DEF Leaders, Leading
      <4> QED BY <1>2, <4>1 DEF OrderInv, Between
    <3>2. resolved_seq \in Nat /\ Len(group[p]) \in Nat /\ s = resolved_seq + i
      BY <1>4, GroupIs DEF TypeOK
    <3> QED BY <3>1, <3>2
  <2>2. CASE s \in refused
    BY <1>2, <2>2 DEF Kept
  <2>3. CASE s \notin refused
    <3>1. s \in Closed \/ s \in ActiveSegment
      BY <2>1, <2>3, WrittenIn DEF Decided, Durability
    <3>2. GroupNeedsFsync(p) /\ Wrote(p)
      BY <1>4, <2>3 DEF Durability, Demands, GroupNeedsFsync, Wrote
    <3>3. Closed' = Closed
      BY <1>2 DEF Closed
    <3>4. ActiveSegment \subseteq durable' \/ s \in unsynced'
      <4>1. CASE durable' = IF Wrote(p) /\ GroupNeedsFsync(p)
                            THEN durable \union ActiveSegment ELSE durable
        BY <3>2, <4>1
      <4>2. CASE unsynced' = unsynced \union {group[p][j].seq : j \in DOMAIN group[p]}
        <5>1. i \in DOMAIN group[p]
          BY DEF TypeOK
        <5> QED BY <1>4, <4>2, <5>1
      <4> QED BY <4>1, <4>2 DEF FinishGroup
    <3> QED BY <3>1, <3>3, <3>4 DEF Kept
  <2> QED BY <2>2, <2>3
<1>5. \A q \in Producers : pc'[q] = "resolve" =>
         \A s \in mustSync' \intersect Drained(q)' : Kept(s)'
  <2>1. \A q \in Producers : Drained(q)' = Drained(q)
    BY <1>2 DEF Drained
  <2>2. \A s \in mustSync \intersect Drained(p) : Kept(s)'
    BY <1>4 DEF Drained
  <2> QED BY <1>1, <1>2, <2>1, <2>2 DEF Durability
<1>6. \A s \in mustSync' : s <= resolved_seq' => Kept(s)'
  BY <1>1, <1>2 DEF Durability
<1> QED BY <1>1, <1>3, <1>5, <1>6 DEF Durability

(* Resolving ends at the last sequence of the group.                       *)
LEMMA ResolveDurability ==
    ASSUME TypeOK, OrderInv, Durability, NEW p \in Producers, [Next]_vars, Resolve(p)
    PROVE  Durability'
<1>1. active_base' <= Len(log') /\ \A s : Kept(s) => Kept(s)'
  BY KeptStays DEF Durability
<1>2. /\ UNCHANGED <<queue, mustSync, next_seq>> /\ pc[p] = "resolve"
      /\ \A q \in Producers : group'[q] = IF q = p THEN <<>> ELSE group[q]
      /\ \A q \in Producers : pc'[q] = "resolve" => pc[q] = "resolve" /\ q # p
  BY DEF Resolve, history, TypeOK
<1>3. Demands'
  BY <1>2 DEF Durability, Demands
<1>4. \A s \in mustSync : s <= resolved_seq' =>
         s <= resolved_seq \/ \E i \in 1..Len(group[p]) : group[p][i].seq = s
  <2> SUFFICES ASSUME NEW s \in mustSync, s <= resolved_seq', ~(s <= resolved_seq)
               PROVE  \E i \in 1..Len(group[p]) : group[p][i].seq = s
    OBVIOUS
  <2>1. s \in Nat /\ resolved_seq \in Nat /\ group[p] \in Seq(Pending)
    BY DEF TypeOK, Seqs
  <2>2. group[p] # <<>> /\ resolved_seq' = group[p][Len(group[p])].seq
    BY <2>1 DEF Resolve, MaxOf
  <2>3. Len(group[p]) \in 1..Len(group[p])
    BY <2>1, <2>2
  <2>4. resolved_seq' = resolved_seq + Len(group[p])
    BY <2>2, <2>3, GroupIs
  <2>5. s - resolved_seq \in 1..Len(group[p])
    BY <2>1, <2>3, <2>4
  <2>6. group[p][s - resolved_seq].seq = resolved_seq + (s - resolved_seq)
    BY <2>5, GroupIs
  <2> QED BY <2>1, <2>5, <2>6
<1>5. \A s \in mustSync' : s <= resolved_seq' => Kept(s)'
  BY <1>1, <1>2, <1>4 DEF Durability, Drained
<1>6. \A q \in Producers : q # p => Drained(q)' = Drained(q)
  BY <1>2 DEF Drained
<1> QED BY <1>1, <1>2, <1>3, <1>5, <1>6 DEF Durability

(* Every step keeps what an fsync was demanded for.                        *)
LEMMA DurabilityNext ==
    ASSUME TypeOK, OrderInv, Outcomes, Durability, [Next]_vars
    PROVE  Durability'
<1>1. ASSUME NEW p \in Producers,
             \/ Begin(p) \/ DriveResolved(p) \/ DriveWait(p) \/ TakeResult(p)
             \/ SpuriousWakeup(p) \/ FlushSync(p)
      PROVE  Durability'
  <2>1. UNCHANGED <<queue, group, mustSync, resolved_seq, next_seq>>
    BY <1>1 DEF Begin, BeginAppend, BeginFlush, DriveResolved, DriveWait, TakeResult, FlushSync,
                SpuriousWakeup, ingest, history
  <2>2. \A q \in Producers : pc'[q] = "resolve" => pc[q] = "resolve"
    BY <1>1 DEF Begin, BeginAppend, BeginFlush, DriveResolved, DriveWait, TakeResult, FlushSync,
                SpuriousWakeup, TypeOK
  <2> QED BY <2>1, <2>2, SameDurability
<1>2. ASSUME NEW p \in Producers,
             \/ NotifySpace(p) \/ NotifyDone(p) \/ RoomWait(p) \/ RoomFreed(p)
             \/ WriteRecord(p) \/ RefuseRecord(p)
      PROVE  Durability'
  <2>1. UNCHANGED <<queue, group, mustSync, resolved_seq, next_seq>>
    BY <1>2 DEF NotifySpace, NotifyDone, RoomWait, RoomFreed, WriteRecord, RefuseRecord,
                ingest, history
  <2>2. \A q \in Producers : pc'[q] = "resolve" => pc[q] = "resolve"
    BY <1>2 DEF NotifySpace, NotifyDone, RoomWait, RoomFreed, WriteRecord, RefuseRecord, TypeOK
  <2> QED BY <2>1, <2>2, SameDurability
<1>3. CASE MaintenanceSync \/ UNCHANGED vars
  <2>1. UNCHANGED <<queue, group, mustSync, resolved_seq, next_seq, pc>>
    BY <1>3 DEF MaintenanceSync, vars, ingest, locals, history
  <2> QED BY <2>1, SameDurability
<1>4. \A p \in Producers : errors_local[p] \subseteq refused
  BY DEF Outcomes, Accounts
<1> QED BY <1>1, <1>2, <1>3, <1>4, PushDurability, LeadDurability, FinishDurability,
           ResolveDurability DEF Next, Step

(* Nothing demands an fsync at first.                                      *)
LEMMA DurabilityInit == Init => Durability
<1> SUFFICES ASSUME Init PROVE Durability
  OBVIOUS
<1>1. /\ queue = <<>> /\ mustSync = {} /\ active_base = 0 /\ log = <<>>
      /\ \A p \in Producers : group[p] = <<>> /\ pc[p] = "idle"
  BY DEF Init
<1> QED BY <1>1 DEF Durability, Demands

(* A producer that asked for an fsync is told Ok only once its record was  *)
(* fsynced, or the fsync of its group failed, or its segment was closed:   *)
(* until the log rolls, AckedIsDurable holds (write_group, sync).          *)
THEOREM AckedIsDurableCorrect ==
    ASSUME Contiguous
    PROVE  Spec => []((told \intersect mustSync \subseteq durable \union unsynced \union Closed)
                      /\ (active_base = 0 => AckedIsDurable))
<1>1. TypeOK /\ Outcomes /\ Durability =>
         /\ told \intersect mustSync \subseteq durable \union unsynced \union Closed
         /\ active_base = 0 => AckedIsDurable
  <2> SUFFICES ASSUME TypeOK, Outcomes, Durability
               PROVE  /\ told \intersect mustSync \subseteq durable \union unsynced \union Closed
                      /\ active_base = 0 => AckedIsDurable
    OBVIOUS
  <2>1. \A s \in told : s <= resolved_seq /\ s \notin refused
    <3>1. resolved_seq \in Nat
      BY DEF TypeOK
    <3> QED BY <3>1 DEF Outcomes, Accounts
  <2>2. told \intersect mustSync \subseteq durable \union unsynced \union Closed
    BY <2>1 DEF Durability, Kept
  <2>3. active_base = 0 => Closed = {}
    BY DEF Closed
  <2> QED BY <2>2, <2>3 DEF AckedIsDurable
<1>2. TypeOK /\ OneLeader /\ OrderInv /\ Outcomes /\ TypeOK' /\ OrderInv' /\ [Next]_vars
         => Outcomes'
  BY OutcomesNext
<1>3. TypeOK /\ OrderInv /\ Outcomes /\ Durability /\ [Next]_vars => Durability'
  BY DurabilityNext
<1> QED BY <1>1, <1>2, <1>3, OutcomesInit, DurabilityInit, TypeCorrect, OneLeaderCorrect,
           OrderInvCorrect, PTL DEF Spec

(* What a flush has to cover is resolved by the time it fsyncs the store,  *)
(* and stays covered: closed segments are out of its reach.                *)
Flushes ==
    /\ active_base <= Len(log)
    /\ \A p \in Producers : call[p].kind = "flush" =>
          pc[p] \notin Entering /\ call[p].last + 1 = call[p].first
    /\ \A p \in Producers : pc[p] = "sync" =>
          call[p].kind = "flush" /\ call[p].last <= resolved_seq
    /\ flushed <= resolved_seq
    /\ \A s \in 1..flushed : s \in refused \/ s \in durable \/ s \in Closed

(* resolved_seq never goes back. *)
LEMMA ResolvedGrows ==
    ASSUME TypeOK, [Next]_vars
    PROVE  resolved_seq' \in Nat /\ resolved_seq \in Nat /\ resolved_seq <= resolved_seq'
<1>1. resolved_seq \in Nat
  BY DEF TypeOK
<1>2. ASSUME NEW p \in Producers, Resolve(p) PROVE resolved_seq' >= resolved_seq /\ resolved_seq' \in Nat
  BY <1>1, <1>2, MaxOfType DEF Resolve
<1>3. ASSUME NEW p \in Producers,
             \/ Begin(p) \/ SpuriousWakeup(p) \/ RoomWait(p) \/ RoomFreed(p)
             \/ Enqueue(p) \/ EnqueueWait(p) \/ EnqueueReject(p)
             \/ DriveResolved(p) \/ DriveWait(p) \/ DriveLead(p)
      PROVE  resolved_seq' = resolved_seq
  BY <1>3 DEF Begin, BeginAppend, BeginFlush, SpuriousWakeup, RoomWait, RoomFreed, Enqueue,
              EnqueueWait, EnqueueReject, DriveResolved, DriveWait, DriveLead, ingest
<1>4. ASSUME NEW p \in Producers,
             \/ NotifySpace(p) \/ WriteRecord(p) \/ RefuseRecord(p) \/ FinishGroup(p)
             \/ NotifyDone(p) \/ TakeResult(p) \/ FlushSync(p)
      PROVE  resolved_seq' = resolved_seq
  BY <1>4 DEF NotifySpace, WriteRecord, RefuseRecord, FinishGroup, NotifyDone, TakeResult,
              FlushSync, ingest
<1>5. CASE MaintenanceSync \/ UNCHANGED vars
  BY <1>1, <1>5 DEF MaintenanceSync, vars, ingest
<1> QED BY <1>1, <1>2, <1>3, <1>4, <1>5 DEF Next, Step

(* No flush that goes on is disturbed.                                     *)
Undisturbed ==
    /\ flushed' = flushed
    /\ \A q \in Producers :
          call'[q] # call[q] /\ call'[q].kind = "flush" =>
             pc'[q] = "drive" /\ call'[q].last + 1 = call'[q].first
    /\ \A q \in Producers : call'[q] = call[q] /\ pc'[q] \in Entering => pc[q] \in Entering
    /\ \A q \in Producers : pc'[q] = "sync" =>
          /\ call'[q] = call[q]
          /\ pc[q] = "sync" \/ (call[q].kind = "flush" /\ call[q].last <= resolved_seq)

(* A step that disturbs no flush.                                          *)
LEMMA MoveFlushes ==
    ASSUME TypeOK, Flushes, [Next]_vars, Undisturbed
    PROVE  Flushes'
<1>1. /\ active_base' <= Len(log') /\ Closed \subseteq Closed'
      /\ refused \subseteq refused' /\ durable \subseteq durable'
  BY StoreGrows DEF Flushes
<1>2. /\ resolved_seq \in Nat /\ resolved_seq' \in Nat /\ resolved_seq <= resolved_seq'
      /\ flushed \in Nat /\ \A q \in Producers : call[q].last \in Nat
  BY ResolvedGrows DEF TypeOK, Call
<1>3. \A q \in Producers : call'[q].kind = "flush" =>
         pc'[q] \notin Entering /\ call'[q].last + 1 = call'[q].first
  BY DEF Flushes, Entering, Undisturbed
<1>4. \A q \in Producers : pc'[q] = "sync" =>
         call'[q].kind = "flush" /\ call'[q].last <= resolved_seq'
  <2>1. \A q \in Producers : pc'[q] = "sync" =>
           call'[q] = call[q] /\ call[q].kind = "flush" /\ call[q].last <= resolved_seq
    BY DEF Flushes, Undisturbed
  <2> QED BY <1>2, <2>1
<1>5. flushed' <= resolved_seq'
  BY <1>2 DEF Flushes, Undisturbed
<1>6. \A s \in 1..flushed' : s \in refused' \/ s \in durable' \/ s \in Closed'
  BY <1>1 DEF Flushes, Undisturbed
<1> QED BY <1>1, <1>3, <1>4, <1>5, <1>6 DEF Flushes

(* A flush fsyncs the active segment when all it covers is decided.        *)
LEMMA SyncFlushes ==
    ASSUME TypeOK, OrderInv, Flushes, [Next]_vars, NEW p \in Producers, FlushSync(p)
    PROVE  Flushes'
<1>1. /\ active_base' <= Len(log') /\ Closed \subseteq Closed'
      /\ refused \subseteq refused' /\ durable \subseteq durable'
  BY StoreGrows DEF Flushes
<1>2. /\ pc[p] = "sync" /\ pc'[p] = "idle" /\ call'[p] = NoCall
      /\ \A q \in Producers : q # p => pc'[q] = pc[q] /\ call'[q] = call[q]
      /\ UNCHANGED resolved_seq
  BY DEF FlushSync, TypeOK, ingest
<1>3. NoCall.kind # "flush"
  BY DEF NoCall
<1>4. /\ call[p].last + 1 = call[p].first /\ call[p].last <= resolved_seq
      /\ call[p].last \in Nat /\ resolved_seq \in Nat /\ flushed \in Nat
  BY <1>2 DEF Flushes, TypeOK, Call
<1>5. CASE flushed' = flushed
  <2>1. \A s \in 1..flushed' : s \in refused' \/ s \in durable' \/ s \in Closed'
    BY <1>1, <1>5 DEF Flushes
  <2> QED BY <1>1, <1>2, <1>3, <1>5, <2>1 DEF Flushes
<1>6. CASE flushed' # flushed
  <2>1. durable' = durable \union ActiveSegment /\ flushed' = call[p].last
    BY <1>4, <1>6 DEF FlushSync
  <2>2. \A s \in 1..flushed' : s \in refused' \/ s \in durable' \/ s \in Closed'
    <3> SUFFICES ASSUME NEW s \in 1..flushed'
                 PROVE  s \in refused' \/ s \in durable' \/ s \in Closed'
      OBVIOUS
    <3>1. s \in 1..resolved_seq
      BY <1>4, <2>1
    <3>2. s \in Decided
      BY <3>1, DecidedRange
    <3>3. s \in refused \/ s \in Closed \/ s \in ActiveSegment
      BY <3>2, WrittenIn DEF Decided, Flushes
    <3> QED BY <1>1, <2>1, <3>3
  <2>3. flushed' <= resolved_seq'
    BY <1>2, <1>4, <2>1
  <2> QED BY <1>1, <1>2, <1>3, <2>2, <2>3 DEF Flushes
<1> QED BY <1>5, <1>6

(* Every step keeps what a flush covers.                                   *)
LEMMA FlushesNext ==
    ASSUME TypeOK, OrderInv, Flushes, [Next]_vars
    PROVE  Flushes'
<1>0. pc \in [Producers -> Locations] /\ call \in [Producers -> Call]
  BY DEF TypeOK
<1>1. ASSUME NEW p \in Producers, Begin(p) PROVE Flushes'
  <2>1. flushed' = flushed
    BY <1>1 DEF Begin, BeginAppend, BeginFlush, history
  <2>2. /\ call'[p].kind # "flush" \/ (pc'[p] = "drive" /\ call'[p].last + 1 = call'[p].first)
        /\ pc[p] = "idle" /\ pc'[p] \in {"drive", "enqueue"}
        /\ \A q \in Producers : q # p => pc'[q] = pc[q] /\ call'[q] = call[q]
    <3>1. CASE BeginFlush(p)
      <4>1. next_seq \in Nat
        BY DEF TypeOK, Seqs
      <4>2. call'[p] = [NoCall EXCEPT !.kind = "flush", !.first = next_seq, !.last = next_seq - 1]
        BY <1>0, <3>1 DEF BeginFlush
      <4>3. call'[p].first = next_seq /\ call'[p].last = next_seq - 1
        BY <4>2 DEF NoCall
      <4>4. call'[p].last + 1 = call'[p].first
        BY <4>1, <4>3
      <4> QED BY <1>0, <3>1, <4>4 DEF BeginFlush
    <3>2. ASSUME NEW kind \in {"append", "append_batch"}, NEW n \in 1..MaxBatch,
                 BeginAppend(p, kind, n)
          PROVE  /\ call'[p].kind # "flush" /\ pc[p] = "idle" /\ pc'[p] = "enqueue"
                 /\ \A q \in Producers : q # p => pc'[q] = pc[q] /\ call'[q] = call[q]
      BY <1>0, <3>2 DEF BeginAppend, NoCall
    <3> QED BY <1>1, <3>1, <3>2 DEF Begin
  <2>3. pc'[p] = "enqueue" => call'[p] # call[p] \/ call[p].kind # "flush"
    BY <2>2
  <2>4. call'[p].kind = "flush" => pc'[p] \notin Entering /\ call'[p].last + 1 = call'[p].first
    BY <2>2 DEF Entering
  <2>5. /\ active_base' <= Len(log') /\ Closed \subseteq Closed'
        /\ refused \subseteq refused' /\ durable \subseteq durable'
    BY StoreGrows DEF Flushes
  <2>6. resolved_seq' = resolved_seq
    BY <1>1 DEF Begin, BeginAppend, BeginFlush, ingest
  <2>7. \A s \in 1..flushed' : s \in refused' \/ s \in durable' \/ s \in Closed'
    BY <2>1, <2>5 DEF Flushes
  <2> QED BY <2>1, <2>2, <2>4, <2>5, <2>6, <2>7 DEF Flushes
<1>2. ASSUME NEW p \in Producers, Enqueue(p) \/ EnqueueWait(p) \/ EnqueueReject(p)
      PROVE  Flushes'
  <2>1. flushed' = flushed /\ pc[p] = "enqueue"
    BY <1>2 DEF Enqueue, EnqueueWait, EnqueueReject
  <2>2. call[p].kind # "flush"
    BY <2>1 DEF Flushes, Entering
  <2>3. /\ call'[p].kind # "flush" /\ pc'[p] \in {"drive", "wait_space", "idle"}
        /\ \A q \in Producers : q # p => pc'[q] = pc[q] /\ call'[q] = call[q]
    BY <1>0, <1>2, <2>2 DEF Enqueue, EnqueueWait, EnqueueReject, Pushed, NoCall
  <2>4. \A q \in Producers : call'[q] = call[q] /\ pc'[q] \in Entering => pc[q] \in Entering
    BY <2>1, <2>3 DEF Entering
  <2>7. \A q \in Producers :
        call'[q] # call[q] /\ call'[q].kind = "flush" =>
           pc'[q] = "drive" /\ call'[q].last + 1 = call'[q].first
    BY <2>1, <2>3, <2>4
  <2>8. \A q \in Producers : pc'[q] = "sync" =>
           /\ call'[q] = call[q]
           /\ pc[q] = "sync" \/ (call[q].kind = "flush" /\ call[q].last <= resolved_seq)
    BY <2>1, <2>3, <2>4
  <2>9. \A q \in Producers : call'[q] = call[q] /\ pc'[q] \in Entering => pc[q] \in Entering
    BY <2>1, <2>3, <2>4
  <2>10. Undisturbed
    BY <2>1, <2>7, <2>8, <2>9 DEF Undisturbed
  <2> QED BY <2>10, MoveFlushes
<1>3. ASSUME NEW p \in Producers, TakeResult(p) PROVE Flushes'
  <2>1. /\ flushed' = flushed /\ pc'[p] = "idle" /\ call'[p].kind # "flush"
        /\ \A q \in Producers : q # p => pc'[q] = pc[q] /\ call'[q] = call[q]
    BY <1>0, <1>3 DEF TakeResult, NoCall
  <2>2. \A q \in Producers : call'[q] = call[q] /\ pc'[q] \in Entering => pc[q] \in Entering
    BY <2>1 DEF Entering
  <2>7. \A q \in Producers :
        call'[q] # call[q] /\ call'[q].kind = "flush" =>
           pc'[q] = "drive" /\ call'[q].last + 1 = call'[q].first
    BY <2>1, <2>2
  <2>8. \A q \in Producers : pc'[q] = "sync" =>
           /\ call'[q] = call[q]
           /\ pc[q] = "sync" \/ (call[q].kind = "flush" /\ call[q].last <= resolved_seq)
    BY <2>1, <2>2
  <2>9. \A q \in Producers : call'[q] = call[q] /\ pc'[q] \in Entering => pc[q] \in Entering
    BY <2>1, <2>2
  <2>10. Undisturbed
    BY <2>1, <2>7, <2>8, <2>9 DEF Undisturbed
  <2> QED BY <2>10, MoveFlushes
<1>4. ASSUME NEW p \in Producers, DriveResolved(p) PROVE Flushes'
  <2>1. /\ flushed' = flushed /\ UNCHANGED call
        /\ \A q \in Producers : q # p => pc'[q] = pc[q]
        /\ pc'[p] \in {"sync", "take"} /\ (pc'[p] = "sync" => call[p].kind = "flush")
        /\ resolved_seq >= call[p].last
    BY <1>0, <1>4 DEF DriveResolved, history
  <2>2. call[p].last \in Nat /\ resolved_seq \in Nat
    BY DEF TypeOK, Call
  <2>3. \A q \in Producers : call'[q] = call[q] /\ pc'[q] \in Entering => pc[q] \in Entering
    BY <2>1 DEF Entering
  <2>7. \A q \in Producers :
        call'[q] # call[q] /\ call'[q].kind = "flush" =>
           pc'[q] = "drive" /\ call'[q].last + 1 = call'[q].first
    BY <2>1, <2>2, <2>3
  <2>8. \A q \in Producers : pc'[q] = "sync" =>
           /\ call'[q] = call[q]
           /\ pc[q] = "sync" \/ (call[q].kind = "flush" /\ call[q].last <= resolved_seq)
    BY <2>1, <2>2, <2>3
  <2>9. \A q \in Producers : call'[q] = call[q] /\ pc'[q] \in Entering => pc[q] \in Entering
    BY <2>1, <2>2, <2>3
  <2>10. Undisturbed
    BY <2>1, <2>7, <2>8, <2>9 DEF Undisturbed
  <2> QED BY <2>10, MoveFlushes
<1>5. ASSUME NEW p \in Producers,
             \/ DriveWait(p) \/ DriveLead(p) \/ WriteRecord(p) \/ RefuseRecord(p)
             \/ FinishGroup(p) \/ Resolve(p) \/ RoomWait(p) \/ RoomFreed(p) \/ SpuriousWakeup(p)
      PROVE  Flushes'
  <2>1. flushed' = flushed /\ UNCHANGED call
    BY <1>5 DEF DriveWait, DriveLead, WriteRecord, RefuseRecord, FinishGroup, Resolve, RoomWait,
                RoomFreed, SpuriousWakeup, history
  <2>2. \A q \in Producers : /\ pc'[q] \in Entering => pc[q] \in Entering
                             /\ pc'[q] = "sync" => pc[q] = "sync"
    BY <1>0, <1>5 DEF DriveWait, DriveLead, WriteRecord, RefuseRecord, FinishGroup, Resolve,
                      RoomWait, RoomFreed, SpuriousWakeup, Entering
  <2>7. \A q \in Producers :
        call'[q] # call[q] /\ call'[q].kind = "flush" =>
           pc'[q] = "drive" /\ call'[q].last + 1 = call'[q].first
    BY <2>1, <2>2
  <2>8. \A q \in Producers : pc'[q] = "sync" =>
           /\ call'[q] = call[q]
           /\ pc[q] = "sync" \/ (call[q].kind = "flush" /\ call[q].last <= resolved_seq)
    BY <2>1, <2>2
  <2>9. \A q \in Producers : call'[q] = call[q] /\ pc'[q] \in Entering => pc[q] \in Entering
    BY <2>1, <2>2
  <2>10. Undisturbed
    BY <2>1, <2>7, <2>8, <2>9 DEF Undisturbed
  <2> QED BY <2>10, MoveFlushes
<1>6. ASSUME NEW p \in Producers, NotifySpace(p) \/ NotifyDone(p) PROVE Flushes'
  <2>1. flushed' = flushed /\ UNCHANGED call
    BY <1>6 DEF NotifySpace, NotifyDone, history
  <2>2. \A q \in Producers : /\ pc'[q] \in Entering => pc[q] \in Entering
                             /\ pc'[q] = "sync" => pc[q] = "sync"
    BY <1>0, <1>6 DEF NotifySpace, NotifyDone, Entering
  <2>7. \A q \in Producers :
        call'[q] # call[q] /\ call'[q].kind = "flush" =>
           pc'[q] = "drive" /\ call'[q].last + 1 = call'[q].first
    BY <2>1, <2>2
  <2>8. \A q \in Producers : pc'[q] = "sync" =>
           /\ call'[q] = call[q]
           /\ pc[q] = "sync" \/ (call[q].kind = "flush" /\ call[q].last <= resolved_seq)
    BY <2>1, <2>2
  <2>9. \A q \in Producers : call'[q] = call[q] /\ pc'[q] \in Entering => pc[q] \in Entering
    BY <2>1, <2>2
  <2>10. Undisturbed
    BY <2>1, <2>7, <2>8, <2>9 DEF Undisturbed
  <2> QED BY <2>10, MoveFlushes
<1>7. CASE MaintenanceSync \/ UNCHANGED vars
  <2>1. flushed' = flushed /\ UNCHANGED call /\ UNCHANGED pc
    BY <1>7 DEF MaintenanceSync, vars, locals, history
  <2>7. \A q \in Producers :
        call'[q] # call[q] /\ call'[q].kind = "flush" =>
           pc'[q] = "drive" /\ call'[q].last + 1 = call'[q].first
    BY <2>1
  <2>8. \A q \in Producers : pc'[q] = "sync" =>
           /\ call'[q] = call[q]
           /\ pc[q] = "sync" \/ (call[q].kind = "flush" /\ call[q].last <= resolved_seq)
    BY <2>1
  <2>9. \A q \in Producers : call'[q] = call[q] /\ pc'[q] \in Entering => pc[q] \in Entering
    BY <2>1
  <2>10. Undisturbed
    BY <2>1, <2>7, <2>8, <2>9 DEF Undisturbed
  <2> QED BY <2>10, MoveFlushes
<1> QED BY <1>1, <1>2, <1>3, <1>4, <1>5, <1>6, <1>7, SyncFlushes DEF Next, Step

(* No flush is under way at first.                                         *)
LEMMA FlushesInit == Init => Flushes
<1> SUFFICES ASSUME Init PROVE Flushes
  OBVIOUS
<1>1. /\ flushed = 0 /\ resolved_seq = 0 /\ active_base = 0 /\ log = <<>>
      /\ \A p \in Producers : pc[p] = "idle" /\ call[p] = NoCall
  BY DEF Init
<1> QED BY <1>1 DEF Flushes, NoCall, Entering

(* A flush that returned Ok left every record submitted before it fsynced, *)
(* refused or in a closed segment: until the log rolls, FlushCovers holds  *)
(* (log.rs flush), whatever the policies and the faults.                   *)
THEOREM FlushCoversCorrect ==
    Spec => []((\A s \in 1..flushed : s \in refused \/ s \in durable \/ s \in Closed)
               /\ (active_base = 0 => FlushCovers))
<1>1. Flushes => /\ \A s \in 1..flushed : s \in refused \/ s \in durable \/ s \in Closed
                 /\ active_base = 0 => FlushCovers
  <2>1. active_base = 0 => Closed = {}
    BY DEF Closed
  <2> QED BY <2>1 DEF Flushes, FlushCovers
<1>2. TypeOK /\ OrderInv /\ Flushes /\ [Next]_vars => Flushes'
  BY FlushesNext
<1> QED BY <1>1, <1>2, FlushesInit, TypeCorrect, OrderInvCorrect, PTL DEF Spec
=============================================================================
