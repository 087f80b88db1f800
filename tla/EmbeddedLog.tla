---------------------------- MODULE EmbeddedLog ----------------------------
(***************************************************************************)
(* One stream of edgestreamlog on disk, from the leader that writes a      *)
(* group to the sink: EmbeddedLog under its inner lock (log.rs), the       *)
(* export engine (export/mod.rs), the maintenance thread, flush, the       *)
(* delivery checkpoint (blockstore/checkpoint.rs), and a process that is   *)
(* killed, loses power, or shuts down, and opens its files again.          *)
(*                                                                         *)
(* How producers form groups is module GroupCommit; here a group is a run  *)
(* of fresh records.  Every record has an id of its own, since a power     *)
(* loss lets an offset be used twice.                                      *)
(***************************************************************************)
EXTENDS SegmentLog

CONSTANTS
    SegmentRecords,  \* segment_bytes, in records
    MaxDiskRecords,  \* max_disk_bytes, in records
    BatchRecords,    \* batch.max_records of the export engine
    MaxRetries,      \* delivery.max_retries, -1 for ever
    StoreTypes,      \* what buffer.type may be: "disk", "memory"
    OnFull,          \* buffer.on_full
    Fsync,           \* buffer.fsync
    Outcomes,        \* what the sink may answer
    MaxRecords,      \* model bound: records ever submitted
    MaxGroup,        \* model bound: records in a group
    MaxFlushes,      \* model bound: calls of flush
    MaxRestarts,     \* model bound: crashes and shutdowns
    Crashes          \* how the process may end: "kill", "power", "close"

ASSUME EmbeddedLogAssumption ==
    /\ SegmentRecords \in Nat \ {0}
    /\ MaxDiskRecords \in Nat \ {0}
    /\ MaxDiskRecords >= SegmentRecords  \* BufferConfig::validate
    /\ BatchRecords \in Nat \ {0}
    /\ MaxRetries \in Nat \union {-1}
    /\ StoreTypes \subseteq {"disk", "memory"}
    /\ OnFull \in {"dropOldest", "block", "rejectNew"}
    /\ Fsync \in {"perBatch", "interval", "always"}
    /\ Outcomes \subseteq {"all_acked", "partial", "failed"}
    /\ {MaxRecords, MaxGroup, MaxFlushes, MaxRestarts} \subseteq Nat
    /\ Crashes \subseteq {"kill", "power", "close"}

VARIABLES
    store_type, \* never changes
    running,  \* the process is up
    segs,     \* the segment files
    acked,    \* the delivery cursor: next offset to export
    cp,       \* the checkpoint file
    leader,   \* the producer that writes a group
    exporter, \* the export thread
    tick,     \* the maintenance thread
    flusher   \* a thread in flush

(* History and model bounds. *)
VARIABLES
    next_id,   \* next record to submit
    flushes,   \* flushes begun
    restarts,  \* crashes and shutdowns so far
    accepted,  \* records whose append returned Ok and that no crash excused
    promised,  \* the ones among them that were promised to be on disk
    delivered, \* records the sink acknowledged
    life,      \* the ones delivered since the process started
    twice,     \* the ones delivered twice in one life of the process
    discarded, \* records dropped by dropOldest at or above the cursor
    gave_up    \* records of batches the engine gave up

log == <<segs, acked>>
bounds == <<next_id, flushes, restarts>>
history == <<accepted, promised, delivered, life, twice, discarded, gave_up>>
vars == <<store_type, running, log, cp, leader, exporter, tick, flusher, bounds, history>>

NoGroup == [pc |-> "idle", group |-> <<>>, written |-> {}, needs_fsync |-> FALSE]
NoBatch == [pc |-> "poll", plan |-> <<>>, batch |-> <<>>, pending |-> {},
            attempt |-> 0]
NoTick == [pc |-> "sleep", cp |-> 0]
NoFlush == [pc |-> "none", cp |-> 0, covers |-> {}]

Persistent == store_type = "disk"

Ids(frames) == {frames[i].id : i \in 1..Len(frames)}

Init ==
    /\ store_type \in StoreTypes
    /\ running = TRUE
    /\ segs = <<>>
    /\ acked = 0
    /\ cp = 0
    /\ leader = NoGroup
    /\ exporter = NoBatch
    /\ tick = NoTick
    /\ flusher = NoFlush
    /\ next_id = 1
    /\ flushes = 0
    /\ restarts = 0
    /\ accepted = {}
    /\ promised = {}
    /\ delivered = {}
    /\ life = {}
    /\ twice = {}
    /\ discarded = {}
    /\ gave_up = {}

(* The inner lock: the leader holds it while it writes a group, except     *)
(* while it waits for room.  Everybody else takes and releases it within   *)
(* one step.                                                               *)
InnerFree == running /\ leader.pc # "write"

-----------------------------------------------------------------------------
(* The leader (write_group).                                               *)
BeginGroup(n, needs_fsync) ==
    /\ running
    /\ leader.pc = "idle"
    /\ next_id + n <= MaxRecords + 1
    /\ Fsync = "always" => needs_fsync
    /\ Fsync = "interval" => ~needs_fsync
    /\ leader' = [pc |-> "write", written |-> {}, needs_fsync |-> needs_fsync,
                  group |-> [i \in 1..n |-> next_id + i - 1]]
    /\ next_id' = next_id + n
    /\ UNCHANGED <<store_type, running, log, cp, exporter, tick, flusher,
                   flushes, restarts, history>>

Writing ==
    /\ running
    /\ leader.pc \in {"write", "woken"}
    /\ leader.group # <<>>

(* ensure_room first reclaims what was delivered. *)
Reclaimed == TruncateBelow(segs, acked)

HasRoom(files) == DiskRecords(files) + 1 <= MaxDiskRecords

(* The record at the head of the group is appended to these files. *)
Put(files) ==
    /\ segs' \in IF Persistent
                 THEN Spilled(AppendFrame(files, SegmentRecords, Head(leader.group)))
                 ELSE {AppendRecord(files, Head(leader.group))}
    /\ leader' = [leader EXCEPT !.pc = "write", !.group = Tail(@),
                                !.written = @ \union {Head(leader.group)}]

WriteRecord ==
    /\ Writing
    /\ HasRoom(Reclaimed)
    /\ Put(Reclaimed)
    /\ UNCHANGED <<store_type, running, acked, cp, exporter, tick, flusher,
                   bounds, history>>

(* dropOldest deletes the oldest files and moves the cursor past them.  It *)
(* goes on when only the active one is left.                               *)
DropAndWrite ==
    /\ Writing
    /\ ~HasRoom(Reclaimed)
    /\ OnFull = "dropOldest"
    /\ LET k == FilesToDrop(Reclaimed, MaxDiskRecords)
           boundary == IF k = 0 THEN acked ELSE Max({acked, Reclaimed[k].end})
           lost == {f \in Stored(SubSeq(Reclaimed, 1, k)) : f.off >= acked}
       IN  /\ Put(SubSeq(Reclaimed, k + 1, Len(Reclaimed)))
           /\ acked' = boundary
           /\ discarded' = discarded \union {f.id : f \in lost}
    /\ UNCHANGED <<store_type, running, cp, exporter, tick, flusher, bounds,
                   accepted, promised, delivered, life, twice, gave_up>>

RejectRecord ==
    /\ Writing
    /\ ~HasRoom(Reclaimed)
    /\ OnFull = "rejectNew"
    /\ segs' = Reclaimed
    /\ leader' = [leader EXCEPT !.pc = "write", !.group = Tail(@)]
    /\ UNCHANGED <<store_type, running, acked, cp, exporter, tick, flusher,
                   bounds, history>>

(* block waits for a commit, and lets go of the inner lock meanwhile. *)
WaitForRoom ==
    /\ Writing
    /\ ~HasRoom(Reclaimed)
    /\ OnFull = "block"
    /\ segs' = Reclaimed
    /\ leader' = [leader EXCEPT !.pc = "wait_room"]
    /\ UNCHANGED <<store_type, running, acked, cp, exporter, tick, flusher,
                   bounds, history>>

(* A condition variable may wake it for no reason. *)
SpuriousWakeup ==
    /\ running
    /\ leader.pc = "wait_room"
    /\ leader' = [leader EXCEPT !.pc = "woken"]
    /\ UNCHANGED <<store_type, running, log, cp, exporter, tick, flusher,
                   bounds, history>>

(* One flush_os and, if the group needs it, one fsync; the producers of    *)
(* the records that were written are told Ok.                              *)
FinishGroup ==
    /\ running
    /\ leader.pc = "write"
    /\ leader.group = <<>>
    /\ LET wrote == leader.written # {} IN
       segs' = IF wrote /\ leader.needs_fsync THEN Sync(segs)
               ELSE IF wrote THEN FlushOs(segs) ELSE segs
    /\ accepted' = accepted \union leader.written
    /\ promised' = IF leader.needs_fsync THEN promised \union leader.written
                   ELSE promised
    /\ leader' = NoGroup
    /\ UNCHANGED <<store_type, running, acked, cp, exporter, tick, flusher,
                   bounds, delivered, life, twice, discarded, gave_up>>

-----------------------------------------------------------------------------
(* The export engine.  Planning holds the inner lock, reading does not;    *)
(* the memory store hands the records themselves out when it plans.        *)
Plan ==
    /\ InnerFree
    /\ exporter.pc = "poll"
    /\ \E plan \in PlanRead(segs, acked, BatchRecords) :
          exporter' = [NoBatch EXCEPT !.pc = "read", !.plan = plan]
    /\ UNCHANGED <<store_type, running, log, cp, leader, tick, flusher, bounds,
                   history>>

Read ==
    /\ running
    /\ exporter.pc = "read"
    /\ LET batch == IF Persistent THEN ReadChunks(segs, exporter.plan)
                    ELSE [i \in DOMAIN exporter.plan |-> exporter.plan[i].frame]
       IN
       exporter' = IF batch = <<>> THEN NoBatch
                   ELSE [NoBatch EXCEPT !.pc = "send", !.batch = batch,
                                        !.pending = Ids(batch)]
    /\ UNCHANGED <<store_type, running, log, cp, leader, tick, flusher, bounds,
                   history>>

(* The sink stored these records. *)
Deliver(ids) ==
    /\ delivered' = delivered \union ids
    /\ life' = life \union ids
    /\ twice' = twice \union (ids \intersect life)

CallSink ==
    /\ running
    /\ exporter.pc = "send"
    /\ exporter' = [exporter EXCEPT !.pc = "sink"]
    /\ UNCHANGED <<store_type, running, log, cp, leader, tick, flusher, bounds,
                   history>>

(* The sink is about to answer. *)
Sending == running /\ exporter.pc = "sink"

SendAllAcked ==
    /\ Sending
    /\ "all_acked" \in Outcomes
    /\ Deliver(exporter.pending)
    /\ exporter' = [exporter EXCEPT !.pc = "commit"]
    /\ UNCHANGED <<store_type, running, log, cp, leader, tick, flusher, bounds,
                   accepted, promised, discarded, gave_up>>

(* Attempts only matter to a bounded number of retries. *)
NextAttempt == IF MaxRetries = -1 THEN 0
               ELSE Min({exporter.attempt + 1, MaxRetries + 1})

(* Mutant: the whole batch is sent again. *)
SentAgain_All(failed) == exporter.pending

SentAgain(failed) == failed

(* Some records were stored; the others are sent again. *)
SendPartial(failed) ==
    /\ Sending
    /\ "partial" \in Outcomes
    /\ Deliver(exporter.pending \ failed)
    /\ exporter' = IF failed = {} THEN [exporter EXCEPT !.pc = "commit"]
                   ELSE [exporter EXCEPT !.pc = "send", !.pending = SentAgain(failed),
                                         !.attempt = NextAttempt]
    /\ UNCHANGED <<store_type, running, log, cp, leader, tick, flusher, bounds,
                   accepted, promised, discarded, gave_up>>

GiveUp == MaxRetries # -1 /\ exporter.attempt + 1 > MaxRetries

SendFailed ==
    /\ Sending
    /\ "failed" \in Outcomes
    /\ exporter' = IF GiveUp THEN [exporter EXCEPT !.pc = "commit"]
                   ELSE [exporter EXCEPT !.pc = "send", !.attempt = NextAttempt]
    /\ gave_up' = IF GiveUp THEN gave_up \union exporter.pending ELSE gave_up
    /\ UNCHANGED <<store_type, running, log, cp, leader, tick, flusher, bounds,
                   accepted, promised, delivered, life, twice, discarded>>

(* Mutant: nobody is woken. *)
Woken_Nobody == leader

Woken == IF leader.pc = "wait_room" THEN [leader EXCEPT !.pc = "woken"] ELSE leader

(* commit moves the cursor past the last offset of the batch, never back,  *)
(* and wakes a leader that waits for room.                                 *)
Commit ==
    /\ InnerFree
    /\ exporter.pc = "commit"
    /\ acked' = Max({acked, Last(exporter.batch).off + 1})
    /\ exporter' = NoBatch
    /\ leader' = Woken
    /\ UNCHANGED <<store_type, running, segs, cp, tick, flusher, bounds,
                   history>>

(* The service is shutting down: the engine leaves between two sends, and  *)
(* does not commit.                                                        *)
StopExporter ==
    /\ running
    /\ "close" \in Crashes
    /\ restarts < MaxRestarts
    /\ exporter.pc \in {"poll", "send"}
    /\ exporter' = [NoBatch EXCEPT !.pc = "stopped"]
    /\ UNCHANGED <<store_type, running, log, cp, leader, tick, flusher, bounds,
                   history>>

-----------------------------------------------------------------------------
(* The maintenance thread snapshots the cursor under the inner lock and    *)
(* stores it later, under the checkpoint lock.                             *)
TickSnapshot ==
    /\ InnerFree
    /\ tick.pc = "sleep"
    /\ segs' = TruncateBelow(IF Fsync = "always" THEN segs ELSE Sync(segs), acked)
    /\ tick' = [pc |-> "store", cp |-> acked]
    /\ UNCHANGED <<store_type, running, acked, cp, leader, exporter, flusher,
                   bounds, history>>

TickStore ==
    /\ running
    /\ tick.pc = "store"
    /\ flusher.pc # "store"  \* checkpoint_lock
    /\ cp' = IF Persistent THEN tick.cp ELSE cp
    /\ tick' = NoTick
    /\ UNCHANGED <<store_type, running, log, leader, exporter, flusher, bounds,
                   history>>

(* flush: fsync the store, then take the checkpoint lock, then snapshot    *)
(* the cursor and store it.                                                *)
FlushSync ==
    /\ InnerFree
    /\ flusher.pc = "none"
    /\ flushes < MaxFlushes
    /\ flushes' = flushes + 1
    /\ segs' = Sync(segs)
    /\ flusher' = [NoFlush EXCEPT !.pc = "persist", !.covers = accepted]
    /\ UNCHANGED <<store_type, running, acked, cp, leader, exporter, tick,
                   next_id, restarts, history>>

FlushSnapshot ==
    /\ InnerFree
    /\ flusher.pc = "persist"
    /\ flusher' = [flusher EXCEPT !.pc = "store", !.cp = acked]
    /\ UNCHANGED <<store_type, running, log, cp, leader, exporter, tick,
                   bounds, history>>

FlushStore ==
    /\ running
    /\ flusher.pc = "store"
    /\ cp' = IF Persistent THEN flusher.cp ELSE cp
    /\ promised' = promised \union (flusher.covers \intersect accepted)
    /\ flusher' = NoFlush
    /\ UNCHANGED <<store_type, running, log, leader, exporter, tick, bounds,
                   accepted, delivered, life, twice, discarded, gave_up>>

-----------------------------------------------------------------------------
(* The end of a process and the start of the next.                         *)
Down ==
    /\ running
    /\ restarts < MaxRestarts
    /\ running' = FALSE
    /\ restarts' = restarts + 1
    /\ leader' = NoGroup
    /\ exporter' = NoBatch
    /\ tick' = NoTick
    /\ flusher' = NoFlush

Kill ==
    /\ Persistent /\ "kill" \in Crashes
    /\ Down
    /\ \E kept \in Survivals(segs, FALSE) : segs' = AfterCrash(segs, kept, FALSE)
    /\ UNCHANGED <<store_type, acked, cp, next_id, flushes, history>>

(* A power loss excuses the records nobody promised to have on disk. *)
PowerLoss ==
    /\ Persistent /\ "power" \in Crashes
    /\ Down
    /\ \E kept \in Survivals(segs, TRUE) : segs' = AfterCrash(segs, kept, TRUE)
    /\ accepted' = accepted \intersect promised
    /\ UNCHANGED <<store_type, acked, cp, next_id, flushes, promised,
                   delivered, life, twice, discarded, gave_up>>

(* The records of a memory store end with the process, however it ends. *)
Forget ==
    /\ ~Persistent /\ "kill" \in Crashes
    /\ Down
    /\ segs' = <<>>
    /\ accepted' = {}
    /\ UNCHANGED <<store_type, acked, cp, next_id, flushes, promised, delivered,
                   life, twice, discarded, gave_up>>

(* Drop: no producer is left, the engine has stopped, the maintenance      *)
(* thread was joined; then flush.                                          *)
Close ==
    /\ Persistent /\ "close" \in Crashes
    /\ leader.pc = "idle"
    /\ exporter.pc = "stopped"
    /\ tick.pc = "sleep"
    /\ flusher.pc = "none"
    /\ Down
    /\ segs' = Sync(segs)
    /\ cp' = acked
    /\ promised' = promised \union accepted
    /\ UNCHANGED <<store_type, acked, next_id, flushes, accepted, delivered,
                   life, twice, discarded, gave_up>>

(* Mutants: the cursor starts at the oldest record; the checkpoint is      *)
(* believed beyond the end of the files.                                   *)
CursorOnOpen_FromStart == 0
CursorOnOpen_NoClamp == cp

CursorOnOpen == Min({cp, NextOffset(Recover(segs))})

(* open recovers the files and takes the cursor from the checkpoint, as    *)
(* far as the files reach.                                                 *)
Open ==
    /\ ~running
    /\ running' = TRUE
    /\ segs' = Recover(segs)
    /\ acked' = CursorOnOpen
    /\ life' = {}
    /\ UNCHANGED <<store_type, cp, leader, exporter, tick, flusher, bounds,
                   accepted, promised, delivered, twice, discarded, gave_up>>

-----------------------------------------------------------------------------
Leader == WriteRecord \/ DropAndWrite \/ RejectRecord \/ WaitForRoom \/ FinishGroup

Export == Plan \/ Read \/ CallSink \/ Commit

Answer == SendAllAcked \/ SendFailed
          \/ \E failed \in SUBSET exporter.pending : SendPartial(failed)

Maintain == TickSnapshot \/ TickStore

Flush == FlushSync \/ FlushSnapshot \/ FlushStore

Next ==
    \/ \E n \in 1..MaxGroup, needs_fsync \in BOOLEAN : BeginGroup(n, needs_fsync)
    \/ Leader \/ SpuriousWakeup \/ Export \/ Answer \/ StopExporter \/ Maintain \/ Flush
    \/ Kill \/ PowerLoss \/ Forget \/ Close \/ Open

Spec == Init /\ [][Next]_vars

(* Fairness.  The leader and the export thread are scheduled, and the sink *)
(* answers; nothing is assumed of new groups, flushes or restarts.         *)
Fairness ==
    /\ WF_vars(Leader)
    /\ WF_vars(Export)
    /\ WF_vars(Answer)

FairSpec == Spec /\ Fairness

(* Moreover, a sink that is called again and again acknowledges in the end. *)
WorkingSinkSpec == FairSpec /\ SF_vars(SendAllAcked)

-----------------------------------------------------------------------------
(* The cursor stays within the log, so that backlog = next_offset - acked  *)
(* does not underflow.                                                     *)
CursorInLog == running => acked <= NextOffset(segs)

(* Types, and the shape of the files of a running process: each segment    *)
(* ends where the next begins, the active one where its frames end, and    *)
(* the cursor lies between them.                                           *)
TypeOK ==
    /\ running \in BOOLEAN
    /\ \A i \in 1..Len(segs) :
          /\ segs[i].os \in 0..Len(segs[i].recs)
          /\ segs[i].synced \in 0..segs[i].os
          /\ running => segs[i].end = IF i < Len(segs) THEN segs[i + 1].base
                                      ELSE segs[i].base + Len(segs[i].recs)
    /\ {acked, cp, tick.cp, flusher.cp} \subseteq Nat
    /\ CursorInLog
    /\ leader.pc \in {"idle", "write", "wait_room", "woken"}
    /\ exporter.pc \in {"poll", "read", "send", "sink", "commit", "stopped"}
    /\ tick.pc \in {"sleep", "store"}
    /\ flusher.pc \in {"none", "persist", "store"}
    /\ UNION {accepted, promised, delivered, discarded, gave_up} \subseteq 1..MaxRecords

(* Where this process, or the next one, resumes exporting. *)
Cursor == IF running THEN acked ELSE Min({cp, NextOffset(Recover(segs))})

Due(id) == \E f \in Stored(segs) : f.id = id /\ f.off >= Cursor

(* Left the log for good: stored by the sink, dropped or given up. *)
Gone == delivered \union discarded \union gave_up

(* At-least-once: a record whose append returned Ok is never between the   *)
(* chairs.  Either it is gone, or it is in a file at or above the cursor   *)
(* from which this process, or the next one, exports.                      *)
NoLoss == \A id \in accepted : id \in Gone \/ Due(id)

(* The stream implements StoreAndForward.  The records that are due are    *)
(* those in a file at or above the cursor; without a process, at or above  *)
(* the checkpoint, from which the next one starts.                         *)
DueRecords ==
    LET from == IF running THEN acked ELSE cp
    IN  {f.id : f \in {g \in Stored(segs) : g.off >= from}} \intersect accepted

Promise == INSTANCE StoreAndForward WITH
                Records <- 1..MaxRecords,
                InOrder <- "partial" \notin Outcomes,
                MayDrop <- OnFull = "dropOldest",
                MayGiveUp <- MaxRetries # -1,
                due <- DueRecords,
                sent <- delivered, dropped <- discarded, given_up <- gave_up

ImplementsStoreAndForward == Promise!Spec

(* Order: the sink never stores a record before one that was appended      *)
(* earlier, unless that one was dropped or given up.                       *)
OrderPreserved == \A a \in delivered, b \in accepted : b < a => b \in Gone

(* A record reaches the sink twice only across a restart.                  *)
NoDuplicateInLife == twice = {}

(* The checkpoint file never goes back.                                    *)
CheckpointMonotone == [][cp' >= cp]_cp

(* The files exceed the budget by at most the record that dropOldest       *)
(* writes when only the active segment is left.                            *)
WithinBudget ==
    DiskRecords(segs) <= MaxDiskRecords + IF OnFull = "dropOldest" THEN 1 ELSE 0

(* Every record accepted is delivered, dropped or given up in the end.     *)
RecordsLeave == \A id \in 1..MaxRecords : id \in accepted ~> id \in Gone

(* Every group is written in the end, and its producers released.          *)
LeaderReturns == leader.pc # "idle" ~> leader.pc = "idle"

(* The stream moves: whatever the sink answers before it is well again,    *)
(* producers are released and records leave.                               *)
StreamMoves == LeaderReturns /\ RecordsLeave
=============================================================================
