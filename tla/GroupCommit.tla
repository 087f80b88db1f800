---------------------------- MODULE GroupCommit ----------------------------
(***************************************************************************)
(* The ingest side of edgestreamlog's EmbeddedLog                          *)
(* (libs/rust-streamlog/src/log.rs): producers push records onto a bounded *)
(* queue; the first one that finds no leader becomes the leader, drains    *)
(* the whole queue as one group, writes it, fsyncs it once when any member *)
(* of the group asks for it, and resolves every producer of the group.     *)
(* The others wait on a condition variable.                                *)
(*                                                                         *)
(* The segment store is seen here through what the log asks of it: append  *)
(* puts a record after the ones written before, rolling to a new segment   *)
(* file when the active one is full, or refuses it; sync makes the active  *)
(* segment file durable, and no other (segment_log.rs sync, start_segment).*)
(* Module EmbeddedLog models files, crashes, recovery and retention.       *)
(***************************************************************************)
EXTENDS Naturals, Sequences, FiniteSets

CONSTANTS
    Producers,        \* threads that call append, append_batch or flush
    MaxBufferedRecords, \* bound of the ingest queue (max_buffered_records)
    MaxBatch,         \* longest batch handed to append_batch
    MaxSeq,           \* model bound: no append begins after this sequence
    OnFull,           \* backpressure policy
    Fsync,            \* fsync policy
    SegmentRecords,   \* records a segment file holds (segment_bytes)
    Faults            \* the store calls that may fail: "append", "sync"

OnFullPolicies == {"dropOldest", "block", "rejectNew"}
FsyncPolicies == {"perBatch", "interval", "always"}

ASSUME GroupCommitAssumption ==
    /\ MaxBufferedRecords \in Nat \ {0}
    /\ MaxBatch \in Nat \ {0}
    /\ MaxSeq \in Nat
    /\ OnFull \in OnFullPolicies
    /\ Fsync \in FsyncPolicies
    /\ SegmentRecords \in Nat \ {0}
    /\ Faults \subseteq {"append", "sync"}

VARIABLES
    queue,         \* records accepted and not yet drained, oldest first
    next_seq,      \* next submission sequence
    resolved_seq,  \* every sequence up to here was written or refused
    errors,        \* sequences with an error their producer has not taken yet
    leader_active, \* a producer is writing a group
    pc,            \* where each producer stands in its call
    call,          \* the call each producer is in
    group,         \* the group a leader drained
    written,       \* how many records of its group the leader has handled
    errors_local,  \* the ones among them the store refused
    log,           \* sequences in the segment store, in the order written
    active_base,   \* how many of them are in segments before the active one
    durable        \* the sequences that were fsynced

(***************************************************************************)
(* History: what producers were told, kept only to state properties.       *)
(***************************************************************************)
VARIABLES
    refused,       \* sequences the store refused
    mustSync,      \* sequences submitted with needs_fsync
    told,          \* sequences of calls that returned Ok
    wronged,       \* calls that returned an error of a record not theirs
    flushed,       \* highest sequence a flush that returned had to cover
    abandoned,     \* records that a refused call left in the queue
    unsynced       \* records of groups whose fsync failed

ingest == <<queue, next_seq, resolved_seq, errors, leader_active>>
locals == <<pc, call, group, written, errors_local>>
store == <<log, active_base, durable>>
history == <<refused, mustSync, told, wronged, flushed, abandoned, unsynced>>
vars == <<ingest, locals, store, history>>

Seqs == Nat \ {0}

(* A queued record: its sequence and whether its producer waits for fsync. *)
Pending == [seq : Seqs, needs_fsync : BOOLEAN]

(* What a call remembers: records still to push, the first and last        *)
(* sequence it was given, the sequences themselves, and its fsync demand.  *)
Call == [kind : {"append", "append_batch", "flush"}, todo : 0..MaxBatch,
         first : Nat, last : Nat, mine : SUBSET Seqs,
         needs_fsync : BOOLEAN]

NoCall == [kind |-> "append", todo |-> 0, first |-> 0, last |-> 0,
           mine |-> {}, needs_fsync |-> FALSE]

Leading == {"notify_space", "write", "wait_room", "resolve"}
Locations == {"idle", "enqueue", "wait_space", "drive", "wait_done",
              "notify_done", "take", "sync"} \union Leading

Init ==
    /\ queue = <<>>
    /\ next_seq = 1
    /\ resolved_seq = 0
    /\ errors = {}
    /\ leader_active = FALSE
    /\ pc = [p \in Producers |-> "idle"]
    /\ call = [p \in Producers |-> NoCall]
    /\ group = [p \in Producers |-> <<>>]
    /\ written = [p \in Producers |-> 0]
    /\ errors_local = [p \in Producers |-> {}]
    /\ log = <<>>
    /\ active_base = 0
    /\ durable = {}
    /\ refused = {}
    /\ mustSync = {}
    /\ told = {}
    /\ wronged = {}
    /\ flushed = 0
    /\ abandoned = {}
    /\ unsynced = {}

-----------------------------------------------------------------------------
(* Calls.  A single append is durable before it returns only under         *)
(* "always"; a batch also under "perBatch".                                *)
NeedsFsync(kind) ==
    \/ Fsync = "always"
    \/ Fsync = "perBatch" /\ kind = "append_batch"

BeginAppend(p, kind, n) ==
    /\ pc[p] = "idle"
    /\ kind = "append" => n = 1
    /\ next_seq <= MaxSeq
    /\ call' = [call EXCEPT ![p] =
                   [NoCall EXCEPT !.kind = kind, !.todo = n,
                                  !.needs_fsync = NeedsFsync(kind)]]
    /\ pc' = [pc EXCEPT ![p] = "enqueue"]
    /\ UNCHANGED <<ingest, group, written, errors_local, store, history>>

(* Mutant: flush drives up to what is resolved already. *)
FlushTarget_Resolved == resolved_seq

FlushTarget == next_seq - 1

(* flush covers everything submitted before it was called; it takes no     *)
(* result, so its range of sequences is empty.                             *)
BeginFlush(p) ==
    /\ pc[p] = "idle"
    /\ call' = [call EXCEPT ![p] =
                   [NoCall EXCEPT !.kind = "flush", !.first = next_seq,
                                  !.last = FlushTarget]]
    /\ pc' = [pc EXCEPT ![p] = "drive"]
    /\ UNCHANGED <<ingest, group, written, errors_local, store, history>>

-----------------------------------------------------------------------------
(* Enqueueing.  The lock is held from one wait to the next, so a producer  *)
(* pushes in one step as many records as the queue has room for.           *)
(* Mutant: room for one record more. *)
Room_OffByOne == IF Len(queue) > MaxBufferedRecords THEN 0
                 ELSE MaxBufferedRecords + 1 - Len(queue)

Room == IF Len(queue) >= MaxBufferedRecords THEN 0
        ELSE MaxBufferedRecords - Len(queue)

Fits(p) == call[p].todo <= Room

(* k records of p's call enter the queue. *)
Fresh(p, k) ==
    [i \in 1..k |-> [seq |-> next_seq + i - 1, needs_fsync |-> call[p].needs_fsync]]

FreshSeqs(k) == next_seq .. next_seq + k - 1

Push(p, k) ==
    /\ queue' = queue \o Fresh(p, k)
    /\ next_seq' = next_seq + k
    /\ mustSync' = IF call[p].needs_fsync THEN mustSync \union FreshSeqs(k)
                   ELSE mustSync

(* What p's call remembers of them. *)
Pushed(p, k) ==
    [kind |-> call[p].kind,
     todo |-> call[p].todo - k,
     first |-> IF call[p].mine = {} /\ k > 0 THEN next_seq ELSE call[p].first,
     last |-> IF k > 0 THEN next_seq + k - 1 ELSE call[p].last,
     mine |-> call[p].mine \union FreshSeqs(k),
     needs_fsync |-> call[p].needs_fsync]

Enqueue(p) ==
    /\ pc[p] = "enqueue"
    /\ Fits(p)
    /\ Push(p, call[p].todo)
    /\ call' = [call EXCEPT ![p] = Pushed(p, call[p].todo)]
    /\ pc' = [pc EXCEPT ![p] = "drive"]
    /\ UNCHANGED <<resolved_seq, errors, leader_active, group, written,
                   errors_local, store, refused, told, wronged, flushed, abandoned,
                   unsynced>>

(* No room for the rest: the producer waits for space ... *)
EnqueueWait(p) ==
    /\ pc[p] = "enqueue"
    /\ ~Fits(p)
    /\ OnFull # "rejectNew"
    /\ Push(p, Room)
    /\ call' = [call EXCEPT ![p] = Pushed(p, Room)]
    /\ pc' = [pc EXCEPT ![p] = "wait_space"]
    /\ UNCHANGED <<resolved_seq, errors, leader_active, group, written,
                   errors_local, store, refused, told, wronged, flushed, abandoned,
                   unsynced>>

(* ... or returns BufferFull at once, leaving in the queue what it pushed. *)
EnqueueReject(p) ==
    /\ pc[p] = "enqueue"
    /\ ~Fits(p)
    /\ OnFull = "rejectNew"
    /\ Push(p, Room)
    /\ call' = [call EXCEPT ![p] = NoCall]
    /\ pc' = [pc EXCEPT ![p] = "idle"]
    /\ abandoned' = abandoned \union Pushed(p, Room).mine
    /\ UNCHANGED <<resolved_seq, errors, leader_active, group, written,
                   errors_local, store, refused, told, wronged, flushed, unsynced>>

-----------------------------------------------------------------------------
(* drive_until: until the last sequence of the call is resolved, wait for  *)
(* the leader if there is one, else lead.                                  *)
DriveResolved(p) ==
    /\ pc[p] = "drive"
    /\ resolved_seq >= call[p].last
    /\ pc' = [pc EXCEPT ![p] = IF call[p].kind = "flush" THEN "sync" ELSE "take"]
    /\ UNCHANGED <<ingest, call, group, written, errors_local, store, history>>

DriveWait(p) ==
    /\ pc[p] = "drive"
    /\ resolved_seq < call[p].last
    /\ leader_active
    /\ pc' = [pc EXCEPT ![p] = "wait_done"]
    /\ UNCHANGED <<ingest, call, group, written, errors_local, store, history>>

(* Mutant: a second leader starts while the first one writes. *)
LeaderFree_Always == TRUE

LeaderFree == ~leader_active

DriveLead(p) ==
    /\ pc[p] = "drive"
    /\ resolved_seq < call[p].last
    /\ LeaderFree
    /\ leader_active' = TRUE
    /\ group' = [group EXCEPT ![p] = queue]
    /\ queue' = <<>>
    /\ pc' = [pc EXCEPT ![p] = "notify_space"]
    /\ UNCHANGED <<next_seq, resolved_seq, errors, call, written,
                   errors_local, store, history>>

(* notify_all runs after the lock was released. *)
NotifySpace(p) ==
    /\ pc[p] = "notify_space"
    /\ pc' = [q \in Producers |-> IF q = p THEN "write"
                                  ELSE IF pc[q] = "wait_space" THEN "enqueue"
                                  ELSE pc[q]]
    /\ UNCHANGED <<ingest, call, group, written, errors_local, store, history>>

(* write_group, one record of the group at a time, the inner lock held     *)
(* throughout.  ensure_room refuses a record under rejectNew; under block  *)
(* it waits, and releases the inner lock while it does; append refuses one *)
(* on an i/o or key error.                                                 *)
InnerFree == \A q \in Producers : pc[q] # "write"

MayRefuse == OnFull = "rejectNew" \/ "append" \in Faults

Current(p) == group[p][written[p] + 1].seq

WriteRecord(p) ==
    /\ pc[p] = "write"
    /\ written[p] < Len(group[p])
    /\ log' = Append(log, Current(p))
    /\ active_base' = IF Len(log) - active_base >= SegmentRecords
                      THEN Len(log) ELSE active_base
    /\ written' = [written EXCEPT ![p] = @ + 1]
    /\ UNCHANGED <<ingest, pc, call, group, errors_local, durable, history>>

RefuseRecord(p) ==
    /\ pc[p] = "write"
    /\ written[p] < Len(group[p])
    /\ MayRefuse
    /\ errors_local' = [errors_local EXCEPT ![p] = @ \union {Current(p)}]
    /\ refused' = refused \union {Current(p)}
    /\ written' = [written EXCEPT ![p] = @ + 1]
    /\ UNCHANGED <<ingest, pc, call, group, store,
                   mustSync, told, wronged, flushed, abandoned,
                   unsynced>>

RoomWait(p) ==
    /\ pc[p] = "write"
    /\ written[p] < Len(group[p])
    /\ OnFull = "block"
    /\ pc' = [pc EXCEPT ![p] = "wait_room"]
    /\ UNCHANGED <<ingest, call, group, written, errors_local, store, history>>

(* A commit of the exporter woke the leader and there is room now. *)
RoomFreed(p) ==
    /\ pc[p] = "wait_room"
    /\ pc' = [pc EXCEPT ![p] = "write"]
    /\ UNCHANGED <<ingest, call, group, written, errors_local, store, history>>

ActiveSegment == {log[i] : i \in active_base + 1 .. Len(log)}

(* Mutant: only the first member of the group is asked. *)
GroupNeedsFsync_First(p) == group[p] # <<>> /\ group[p][1].needs_fsync

GroupNeedsFsync(p) == \E i \in 1..Len(group[p]) : group[p][i].needs_fsync

Wrote(p) == \E i \in 1..Len(group[p]) : group[p][i].seq \notin errors_local[p]

(* One fsync for the group, when it wrote anything and a member needs it.  *)
(* The result of the fsync is ignored.                                     *)
FinishGroup(p) ==
    /\ pc[p] = "write"
    /\ written[p] = Len(group[p])
    /\ \/ /\ durable' = IF Wrote(p) /\ GroupNeedsFsync(p)
                        THEN durable \union ActiveSegment ELSE durable
          /\ UNCHANGED unsynced
       \/ /\ "sync" \in Faults
          /\ Wrote(p) /\ GroupNeedsFsync(p)
          /\ unsynced' = unsynced \union {group[p][i].seq : i \in DOMAIN group[p]}
          /\ UNCHANGED durable
    /\ pc' = [pc EXCEPT ![p] = "resolve"]
    /\ UNCHANGED <<ingest, call, group, written, errors_local, log, active_base,
                   refused, mustSync, told, wronged, flushed, abandoned>>

(* The highest sequence of a group; an empty group resolves nothing. *)
MaxOf(g) == IF g = <<>> THEN 0 ELSE g[Len(g)].seq

(* Mutant: everything submitted so far is declared resolved. *)
ResolvedUpTo_All(p) == next_seq - 1

ResolvedUpTo(p) ==
    IF MaxOf(group[p]) > resolved_seq THEN MaxOf(group[p]) ELSE resolved_seq

Resolve(p) ==
    /\ pc[p] = "resolve"
    /\ errors' = errors \union errors_local[p]
    /\ resolved_seq' = ResolvedUpTo(p)
    /\ leader_active' = FALSE
    /\ group' = [group EXCEPT ![p] = <<>>]
    /\ written' = [written EXCEPT ![p] = 0]
    /\ errors_local' = [errors_local EXCEPT ![p] = {}]
    /\ pc' = [pc EXCEPT ![p] = "notify_done"]
    /\ UNCHANGED <<queue, next_seq, call, store, history>>

(* Mutant: notify_one instead of notify_all. *)
WokenByDone_One(q) ==
    /\ pc[q] = "wait_done"
    /\ q = CHOOSE r \in Producers : pc[r] = "wait_done"

WokenByDone(q) == pc[q] = "wait_done"

NotifyDone(p) ==
    /\ pc[p] = "notify_done"
    /\ pc' = [q \in Producers |-> IF q = p \/ WokenByDone(q) THEN "drive"
                                  ELSE pc[q]]
    /\ UNCHANGED <<ingest, call, group, written, errors_local, store, history>>

-----------------------------------------------------------------------------
(* A producer takes, and removes, every error in its range of sequences:   *)
(* one sequence for append, first..last for append_batch.                  *)
(*                                                                         *)
(* Mutant: it takes the errors of every sequence up to its last.           *)
Taken_UpTo(p) == errors \intersect (1 .. call[p].last)

Taken(p) == errors \intersect (call[p].first .. call[p].last)

TakeResult(p) ==
    /\ pc[p] = "take"
    /\ errors' = errors \ Taken(p)
    /\ told' = IF Taken(p) = {} THEN told \union call[p].mine ELSE told
    /\ wronged' = IF Taken(p) # {} /\ call[p].mine \intersect refused = {}
                  THEN wronged \union call[p].mine ELSE wronged
    /\ call' = [call EXCEPT ![p] = NoCall]
    /\ pc' = [pc EXCEPT ![p] = "idle"]
    /\ UNCHANGED <<queue, next_seq, resolved_seq, leader_active, group, written,
                   errors_local, store, refused, mustSync, flushed, abandoned,
                   unsynced>>

(* flush ends by fsyncing the store, and returns the error if that fails.  *)
FlushSync(p) ==
    /\ pc[p] = "sync"
    /\ InnerFree
    /\ \/ /\ durable' = durable \union ActiveSegment
          /\ flushed' = IF call[p].first > flushed + 1 THEN call[p].first - 1
                       ELSE flushed
       \/ "sync" \in Faults /\ UNCHANGED <<durable, flushed>>
    /\ call' = [call EXCEPT ![p] = NoCall]
    /\ pc' = [pc EXCEPT ![p] = "idle"]
    /\ UNCHANGED <<ingest, group, written, errors_local, log, active_base,
                   refused, mustSync, told, wronged, abandoned, unsynced>>

(* The maintenance thread fsyncs the store unless leaders do so inline. *)
MaintenanceSync ==
    /\ Fsync # "always"
    /\ InnerFree
    /\ durable' = durable \union ActiveSegment
    /\ UNCHANGED <<ingest, locals, log, active_base, history>>

(* A condition variable may wake a waiter for no reason. *)
SpuriousWakeup(p) ==
    /\ pc[p] \in {"wait_space", "wait_done"}
    /\ pc' = [pc EXCEPT ![p] = IF @ = "wait_space" THEN "enqueue" ELSE "drive"]
    /\ UNCHANGED <<ingest, call, group, written, errors_local, store, history>>

-----------------------------------------------------------------------------
Begin(p) ==
    \/ \E kind \in {"append", "append_batch"}, n \in 1..MaxBatch :
          BeginAppend(p, kind, n)
    \/ BeginFlush(p)

(* The steps a producer takes on its own once it is in a call. *)
Step(p) ==
    \/ Enqueue(p) \/ EnqueueWait(p) \/ EnqueueReject(p)
    \/ DriveResolved(p) \/ DriveWait(p) \/ DriveLead(p)
    \/ NotifySpace(p) \/ WriteRecord(p) \/ RefuseRecord(p) \/ FinishGroup(p)
    \/ Resolve(p) \/ NotifyDone(p)
    \/ TakeResult(p) \/ FlushSync(p)

Next ==
    \/ \E p \in Producers : \/ Begin(p) \/ Step(p) \/ SpuriousWakeup(p)
                            \/ RoomWait(p) \/ RoomFreed(p)
    \/ MaintenanceSync

Spec == Init /\ [][Next]_vars

-----------------------------------------------------------------------------
(* Fairness.  Every thread inside a call is scheduled; nobody is obliged   *)
(* to call and no spurious wakeup is owed to a waiter.  A leader waiting   *)
(* for room gets it again and again (the exporter commits), and does not   *)
(* go back to waiting for ever.                                            *)
Fairness ==
    \A p \in Producers :
        /\ WF_vars(Step(p))
        /\ WF_vars(RoomFreed(p))
        /\ SF_vars(WriteRecord(p) \/ RefuseRecord(p))

FairSpec == Spec /\ Fairness

-----------------------------------------------------------------------------
(* Types of all the variables, and the bound of the queue. *)
TypeOK ==
    /\ queue \in Seq(Pending)
    /\ Len(queue) <= MaxBufferedRecords
    /\ next_seq \in Seqs
    /\ resolved_seq \in Nat
    /\ errors \subseteq Seqs
    /\ leader_active \in BOOLEAN
    /\ pc \in [Producers -> Locations]
    /\ call \in [Producers -> Call]
    /\ group \in [Producers -> Seq(Pending)]
    /\ written \in [Producers -> Nat]
    /\ errors_local \in [Producers -> SUBSET Seqs]
    /\ log \in Seq(Seqs)
    /\ active_base \in Nat
    /\ durable \subseteq Seqs
    /\ refused \subseteq Seqs
    /\ mustSync \subseteq Seqs
    /\ told \subseteq Seqs
    /\ wronged \subseteq Seqs
    /\ flushed \in Nat

Leaders == {p \in Producers : pc[p] \in Leading}

(* At most one producer writes to the store at a time, although writing    *)
(* goes on outside the ingest lock; leader_active says whether one does.   *)
OneLeader ==
    /\ \A p, q \in Leaders : p = q
    /\ leader_active <=> Leaders # {}

(* Records reach the store in the order they were submitted, whoever wrote *)
(* them, and none is written twice.                                        *)
SubmissionOrder == \A i, j \in 1..Len(log) : i < j => log[i] < log[j]

(* resolved_seq never runs ahead of the writing: every sequence up to it   *)
(* was written or refused (the promise drive_until relies on).             *)
ResolvedIsDecided ==
    \A s \in 1..resolved_seq : s \in refused \/ \E i \in 1..Len(log) : log[i] = s

(* Why the order holds.  The sequences up to next_seq are, in this order,  *)
(* the resolved ones, the group of the leader, and the queue; and the      *)
(* decided ones are an initial part of them, which ends in the group.      *)
Decided == {log[i] : i \in 1..Len(log)} \union refused

QueueIsTail ==
    \A i \in 1..Len(queue) : queue[i].seq + Len(queue) = next_seq - 1 + i

Between(p) ==
    /\ resolved_seq + Len(group[p]) + Len(queue) + 1 = next_seq
    /\ \A i \in 1..Len(group[p]) : group[p][i].seq = resolved_seq + i
    /\ written[p] <= Len(group[p])
    /\ pc[p] = "resolve" => written[p] = Len(group[p])
    /\ Decided = 1 .. resolved_seq + written[p]

NoneBetween ==
    /\ resolved_seq + Len(queue) + 1 = next_seq
    /\ Decided = 1..resolved_seq

OrderInv ==
    /\ \A p \in Producers \ Leaders : group[p] = <<>> /\ written[p] = 0
    /\ QueueIsTail
    /\ \A p \in Leaders : Between(p)
    /\ Leaders = {} => NoneBetween
    /\ SubmissionOrder

(* The ingest side implements OrderedLog: seen from the store and from the *)
(* producers, the group commit is one writer that handles one sequence     *)
(* after the other.                                                        *)
Handled == IF Leaders = {} THEN resolved_seq
           ELSE resolved_seq + written[CHOOSE p \in Leaders : TRUE]

Ordered == INSTANCE OrderedLog WITH
               submitted <- next_seq - 1, handled <- Handled, resolved <- resolved_seq

ImplementsOrderedLog == Ordered!Spec

(* A record whose producer was told Ok is in the store: no producer takes  *)
(* the success of another's record for its own.                            *)
AckedIsWritten == \A s \in told : \E i \in 1..Len(log) : log[i] = s

(* A producer that asked for an fsync is told Ok only once its record is   *)
(* in a segment file that was fsynced after the record was written, unless *)
(* the fsync of its group failed.                                          *)
AckedIsDurable == told \intersect mustSync \subseteq durable \union unsynced

(* No call returns an error though every one of its records was written.   *)
ErrIsOwn == wronged = {}

(* An error waits for a producer that is still in the call the error is    *)
(* about: none stays in the map for ever, but those about records that a   *)
(* call left behind when it returned BufferFull.                           *)
ErrorsHaveOwner == \A s \in errors \ abandoned :
    \E p \in Producers : pc[p] # "idle" /\ s \in call[p].mine

(* Every call learns the outcome of its own records and of no others,      *)
(* whoever wrote them, and no outcome is left behind in the map of errors. *)
OutcomesAreOwn == AckedIsWritten /\ ErrIsOwn /\ ErrorsHaveOwner

(* Every record submitted before a flush that returned Ok is fsynced,      *)
(* unless the store refused it.                                            *)
FlushCovers == \A s \in 1..flushed : s \in refused \/ s \in durable

(* Every append, append_batch and flush returns. *)
CallsReturn == \A p \in Producers : pc[p] # "idle" ~> pc[p] = "idle"
=============================================================================
