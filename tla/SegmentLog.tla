----------------------------- MODULE SegmentLog -----------------------------
(***************************************************************************)
(* The segment store of edgestreamlog                                      *)
(* (libs/rust-streamlog/src/blockstore/segment_log.rs) as operators on a   *)
(* sequence of segment files, oldest first; the last one is active.        *)
(*                                                                         *)
(* A segment is a record                                                   *)
(*   base    first offset of the file, which is also its name              *)
(*   end     exclusive last offset, as the process believes it             *)
(*   recs    the frames appended, oldest first                             *)
(*   os      how many of them left the BufWriter for the operating system  *)
(*   synced  how many of them were fsynced                                 *)
(* Every frame takes one unit of space: segment_bytes and max_disk_bytes   *)
(* are counted in records.                                                 *)
(*                                                                         *)
(* The memory store (memory.rs) is seen as files of one record each, with  *)
(* an empty one at the end: it may give up every record it holds.          *)
(***************************************************************************)
EXTENDS Integers, SequencesExt

Frame(off, id) == [off |-> off, id |-> id]

SegmentFile(base, recs, os) ==
    [base |-> base, end |-> base + Len(recs), recs |-> recs,
     os |-> os, synced |-> 0]

(* Where the frames are: the file, and the place in it. *)
Slots(segs) == UNION {{i} \X (1..Len(segs[i].recs)) : i \in 1..Len(segs)}

DiskRecords(segs) == Cardinality(Slots(segs))

Stored(segs) == UNION {Range(segs[i].recs) : i \in 1..Len(segs)}

NextOffset(segs) == IF segs = <<>> THEN 0 ELSE Last(segs).end

-----------------------------------------------------------------------------
(* Writing.                                                                *)
FlushOs(segs) ==
    IF segs = <<>> THEN segs
    ELSE [segs EXCEPT ![Len(segs)].os = Len(Last(segs).recs)]

(* Mutant: flushed, and not fsynced. *)
Sync_FlushOnly(segs) == FlushOs(segs)

(* fsync reaches the active file only. *)
Sync(segs) ==
    IF segs = <<>> THEN segs
    ELSE [FlushOs(segs) EXCEPT ![Len(segs)].synced = Len(Last(segs).recs)]

NeedNew(segs, cap) ==
    \/ segs = <<>>
    \/ Last(segs).recs # <<>> /\ Len(Last(segs).recs) + 1 > cap

(* append.  A new segment flushes the file it leaves, and does not fsync   *)
(* it.                                                                     *)
AppendFrame(segs, cap, id) ==
    LET frame == Frame(NextOffset(segs), id)
        rolled == IF NeedNew(segs, cap)
                  THEN Append(FlushOs(segs),
                              SegmentFile(NextOffset(segs), <<>>, 0))
                  ELSE segs
    IN  [rolled EXCEPT ![Len(rolled)].recs = Append(@, frame),
                       ![Len(rolled)].end = @ + 1]

(* append of the memory store. *)
AppendRecord(segs, id) ==
    LET next == NextOffset(segs) IN
    Front(segs) \o <<SegmentFile(next, <<Frame(next, id)>>, 1), SegmentFile(next + 1, <<>>, 0)>>

(* The BufWriter keeps the new frame and those before it until a flush, or *)
(* writes out what it held to make room, or writes a large frame through.  *)
Spilled(segs) ==
    LET n == Len(segs)
        frames == Len(segs[n].recs)
    IN  {[segs EXCEPT ![n].os = k] : k \in {segs[n].os, frames - 1, frames}}

-----------------------------------------------------------------------------
(* The files from the first one that must stay: it is the active one, or   *)
(* it ends above an offset.                                                *)
FilesFrom(segs, offset) ==
    LET first == Min({i \in 1..Len(segs) : i = Len(segs) \/ segs[i].end > offset})
    IN  IF segs = <<>> THEN segs ELSE SubSeq(segs, first, Len(segs))

(* Mutant: a file goes one record too early. *)
TruncateBelow_OffByOne(segs, offset) == FilesFrom(segs, offset + 1)

(* Reclaiming: whole files below an offset, never the active one.          *)
TruncateBelow(segs, offset) == FilesFrom(segs, offset)

(* Mutant: the last two files are kept. *)
FilesToDrop_KeepTwo(segs, maxDisk) ==
    Min({k \in 0..Len(segs) :
            \/ DiskRecords(SubSeq(segs, k + 1, Len(segs))) + 1 <= maxDisk
            \/ k + 2 >= Len(segs)})

(* dropOldest: the fewest whole files that make room for one more record,  *)
(* or all but the active one.                                              *)
FilesToDrop(segs, maxDisk) ==
    Min({k \in 0..Len(segs) :
            \/ DiskRecords(SubSeq(segs, k + 1, Len(segs))) + 1 <= maxDisk
            \/ k + 1 >= Len(segs)})

-----------------------------------------------------------------------------
(* Reading.  plan_read names up to maxRecords frames from an offset on, as *)
(* one byte range per file; read_chunks reads the ranges later, and stops  *)
(* at the first one whose file is gone or too short.                       *)
DueFrames(segs, from) ==
    UNION {{[base |-> segs[i].base, frame |-> f] :
               f \in {g \in Range(segs[i].recs) : g.off >= from}} :
              i \in 1..Len(segs)}

(* The first due frames in the order of their offsets: maxRecords of them, *)
(* or all of them.                                                         *)
PlanRead(segs, from, maxRecords) ==
    LET due == IF from >= NextOffset(segs) THEN {} ELSE DueFrames(segs, from)
    IN  {plan \in BoundedSeq(due, maxRecords) :
            /\ \A i, j \in DOMAIN plan :
                  i < j => plan[i].frame.off < plan[j].frame.off
            /\ \A c \in due \ Range(plan) :
                  /\ Len(plan) = maxRecords
                  /\ \A i \in DOMAIN plan : plan[i].frame.off < c.frame.off}

ReadChunks(segs, plan) ==
    LET readable(base) ==
            \E i \in 1..Len(segs) :
               /\ segs[i].base = base
               /\ \A j \in DOMAIN plan :
                     plan[j].base = base =>
                        plan[j].frame.off < base + segs[i].os
        got == Max({n \in 0..Len(plan) : \A j \in 1..n : readable(plan[j].base)})
    IN  [j \in 1..got |-> plan[j].frame]

-----------------------------------------------------------------------------
(* Crashes.  What a crash leaves of each file is a prefix of its frames: a *)
(* kill may lose what was not flushed, a power loss what was not fsynced.  *)
AfterCrash(segs, kept, power) ==
    [i \in 1..Len(segs) |->
        [segs[i] EXCEPT !.recs = SubSeq(@, 1, kept[i]),
                        !.os = kept[i],
                        !.synced = IF power THEN kept[i] ELSE @]]

Survivals(segs, power) ==
    {kept \in [1..Len(segs) -> 0..DiskRecords(segs)] :
        \A i \in 1..Len(segs) :
            /\ kept[i] <= Len(segs[i].recs)
            /\ kept[i] >= IF power THEN segs[i].synced ELSE segs[i].os}

(* scan_tail keeps the frames of the tail that continue its base.          *)
ValidFrames(seg) ==
    Max({n \in 0..Len(seg.recs) :
            \A j \in 1..n : seg.recs[j].off = seg.base + j - 1})

(* open: the tail is scanned and cut after its last valid frame; an older  *)
(* file is trusted to end where the next one begins.                       *)
Recover(segs) ==
    LET n == Len(segs) IN
    [i \in 1..n |->
        IF i < n THEN [segs[i] EXCEPT !.end = segs[i + 1].base]
        ELSE LET v == ValidFrames(segs[i])
             IN  [segs[i] EXCEPT !.recs = SubSeq(@, 1, v), !.os = v,
                                 !.synced = Min({@, v}),
                                 !.end = segs[i].base + v]]
=============================================================================
