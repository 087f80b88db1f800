------------------------------ MODULE FileSink ------------------------------
(***************************************************************************)
(* The rolling file sink (export/file.rs) under the export engine          *)
(* (export/mod.rs): a batch rolls the files that are old enough, its rows  *)
(* go to the main file and, by the default projection, its other records   *)
(* to the unmapped one, a file that reached its size is finalized, and a   *)
(* ring bounds the finalized files.  Any file operation may fail, the      *)
(* process may be killed between two of them, and a clean stop drops the   *)
(* sink, which finalizes its open files.                                   *)
(*                                                                         *)
(* The encoders are external.  When a write breaks off, the Parquet writer *)
(* refuses to go on and to close, so that its file stays without a footer; *)
(* an Avro file is torn: it takes more blocks, and a reader stops at the   *)
(* tear.                                                                   *)
(*                                                                         *)
(* A record is its offset; a file is the set of the records appended to    *)
(* it; each is one row long.                                               *)
(***************************************************************************)
EXTENDS Integers, SequencesExt

CONSTANTS
    Kind,          \* per record: "rows", "unmapped", or "empty" for no row at all
                   \* (no samples, or an empty array to explode)
    BatchRecords,  \* batch.max_records of the engine
    FileRecords,   \* max_file_bytes, in rows
    MaxFiles,      \* max_files, 0 for no bound
    MaxRetries,    \* delivery.max_retries, unless the engine retries for ever
    Setups,        \* what is configured: format, mode, onFull, whether files roll by
                   \* age, and whether the engine retries for ever
    MaxFaults,     \* model bound: file operations that fail
    MaxRestarts    \* model bound: kills and clean stops

ASSUME FileSinkAssumption ==
    /\ Kind \in Seq({"rows", "unmapped", "empty"})
    /\ {BatchRecords, FileRecords} \subseteq Nat \ {0}
    /\ {MaxFiles, MaxRetries, MaxFaults, MaxRestarts} \subseteq Nat
    /\ Setups \subseteq [format : {"parquet", "avro"}, mode : {"raw", "rows", "columns"},
                         onFull : {"dropOldest", "stop"}, rolls : BOOLEAN,
                         forever : BOOLEAN]

VARIABLES
    setup,    \* never changes
    cursor,   \* records committed: 1 .. cursor
    saved,    \* the cursor of the checkpoint file
    pc,       \* the engine, and its place in write_batch
    attempt,  \* retries of the batch
    open,     \* per slot, its open file: whether its encoder works, the rows that can
              \* be read from it once it is closed, and its size
    due,      \* slots whose file is older than rollEverySecs
    ring      \* finalized files of this life of the process, oldest first

(* The directory beyond the ring, and history. *)
VARIABLES
    old,      \* finalized files the ring does not know
    strays,   \* "*.inprogress" files nobody owns, that can be read
    deleted,  \* records of files the ring deleted
    lost,     \* records of files, or of ends of files, that cannot be read
    gave_up,  \* records of batches the engine gave up
    repeated, \* records appended twice in one life of the process
    faults, restarts,
    killed

progress == <<cursor, saved, pc, attempt>>
sink == <<open, due, ring, old, strays, deleted, lost, repeated>>
vars == <<setup, progress, sink, gave_up, faults, restarts, killed>>

Slots == {"main", "unmapped"}
NoFile == [is |-> "none", rows |-> {}, size |-> 0]

(* The steps of write_batch. *)
Then == [roll_main |-> "roll_unmapped", roll_unmapped |-> "write_main",
         write_main |-> "size_main", size_main |-> "write_unmapped",
         write_unmapped |-> "size_unmapped", size_unmapped |-> "commit"]

RollAt == [main |-> "roll_main", unmapped |-> "roll_unmapped"]
WriteAt == [main |-> "write_main", unmapped |-> "write_unmapped"]
SizeAt == [main |-> "size_main", unmapped |-> "size_unmapped"]

(* The steps of drop. *)
DropAt == [main |-> "drop_main", unmapped |-> "drop_unmapped"]

(* Mutant: the drop forgets the unmapped file. *)
AfterDrop_Main == [drop_main |-> "closed", drop_unmapped |-> "closed"]

AfterDrop == [drop_main |-> "drop_unmapped", drop_unmapped |-> "closed"]

Init ==
    /\ setup \in Setups
    /\ cursor = 0 /\ saved = 0 /\ pc = "poll" /\ attempt = 0
    /\ open = [s \in Slots |-> NoFile] /\ due = {} /\ ring = <<>>
    /\ old = {} /\ strays = {} /\ deleted = {} /\ lost = {} /\ gave_up = {}
    /\ repeated = {} /\ faults = 0 /\ restarts = 0 /\ killed = FALSE

Last_ == IF cursor + BatchRecords < Len(Kind) THEN cursor + BatchRecords ELSE Len(Kind)
Batch == cursor + 1 .. Last_

(* The records of each slot: raw keeps them all in the main file, and so   *)
(* do the columns a user chose, where there is a row; the default          *)
(* projection sends what it cannot map to the other file.                  *)
KindsOf ==
    [raw     |-> [main |-> {"rows", "unmapped", "empty"}, unmapped |-> {}],
     columns |-> [main |-> {"rows", "unmapped"}, unmapped |-> {}],
     rows    |-> [main |-> {"rows"}, unmapped |-> {"unmapped"}]]
Rows(s) == {r \in Batch : Kind[r] \in KindsOf[setup.mode][s]}

Fault == faults < MaxFaults /\ faults' = faults + 1
NoFault == UNCHANGED faults

Broken(s) == open[s].is = "broken"
Stuck(s) == Broken(s) /\ setup.format = "parquet"

-----------------------------------------------------------------------------
(* The engine: read a batch, send it until it is acknowledged or given up, *)
(* commit.                                                                 *)
Send ==
    /\ pc = "poll"
    /\ cursor < Len(Kind)
    /\ pc' = "roll_main" /\ attempt' = 0
    /\ UNCHANGED <<setup, cursor, saved, sink, gave_up, faults, restarts, killed>>

(* The engine does not look whether a failure is called retryable. *)
SendFailed ==
    IF ~setup.forever /\ attempt + 1 > MaxRetries
    THEN pc' = "commit" /\ gave_up' = gave_up \union Batch /\ UNCHANGED attempt
    ELSE pc' = "roll_main" /\ UNCHANGED gave_up
         /\ attempt' = IF setup.forever THEN 0 ELSE attempt + 1

SendGoesOn == pc' = Then[pc] /\ UNCHANGED <<attempt, gave_up>>

(* Mutant: the last record of a batch is delivered again. *)
CommitTo_Before == IF Last_ = Len(Kind) THEN Last_ ELSE Last_ - 1

CommitTo == Last_

Commit ==
    /\ pc = "commit"
    /\ cursor' = IF CommitTo > cursor THEN CommitTo ELSE cursor
    /\ pc' = "poll"
    /\ UNCHANGED <<setup, saved, attempt, sink, gave_up, faults, restarts, killed>>

Checkpoint ==
    /\ saved < cursor /\ saved' = cursor
    /\ UNCHANGED <<setup, cursor, pc, attempt, sink, gave_up, faults, restarts, killed>>

-----------------------------------------------------------------------------
(* finalize.  The slot is empty before the file is closed and renamed.     *)
(*                                                                         *)
(* Mutant: the ring lets one file too many stay.                           *)
Surplus_One(n) == IF n > MaxFiles + 1 THEN n - MaxFiles - 1 ELSE 0

Surplus(n) == IF n > MaxFiles THEN n - MaxFiles ELSE 0

Oldest(files) == IF setup.onFull = "dropOldest" /\ MaxFiles > 0
                 THEN Surplus(Len(files)) ELSE 0

Unions(files) == UNION {files[i] : i \in DOMAIN files}

Finalize(s) ==
    LET files == Append(ring, open[s].rows) IN
    /\ ring' = SubSeq(files, Oldest(files) + 1, Len(files))
    /\ deleted' = deleted \union Unions(SubSeq(files, 1, Oldest(files)))
    /\ UNCHANGED <<old, strays, lost, repeated>>

(* An unfinished Parquet file has no footer; an Avro file can be read up   *)
(* to its last block.                                                      *)
Leaves(rows, closed) ==
    IF closed \/ setup.format = "avro"
    THEN strays' = strays \union {rows} /\ UNCHANGED lost
    ELSE lost' = lost \union rows /\ UNCHANGED strays

FinalizeFails(s) ==
    /\ \E closed \in BOOLEAN : Leaves(open[s].rows, closed)
    /\ UNCHANGED <<ring, old, deleted, repeated>>

(* The slot is empty from here on, whatever comes of its file. *)
Take(s) == open' = [open EXCEPT ![s] = NoFile] /\ due' = due \ {s}
Finalized(s) == ~Stuck(s) /\ Finalize(s) /\ NoFault
NotFinalized(s) == FinalizeFails(s) /\ IF Stuck(s) THEN NoFault ELSE Fault

(* Both ways to roll a file: its age, on the next batch, or its size, when *)
(* it was written.                                                         *)
RollStep(s, at, when) ==
    /\ pc = at
    /\ \/ ~when /\ SendGoesOn /\ UNCHANGED <<sink, faults>>
       \/ when /\ Take(s) /\ Finalized(s) /\ SendGoesOn
       \/ when /\ Take(s) /\ NotFinalized(s) /\ SendFailed
    /\ UNCHANGED <<setup, cursor, saved, restarts, killed>>

TimeRoll(s) == RollStep(s, RollAt[s], s \in due)
SizeRoll(s) == RollStep(s, SizeAt[s], Rows(s) # {} /\ open[s].size >= FileRecords)

(* Mutant: the ring refuses whatever onFull says. *)
Refused_Full(s) == open[s] = NoFile /\ MaxFiles > 0 /\ Len(ring) >= MaxFiles

Refused(s) ==
    /\ open[s] = NoFile
    /\ setup.onFull = "stop" /\ MaxFiles > 0 /\ Len(ring) >= MaxFiles

Appended(s, rows) ==
    /\ open' = [open EXCEPT ![s] = [is |-> "open", rows |-> @.rows \union rows,
                                    size |-> @.size + Cardinality(rows)]]
    /\ repeated' = repeated \union (rows \intersect (open[s].rows \union Unions(ring)))
    /\ UNCHANGED lost

(* Blocks behind the tear. *)
AppendedTorn(s, rows) ==
    /\ open' = [open EXCEPT ![s].size = @ + Cardinality(rows)]
    /\ lost' = lost \union rows
    /\ UNCHANGED repeated

(* A write that breaks off leaves the encoder in its slot. *)
Breaks(s) ==
    /\ IF setup.format = "parquet"
       THEN /\ open' = [open EXCEPT ![s].is = "broken", ![s].rows = {}]
            /\ lost' = lost \union open[s].rows
       ELSE open' = [open EXCEPT ![s].is = "broken"] /\ UNCHANGED lost
    /\ UNCHANGED repeated

(* A write that fails: no file was opened, or an empty one; nothing was    *)
(* appended; all was, and only the fsync failed; or it broke off.          *)
WriteFails(s) ==
    \/ UNCHANGED <<open, lost, repeated>>
    \/ /\ open[s] = NoFile /\ open' = [open EXCEPT ![s].is = "open"]
       /\ UNCHANGED <<lost, repeated>>
    \/ ~Broken(s) /\ (Appended(s, Rows(s)) \/ Breaks(s))

(* write_to_slot. *)
Write(s) ==
    /\ pc = WriteAt[s]
    /\ \/ /\ Rows(s) = {}
          /\ SendGoesOn /\ NoFault
          /\ UNCHANGED <<open, lost, repeated>>
       \/ /\ Rows(s) # {} /\ (Refused(s) \/ Stuck(s))
          /\ SendFailed /\ NoFault
          /\ UNCHANGED <<open, lost, repeated>>
       \/ /\ Rows(s) # {} /\ ~Refused(s) /\ ~Stuck(s)
          /\ IF Broken(s) THEN AppendedTorn(s, Rows(s)) ELSE Appended(s, Rows(s))
          /\ SendGoesOn /\ NoFault
       \/ /\ Rows(s) # {} /\ ~Refused(s) /\ ~Stuck(s)
          /\ WriteFails(s)
          /\ SendFailed /\ Fault
    /\ UNCHANGED <<setup, cursor, saved, due, ring, old, strays, deleted, restarts, killed>>

(* Time passes; nobody looks at it before the next batch. *)
Age(s) ==
    /\ setup.rolls /\ open[s] # NoFile /\ s \notin due
    /\ due' = due \union {s}
    /\ UNCHANGED <<setup, progress, open, ring, old, strays, deleted, lost, repeated,
                   gave_up, faults, restarts, killed>>

-----------------------------------------------------------------------------
(* The process.  What is finalized stays, and the next life forgets it; a  *)
(* Parquet file left open is lost.                                         *)
Restart ==
    /\ restarts < MaxRestarts /\ restarts' = restarts + 1
    /\ pc' = "poll" /\ attempt' = 0
    /\ open' = [s \in Slots |-> NoFile] /\ due' = {} /\ ring' = <<>>
    /\ old' = old \union ToSet(ring)
    /\ LET left == {open[s].rows : s \in {x \in Slots : open[x] # NoFile}} IN
       IF setup.format = "avro"
       THEN strays' = strays \union left /\ UNCHANGED lost
       ELSE lost' = lost \union UNION left /\ UNCHANGED strays
    /\ UNCHANGED <<setup, deleted, repeated, gave_up, faults>>

(* A kill loses the cursor since the checkpoint as well. *)
Kill ==
    /\ Restart
    /\ killed' = TRUE
    /\ cursor' = saved /\ UNCHANGED saved

(* A clean stop leaves between two sends, drops the sink, and saves the    *)
(* cursor.                                                                 *)
Stop ==
    /\ pc \in {"poll", "roll_main"}
    /\ restarts < MaxRestarts
    /\ pc' = "drop_main"
    /\ UNCHANGED <<setup, cursor, saved, attempt, sink, gave_up, faults, restarts, killed>>

(* The drop of the sink looks at no error. *)
Drop(s) ==
    /\ pc = DropAt[s]
    /\ pc' = AfterDrop[pc]
    /\ \/ open[s] = NoFile /\ UNCHANGED <<sink, faults>>
       \/ open[s] # NoFile /\ Take(s) /\ (Finalized(s) \/ NotFinalized(s))
    /\ UNCHANGED <<setup, cursor, saved, attempt, gave_up, restarts, killed>>

Close ==
    /\ pc = "closed"
    /\ Restart
    /\ saved' = cursor /\ UNCHANGED <<cursor, killed>>

Next ==
    \/ Send \/ Commit \/ Checkpoint
    \/ \E s \in Slots : TimeRoll(s) \/ Write(s) \/ SizeRoll(s) \/ Age(s)
    \/ Kill \/ Stop \/ Close \/ \E s \in Slots : Drop(s)

Spec == Init /\ [][Next]_vars

EngineStep ==
    \/ Send \/ Commit \/ Close
    \/ \E s \in Slots : TimeRoll(s) \/ Write(s) \/ SizeRoll(s) \/ Drop(s)

(* The engine thread runs, and time passes. *)
FairSpec == Spec /\ WF_vars(EngineStep) /\ \A s \in Slots : WF_vars(Age(s))

-----------------------------------------------------------------------------
Files == ToSet(ring) \union old \union strays \union {open[s].rows : s \in Slots}

(* The ring keeps maxFiles files.  With "stop" and two slots it may keep   *)
(* one more: each may hold an open file when the other one fills the ring. *)
RingBounded == MaxFiles > 0 =>
    Len(ring) <= IF setup.onFull = "stop" /\ setup.mode = "rows" THEN MaxFiles + 1
                 ELSE MaxFiles

(* Types, and the bound of the ring. *)
TypeOK ==
    /\ cursor \in 0..Len(Kind) /\ saved \in 0..cursor
    /\ pc \in DOMAIN Then \union {"poll", "commit", "drop_main", "drop_unmapped", "closed"}
    /\ attempt \in 0..MaxRetries
    /\ due \subseteq {s \in Slots : open[s] # NoFile}
    /\ RingBounded

(* What was committed can be read from some file, unless it has no row at  *)
(* all, the ring deleted it, or the engine gave its batch up.  Only a      *)
(* failed file operation, or a kill with the Parquet format, may cost more *)
(* ("so a clean stop loses nothing").                                      *)
AckedInFiles == \A r \in 1..cursor :
    \/ Kind[r] = "empty" /\ setup.mode # "raw"
    \/ r \in deleted \union gave_up
    \/ r \in lost /\ (faults > 0 \/ (killed /\ setup.format = "parquet"))
    \/ r \in UNION Files

(* In one life of the process a record is appended twice only when a file  *)
(* operation failed, or when the ring refused the second file of a batch.  *)
RepeatsExplained == repeated # {} =>
    faults > 0 \/ (setup.onFull = "stop" /\ setup.mode = "rows")

(* The sink never holds the stream up for good, except with "stop", and    *)
(* except when the engine retries for ever with a Parquet writer that      *)
(* broke off, and no age rolls its file.                                   *)
SinkAdvances == setup.onFull = "dropOldest" => <>[]
    \/ cursor = Len(Kind)
    \/ setup.forever /\ ~setup.rolls /\ \E s \in Slots : Stuck(s)
=============================================================================
