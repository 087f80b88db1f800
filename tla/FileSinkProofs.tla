--------------------------- MODULE FileSinkProofs ---------------------------
(***************************************************************************)
(* Theorems about FileSink: for any stream, batch and file sizes, ring     *)
(* and retries, and any number of failed file operations, kills and        *)
(* restarts.                                                               *)
(***************************************************************************)
EXTENDS FileSink, FiniteSetTheorems, TLAPS

Opened(s) == IF open[s] = NoFile THEN 0 ELSE 1

FileRecord == [is : {"none", "open", "broken"}, rows : SUBSET Nat, size : Nat]

Stopping == {"drop_main", "drop_unmapped", "closed"}

FileTypes ==
    /\ setup \in Setups
    /\ cursor \in 0..Len(Kind) /\ saved \in 0..cursor
    /\ pc \in DOMAIN Then \union {"poll", "commit"} \union Stopping
    /\ pc \in DOMAIN Then \union {"commit"} => cursor < Len(Kind)
    /\ attempt \in 0..MaxRetries
    /\ open \in [Slots -> FileRecord]
    /\ due \subseteq {s \in Slots : open[s] # NoFile}
    /\ ring \in Seq(SUBSET Nat)
    /\ faults \in Nat
    /\ \A s \in Slots : Broken(s) => faults > 0

(* What a clean stop has dropped. *)
Dropped ==
    /\ pc \in {"drop_unmapped", "closed"} => open["main"] = NoFile
    /\ pc = "closed" => open["unmapped"] = NoFile

(* With "stop" an open file has a place in the ring, or is the one more    *)
(* that two slots may open; but for the default projection there is one    *)
(* slot.                                                                   *)
Room ==
    /\ setup.mode # "rows" => open["unmapped"] = NoFile
    /\ MaxFiles > 0 /\ setup.onFull = "dropOldest" => Len(ring) <= MaxFiles
    /\ MaxFiles > 0 /\ setup.onFull = "stop" =>
           Len(ring) + Opened("main") + Opened("unmapped")
               <= IF setup.mode = "rows" THEN MaxFiles + 1 ELSE MaxFiles

(* What this life of the process appended and still knows. *)
Contents == open["main"].rows \union open["unmapped"].rows \union Unions(ring)

(* The records that are committed or that this attempt of the batch has    *)
(* written.                                                                *)
Written ==
    (1..cursor)
    \union (IF pc \in {"size_main", "write_unmapped", "size_unmapped", "commit"}
            THEN Rows("main") ELSE {})
    \union (IF pc \in {"size_unmapped", "commit"} THEN Rows("unmapped") ELSE {})

Placed(r) ==
    \/ Kind[r] = "empty" /\ setup.mode # "raw"
    \/ r \in deleted \union gave_up
    \/ r \in lost /\ (faults > 0 \/ (killed /\ setup.format = "parquet"))
    \/ r \in Contents \union (UNION old) \union (UNION strays)

WrittenPlaced == \A r \in Written : Placed(r)

GivenUp == pc = "commit" => \A r \in Batch : Placed(r)

(* As long as nothing failed, what is in the files was written once. *)
Fresh == faults = 0 /\ ~(setup.onFull = "stop" /\ setup.mode = "rows") =>
    repeated = {} /\ Contents \subseteq Written

SinkInv == FileTypes /\ Dropped /\ Room /\ WrittenPlaced /\ GivenUp /\ Fresh

-----------------------------------------------------------------------------
(* What is configured. *)
LEMMA Setting ==
  ASSUME FileTypes
  PROVE  /\ setup.mode \in {"raw", "rows", "columns"}
         /\ setup.onFull \in {"dropOldest", "stop"}
         /\ setup.format \in {"parquet", "avro"}
         /\ setup.forever \in BOOLEAN
         /\ Len(Kind) \in Nat /\ MaxFiles \in Nat /\ MaxRetries \in Nat
         /\ BatchRecords \in Nat /\ BatchRecords > 0
         /\ \A r \in 1..Len(Kind) : Kind[r] \in {"rows", "unmapped", "empty"}
  BY FileSinkAssumption DEF FileTypes

(* The batch, and how its records are divided. *)
LEMMA BatchRows ==
  ASSUME FileTypes
  PROVE  /\ cursor < Len(Kind) => Last_ \in cursor + 1 .. Len(Kind)
         /\ Last_ \in 0..Len(Kind) /\ Last_ >= cursor
         /\ Batch \subseteq 1..Len(Kind)
         /\ Rows("main") \subseteq Batch /\ Rows("unmapped") \subseteq Batch
         /\ Rows("main") \intersect Rows("unmapped") = {}
         /\ setup.mode # "rows" => Rows("unmapped") = {}
         /\ \A r \in Batch : \/ r \in Rows("main") \union Rows("unmapped")
                             \/ Kind[r] = "empty" /\ setup.mode # "raw"
  <1>1. /\ cursor < Len(Kind) => Last_ \in cursor + 1 .. Len(Kind)
        /\ Last_ \in 0..Len(Kind) /\ Last_ >= cursor
        /\ Batch \subseteq 1..Len(Kind)
    BY Setting DEF FileTypes, Last_, Batch
  <1>2. CASE setup.mode = "raw"
    BY <1>1, <1>2, Setting DEF Rows, KindsOf
  <1>3. CASE setup.mode = "rows"
    BY <1>1, <1>3, Setting DEF Rows, KindsOf
  <1>4. CASE setup.mode = "columns"
    BY <1>1, <1>4, Setting DEF Rows, KindsOf
  <1> QED
    BY <1>1, <1>2, <1>3, <1>4, Setting

(* Finalizing a file: what the ring lets go is deleted, and nothing else.  *)
LEMMA RingTakes ==
  ASSUME FileTypes, NEW rows \in SUBSET Nat, NEW n \in 0..Len(ring) + 1
  PROVE  LET files == Append(ring, rows)
             rest == SubSeq(files, n + 1, Len(files))
         IN  /\ Len(files) = Len(ring) + 1
             /\ rest \in Seq(SUBSET Nat) /\ Len(rest) = Len(ring) + 1 - n
             /\ Unions(SubSeq(files, 1, n)) \union Unions(rest) = Unions(ring) \union rows
  <1> DEFINE files == Append(ring, rows)
             rest == SubSeq(files, n + 1, Len(files))
             gone == SubSeq(files, 1, n)
  <1>1. /\ files \in Seq(SUBSET Nat) /\ Len(files) = Len(ring) + 1 /\ Len(ring) \in Nat
        /\ \A i \in 1..Len(ring) : files[i] = ring[i]
        /\ files[Len(ring) + 1] = rows
    BY DEF FileTypes
  <1> HIDE DEF files
  <1>2. /\ rest \in Seq(SUBSET Nat) /\ Len(rest) = Len(files) - n
        /\ \A i \in 1..Len(files) - n : rest[i] = files[n + i]
    BY <1>1
  <1>3. /\ gone \in Seq(SUBSET Nat) /\ Len(gone) = n
        /\ \A i \in 1..n : gone[i] = files[i]
    BY <1>1
  <1>4. Unions(files) = Unions(ring) \union rows
    <2>1. DOMAIN files = 1..Len(ring) + 1 /\ DOMAIN ring = 1..Len(ring)
      BY <1>1 DEF FileTypes
    <2> QED
      BY <1>1, <2>1 DEF Unions
  <1>5. Unions(gone) \union Unions(rest) = Unions(files)
    <2> HIDE DEF gone, rest
    <2>1. /\ DOMAIN files = 1..Len(files) /\ DOMAIN gone = 1..n
          /\ DOMAIN rest = 1..Len(files) - n
      BY <1>1, <1>2, <1>3
    <2>2. \A i \in 1..Len(files) : i \in 1..n \/ i - n \in 1..Len(files) - n
      BY <1>1
    <2>3. \A i \in DOMAIN files :
             \/ i \in DOMAIN gone /\ gone[i] = files[i]
             \/ i - n \in DOMAIN rest /\ rest[i - n] = files[i]
      BY <1>1, <1>2, <1>3, <2>1, <2>2
    <2>4. /\ \A i \in DOMAIN gone : i \in DOMAIN files /\ gone[i] = files[i]
          /\ \A i \in DOMAIN rest : n + i \in DOMAIN files /\ rest[i] = files[n + i]
      BY <1>1, <1>2, <1>3, <2>1
    <2> QED
      BY <2>3, <2>4 DEF Unions
  <1> QED
    BY <1>1, <1>2, <1>4, <1>5 DEF files

-----------------------------------------------------------------------------
(* What can be read of this sink: its files, and those it does not know.   *)
Kept == Contents \union (UNION old) \union (UNION strays)
Excused == faults > 0 \/ (killed /\ setup.format = "parquet")

(* A record that has its place keeps it. *)
LEMMA PlacedStays ==
  ASSUME UNCHANGED setup, deleted \subseteq deleted', gave_up \subseteq gave_up',
         lost \subseteq lost', Excused => Excused',
         \A r \in Kept : r \in Kept' \/ r \in deleted' \/ (r \in lost' /\ Excused')
  PROVE  \A r : Placed(r) => Placed(r)'
  BY DEF Placed, Kept, Excused

(* Where a send goes after a step of write_batch. *)
LEMMA GoesOn ==
  ASSUME SinkInv, SendGoesOn, pc \in DOMAIN Then, UNCHANGED <<cursor, setup>>
  PROVE  /\ pc' \in (DOMAIN Then \union {"commit"}) \ {"roll_main"} /\ cursor < Len(Kind)
         /\ UNCHANGED <<Batch, Last_>> /\ \A s \in Slots : UNCHANGED Rows(s)
         /\ pc = "write_main" => Written' = Written \union Rows("main")
         /\ pc = "write_unmapped" => Written' = Written \union Rows("unmapped")
         /\ pc \notin {"write_main", "write_unmapped"} => Written' = Written
         /\ pc' = "commit" => pc = "size_unmapped"
  BY DEF SinkInv, FileTypes, SendGoesOn, Then, Written, Batch, Last_, Rows

(* The same when the send fails: the batch is sent again or given up.      *)
LEMMA Fails ==
  ASSUME SinkInv, SendFailed, pc \in DOMAIN Then, UNCHANGED <<cursor, setup>>
  PROVE  /\ pc' \in {"roll_main", "commit"} /\ attempt' \in 0..MaxRetries
         /\ cursor < Len(Kind)
         /\ gave_up \subseteq gave_up' /\ (pc' = "commit" => Batch \subseteq gave_up')
         /\ UNCHANGED <<Batch, Last_>> /\ \A s \in Slots : UNCHANGED Rows(s)
         /\ 1..cursor \subseteq Written' /\ Written' \subseteq (1..cursor) \union Batch
         /\ pc' = "roll_main" => Written' = 1..cursor
  <1>1. /\ pc' \in {"roll_main", "commit"} /\ attempt' \in 0..MaxRetries
        /\ cursor < Len(Kind)
        /\ gave_up \subseteq gave_up' /\ (pc' = "commit" => Batch \subseteq gave_up')
    BY Setting DEF SinkInv, FileTypes, SendFailed
  <1>2. /\ UNCHANGED <<Batch, Last_>> /\ \A s \in Slots : UNCHANGED Rows(s)
    BY DEF Batch, Last_, Rows
  <1>3. /\ 1..cursor \subseteq Written' /\ Written' \subseteq (1..cursor) \union Batch
        /\ pc' = "roll_main" => Written' = 1..cursor
    BY <1>1, <1>2, BatchRows DEF Written, SinkInv, Slots
  <1> QED
    BY <1>1, <1>2, <1>3

(* What is placed, and what is fresh, after a step that goes on or fails.  *)
LEMMA PlacedAfter ==
  ASSUME SinkInv, SendGoesOn \/ SendFailed, pc \in DOMAIN Then,
         UNCHANGED <<cursor, setup>>,
         \A r : Placed(r) => Placed(r)',
         \/ SendFailed
         \/ /\ pc = "write_main" => \A r \in Rows("main") : Placed(r)'
            /\ pc = "write_unmapped" => \A r \in Rows("unmapped") : Placed(r)'
  PROVE  WrittenPlaced' /\ GivenUp'
  <1>1. CASE SendGoesOn /\ ~SendFailed
    <2>1. WrittenPlaced'
      BY <1>1, GoesOn DEF SinkInv, WrittenPlaced
    <2>2. ASSUME pc' = "commit" PROVE \A r \in Batch' : Placed(r)'
      <3>1. Rows("main") \union Rows("unmapped") \subseteq Written /\ Batch' = Batch
        BY <1>1, <2>2, GoesOn DEF Written
      <3>2. \A r \in Batch : Placed(r)
        BY <3>1, BatchRows DEF SinkInv, WrittenPlaced, Placed
      <3> QED
        BY <3>1, <3>2
    <2> QED
      BY <2>1, <2>2 DEF GivenUp
  <1>2. CASE SendFailed
    <2>1. \A r \in 1..cursor : Placed(r)'
      BY DEF SinkInv, WrittenPlaced, Written
    <2>2. pc' = "commit" => \A r \in Batch : Placed(r)'
      BY <1>2, Fails DEF Placed
    <2>3. WrittenPlaced'
      BY <1>2, <2>1, <2>2, Fails DEF WrittenPlaced
    <2> QED
      BY <1>2, <2>2, <2>3, Fails DEF GivenUp
  <1> QED
    BY <1>1, <1>2

-----------------------------------------------------------------------------
(* A slot gives up its file. *)
LEMMA Taken ==
  ASSUME SinkInv, NEW s \in Slots, open[s] # NoFile, Take(s)
  PROVE  /\ open' \in [Slots -> FileRecord]
         /\ due' \subseteq {x \in Slots : open'[x] # NoFile}
         /\ open[s].rows \subseteq Nat /\ open'[s] = NoFile /\ open'[s].rows = {}
         /\ \A x \in Slots : x # s => open'[x] = open[x]
         /\ \A x \in Slots : Broken(x)' => Broken(x)
         /\ Opened("main") + Opened("unmapped")
                = Opened("main")' + Opened("unmapped")' + 1
         /\ Opened("main")' \in 0..1 /\ Opened("unmapped")' \in 0..1
         /\ open["unmapped"] = NoFile => open'["unmapped"] = NoFile
  <1>1. /\ open \in [Slots -> FileRecord] /\ NoFile \in FileRecord
        /\ NoFile.rows = {} /\ NoFile.is # "broken"
        /\ due \subseteq {x \in Slots : open[x] # NoFile}
    BY DEF SinkInv, FileTypes, NoFile, FileRecord
  <1>2. open[s].rows \subseteq Nat
    BY <1>1 DEF FileRecord
  <1>3. /\ open' \in [Slots -> FileRecord]
        /\ due' \subseteq {x \in Slots : open'[x] # NoFile}
        /\ open'[s].rows = {} /\ open'[s] = NoFile
        /\ \A x \in Slots : x # s => open'[x] = open[x]
    BY <1>1 DEF Take
  <1>4. \A x \in Slots : Broken(x)' => Broken(x)
    BY <1>1, <1>3 DEF Broken
  <1>5. CASE s = "main"
    BY <1>2, <1>3, <1>4, <1>5 DEF Opened, Slots
  <1>6. CASE s = "unmapped"
    BY <1>2, <1>3, <1>4, <1>6 DEF Opened, Slots
  <1> QED
    BY <1>5, <1>6 DEF Slots

(* There is room when a slot gave up its file and the ring took at most    *)
(* that one.                                                               *)
LEMMA RoomAfter ==
  ASSUME SinkInv, NEW s \in Slots, open[s] # NoFile, Take(s), UNCHANGED setup,
         Len(ring') \in Nat, Len(ring') <= Len(ring) + 1,
         MaxFiles > 0 /\ setup.onFull = "dropOldest" => Len(ring') <= MaxFiles
  PROVE  Room'
  <1> DEFINE o == Opened("main") + Opened("unmapped")
             p == Opened("main")' + Opened("unmapped")'
             x == IF setup.mode = "rows" THEN MaxFiles + 1 ELSE MaxFiles
  <1>1. Len(ring) \in Nat /\ MaxFiles \in Nat /\ x \in Nat
    BY Setting DEF SinkInv, FileTypes
  <1>2. /\ Opened("main") \in Nat /\ Opened("unmapped") \in Nat
        /\ Opened("main")' \in Nat /\ Opened("unmapped")' \in Nat
        /\ o \in Nat /\ p \in Nat /\ p + 1 = o
        /\ open["unmapped"] = NoFile => open'["unmapped"] = NoFile
    BY Taken DEF Opened
  <1>3. MaxFiles > 0 /\ setup.onFull = "stop" => Len(ring) + o <= x
    BY <1>1, <1>2 DEF SinkInv, Room
  <1>4. MaxFiles > 0 /\ setup.onFull = "stop" => Len(ring') + p <= x
    <2> HIDE DEF o, p, x
    <2> QED
      BY <1>1, <1>2, <1>3
  <1>5. MaxFiles > 0 /\ setup.onFull = "stop" =>
            Len(ring') + Opened("main")' + Opened("unmapped")' <= x
    BY <1>2, <1>4
  <1> HIDE DEF o, p
  <1> QED
    BY <1>2, <1>5 DEF SinkInv, Room

(* The file of a slot is finalized: the ring takes it, and may delete.     *)
LEMMA FinalizedKeeps ==
  ASSUME SinkInv, NEW s \in Slots, open[s] # NoFile, Take(s), Finalized(s),
         UNCHANGED <<setup, killed>>, gave_up \subseteq gave_up'
  PROVE  /\ ring' \in Seq(SUBSET Nat) /\ Room' /\ UNCHANGED <<faults, repeated>>
         /\ Contents' \subseteq Contents
         /\ \A r : Placed(r) => Placed(r)'
  <1> DEFINE n == Oldest(Append(ring, open[s].rows))
  <1>1. /\ open' \in [Slots -> FileRecord]
        /\ open[s].rows \subseteq Nat /\ open'[s].rows = {}
        /\ \A x \in Slots : x # s => open'[x] = open[x]
    BY Taken
  <1>2. Len(ring) \in Nat /\ Len(Append(ring, open[s].rows)) = Len(ring) + 1
    BY <1>1 DEF SinkInv, FileTypes
  <1>3. /\ n \in 0..Len(ring) + 1
        /\ setup.onFull = "dropOldest" /\ MaxFiles > 0 => Len(ring) + 1 - n <= MaxFiles
    BY <1>2, Setting DEF SinkInv, Oldest, Surplus
  <1>4. /\ ring' \in Seq(SUBSET Nat) /\ Len(ring') = Len(ring) + 1 - n
        /\ deleted' \union Unions(ring') = deleted \union Unions(ring) \union open[s].rows
        /\ deleted \subseteq deleted' /\ Unions(ring') \subseteq Unions(ring) \union open[s].rows
    <2> HIDE DEF n
    <2> QED
      BY <1>1, <1>3, RingTakes DEF Finalized, Finalize, SinkInv, n
  <1>5. Room'
    <2> HIDE DEF n
    <2>1. /\ Len(ring') \in Nat /\ Len(ring') <= Len(ring) + 1
          /\ MaxFiles > 0 /\ setup.onFull = "dropOldest" => Len(ring') <= MaxFiles
      BY <1>2, <1>3, <1>4
    <2> QED
      BY <2>1, RoomAfter
  <1>6. /\ Contents' \subseteq Contents
        /\ \A r \in Contents : r \in Contents' \/ r \in deleted'
    <2> HIDE DEF n
    <2> QED
      BY <1>1, <1>4 DEF Contents, Slots
  <1>7. UNCHANGED <<old, strays, lost, repeated, faults>>
    BY DEF Finalized, Finalize, NoFault
  <1>8. \A r : Placed(r) => Placed(r)'
    <2>1. Excused' = Excused /\ \A r \in Kept : r \in Kept' \/ r \in deleted'
      BY <1>6, <1>7 DEF Kept, Excused
    <2>2. /\ deleted \subseteq deleted' /\ gave_up \subseteq gave_up' /\ lost \subseteq lost'
          /\ Excused => Excused'
          /\ \A r \in Kept : r \in Kept' \/ r \in deleted' \/ (r \in lost' /\ Excused')
      BY <1>4, <1>7, <2>1
    <2> QED
      BY <2>2, PlacedStays
  <1> QED
    BY <1>4, <1>5, <1>6, <1>7, <1>8

(* It fails: the file is left where it is, or cannot be read.              *)
LEMMA NotFinalizedKeeps ==
  ASSUME SinkInv, NEW s \in Slots, open[s] # NoFile, Take(s), NotFinalized(s),
         UNCHANGED <<setup, killed>>, gave_up \subseteq gave_up'
  PROVE  /\ UNCHANGED <<ring, repeated>> /\ Room'
         /\ faults' \in Nat /\ faults' > 0
         /\ \A r : Placed(r) => Placed(r)'
  <1>1. /\ open' \in [Slots -> FileRecord]
        /\ open[s].rows \subseteq Nat /\ open'[s].rows = {}
        /\ \A x \in Slots : x # s => open'[x] = open[x]
    BY Taken
  <1>2. /\ UNCHANGED <<ring, old, deleted, repeated>>
        /\ \/ strays' = strays \union {open[s].rows} /\ UNCHANGED lost
           \/ lost' = lost \union open[s].rows /\ UNCHANGED strays
    BY DEF NotFinalized, FinalizeFails, Leaves
  <1>3. faults' \in Nat /\ faults' > 0
    BY DEF NotFinalized, Stuck, NoFault, Fault, SinkInv, FileTypes
  <1>4. Room'
    <2>1. Len(ring') \in Nat /\ Len(ring') <= Len(ring) + 1
      BY <1>2 DEF SinkInv, FileTypes
    <2>2. MaxFiles > 0 /\ setup.onFull = "dropOldest" => Len(ring') <= MaxFiles
      BY <1>2 DEF SinkInv, Room
    <2> QED
      BY <2>1, <2>2, RoomAfter
  <1>5. \A r : Placed(r) => Placed(r)'
    <2>1. Contents \subseteq Contents' \union open[s].rows
      BY <1>1, <1>2 DEF Contents, Slots
    <2>2. ASSUME strays' = strays \union {open[s].rows}
          PROVE  \A r \in Kept : r \in Kept'
      <3>1. /\ \A r \in UNION strays : r \in UNION strays'
            /\ \A r \in open[s].rows : r \in UNION strays'
        BY <2>2
      <3>2. old' = old
        BY <1>2
      <3>3. ASSUME NEW r \in Kept PROVE r \in Contents' \union (UNION old') \union (UNION strays')
        <4>1. r \in Contents \/ r \in UNION old \/ r \in UNION strays
          BY <3>3 DEF Kept
        <4> QED
          BY <2>1, <3>1, <3>2, <4>1
      <3> QED
        BY <3>3 DEF Kept
    <2>3. ASSUME lost' = lost \union open[s].rows, UNCHANGED strays
          PROVE  \A r \in Kept : r \in Kept' \/ r \in lost'
      BY <1>2, <2>1, <2>3 DEF Kept
    <2>4. \A r \in Kept : r \in Kept' \/ r \in lost'
      BY <1>2, <2>2, <2>3
    <2> QED
      BY <1>2, <1>3, <2>4, PlacedStays DEF Excused
  <1> QED
    BY <1>2, <1>3, <1>4, <1>5

(* A file is rolled. *)
LEMMA RollInv ==
  ASSUME SinkInv, NEW s \in Slots, NEW at \in {"roll_main", "roll_unmapped", "size_main",
                                               "size_unmapped"},
         NEW when \in BOOLEAN, RollStep(s, at, when), when => open[s] # NoFile
  PROVE  SinkInv'
  <1>1. /\ pc = at /\ UNCHANGED <<setup, cursor, saved, restarts, killed>>
        /\ pc \in DOMAIN Then /\ pc \notin {"write_main", "write_unmapped"}
        /\ cursor < Len(Kind)
    BY DEF RollStep, SinkInv, FileTypes, Then
  <1>2. CASE ~when /\ SendGoesOn /\ UNCHANGED <<sink, faults>>
    <2>1. Contents' = Contents /\ Kept' = Kept /\ Excused' = Excused /\ UNCHANGED gave_up
      BY <1>1, <1>2 DEF sink, Contents, Kept, Excused, SendGoesOn
    <2>2. FileTypes' /\ Dropped' /\ Room'
      BY <1>1, <1>2, GoesOn
      DEF SinkInv, FileTypes, Dropped, Room, Opened, sink, SendGoesOn, Broken, Then
    <2>3. \A r : Placed(r) => Placed(r)'
      <3>1. UNCHANGED <<deleted, lost>>
        BY <1>2 DEF sink
      <3>2. /\ deleted \subseteq deleted' /\ gave_up \subseteq gave_up' /\ lost \subseteq lost'
            /\ Excused => Excused'
            /\ \A r \in Kept : r \in Kept' \/ r \in deleted' \/ (r \in lost' /\ Excused')
        BY <2>1, <3>1
      <3> QED
        BY <1>1, <3>2, PlacedStays
    <2>4. WrittenPlaced' /\ GivenUp'
      BY <1>1, <1>2, <2>3, PlacedAfter
    <2>5. Fresh'
      BY <1>1, <1>2, <2>1, GoesOn DEF SinkInv, Fresh, sink
    <2> QED
      BY <2>2, <2>4, <2>5 DEF SinkInv
  <1>3. CASE when /\ Take(s) /\ Finalized(s) /\ SendGoesOn
    <2>1. UNCHANGED <<attempt, gave_up>>
      BY <1>3 DEF SendGoesOn
    <2>2. /\ ring' \in Seq(SUBSET Nat) /\ Room' /\ UNCHANGED <<faults, repeated>>
          /\ Contents' \subseteq Contents
          /\ \A r : Placed(r) => Placed(r)'
      BY <1>1, <1>3, <2>1, FinalizedKeeps
    <2>3. FileTypes' /\ Dropped'
      BY <1>1, <1>3, <2>1, <2>2, Taken, GoesOn DEF SinkInv, FileTypes, Dropped, Then
    <2>4. WrittenPlaced' /\ GivenUp'
      BY <1>1, <1>3, <2>2, PlacedAfter
    <2>5. Fresh'
      BY <1>1, <1>3, <2>2, GoesOn DEF SinkInv, Fresh
    <2> QED
      BY <2>2, <2>3, <2>4, <2>5 DEF SinkInv
  <1>4. CASE when /\ Take(s) /\ NotFinalized(s) /\ SendFailed
    <2>1. /\ UNCHANGED <<ring, repeated>> /\ Room'
          /\ faults' \in Nat /\ faults' > 0
          /\ \A r : Placed(r) => Placed(r)'
      BY <1>1, <1>4, Fails, NotFinalizedKeeps
    <2>2. FileTypes' /\ Dropped'
      BY <1>1, <1>4, <2>1, Taken, Fails DEF SinkInv, FileTypes, Dropped, Then
    <2>3. WrittenPlaced' /\ GivenUp'
      BY <1>1, <1>4, <2>1, PlacedAfter
    <2>4. Fresh'
      BY <2>1 DEF Fresh
    <2> QED
      BY <2>1, <2>2, <2>3, <2>4 DEF SinkInv
  <1> QED
    BY <1>2, <1>3, <1>4 DEF RollStep

(* A clean stop drops the sink. *)
LEMMA DropInv ==
  ASSUME SinkInv, NEW s \in Slots, Drop(s)
  PROVE  SinkInv'
  <1>1. /\ pc \in {"drop_main", "drop_unmapped"} /\ pc' \in {"drop_unmapped", "closed"}
        /\ pc = "drop_main" => s = "main" /\ pc' = "drop_unmapped"
        /\ pc = "drop_unmapped" => s = "unmapped" /\ pc' = "closed"
        /\ UNCHANGED <<setup, cursor, saved, attempt, gave_up, restarts, killed>>
    BY DEF Drop, DropAt, AfterDrop, Slots
  <1>2. Written' = Written /\ Written = 1..cursor
    BY <1>1 DEF Written
  <1>3. CASE open[s] = NoFile /\ UNCHANGED <<sink, faults>>
    <2>1. \A r : Placed(r) => Placed(r)'
      BY <1>1, <1>3 DEF sink, Placed, Contents
    <2>2. FileTypes' /\ Dropped' /\ Room'
      BY <1>1, <1>3 DEF SinkInv, FileTypes, Dropped, Room, Opened, sink, Broken, Stopping, Then
    <2>3. WrittenPlaced' /\ GivenUp' /\ Fresh'
      BY <1>1, <1>2, <1>3, <2>1 DEF SinkInv, WrittenPlaced, GivenUp, Fresh, sink, Contents
    <2> QED
      BY <2>2, <2>3 DEF SinkInv
  <1>4. ASSUME open[s] # NoFile, Take(s), Finalized(s) \/ NotFinalized(s)
        PROVE  SinkInv'
    <2>1. /\ ring' \in Seq(SUBSET Nat) /\ Room' /\ faults' \in Nat /\ faults' >= faults
          /\ UNCHANGED repeated
          /\ \A r : Placed(r) => Placed(r)'
          /\ faults' = 0 => Contents' \subseteq Contents
      <3>1. CASE Finalized(s)
        BY <1>1, <1>4, <3>1, FinalizedKeeps DEF SinkInv, FileTypes
      <3>2. CASE NotFinalized(s)
        <4>1. faults' >= faults
          BY <3>2 DEF NotFinalized, NoFault, Fault, SinkInv, FileTypes
        <4> QED
          BY <1>1, <1>4, <3>2, <4>1, NotFinalizedKeeps DEF SinkInv, FileTypes
      <3> QED
        BY <1>4, <3>1, <3>2
    <2>2. FileTypes'
      BY <1>1, <1>4, <2>1, Taken DEF SinkInv, FileTypes, Stopping, Then
    <2>3. Dropped'
      BY <1>1, <1>4, Taken DEF SinkInv, Dropped, Slots
    <2>4. WrittenPlaced' /\ GivenUp'
      BY <1>1, <1>2, <2>1 DEF SinkInv, WrittenPlaced, GivenUp
    <2>5. Fresh'
      BY <1>1, <1>2, <2>1 DEF SinkInv, FileTypes, Fresh
    <2> QED
      BY <2>1, <2>2, <2>3, <2>4, <2>5 DEF SinkInv
  <1> QED
    BY <1>3, <1>4 DEF Drop

-----------------------------------------------------------------------------
(* Rows are written to a slot. *)
LEMMA RowsCounted ==
  ASSUME SinkInv, NEW s \in Slots
  PROVE  Rows(s) \subseteq Nat /\ Cardinality(Rows(s)) \in Nat
  <1>1. IsFiniteSet(Batch)
    <2>1. cursor + 1 \in Int /\ Last_ \in Int
      BY BatchRows DEF SinkInv, FileTypes
    <2> QED
      BY <2>1, FS_Interval DEF Batch
  <1>2. Rows(s) \subseteq Batch /\ Batch \subseteq Nat
    BY BatchRows DEF SinkInv, Slots
  <1> QED
    BY <1>1, <1>2, FS_Subset, FS_CardinalityType

(* What appending to a slot changes. *)
LEMMA AppendedIs ==
  ASSUME SinkInv, NEW s \in Slots, Appended(s, Rows(s)), UNCHANGED ring
  PROVE  /\ open' \in [Slots -> FileRecord]
         /\ open'[s].rows = open[s].rows \union Rows(s) /\ open'[s] # NoFile
         /\ open'[s].is = "open" /\ UNCHANGED lost
         /\ \A x \in Slots : x # s => open'[x] = open[x]
         /\ Contents' = Contents \union Rows(s)
         /\ repeated' = repeated \union (Rows(s) \intersect (open[s].rows \union Unions(ring)))
  <1>1. /\ open \in [Slots -> FileRecord]
        /\ Rows(s) \subseteq Nat /\ Cardinality(Rows(s)) \in Nat
    BY RowsCounted DEF SinkInv, FileTypes
  <1>2. open[s] \in FileRecord
    BY <1>1
  <1> DEFINE x == [is |-> "open", rows |-> open[s].rows \union Rows(s),
                   size |-> open[s].size + Cardinality(Rows(s))]
  <1>3. x \in FileRecord
    BY <1>1, <1>2 DEF FileRecord
  <1>4. x # NoFile /\ x.rows = open[s].rows \union Rows(s) /\ x.is = "open"
    BY DEF NoFile
  <1>5. open' = [open EXCEPT ![s] = x]
    BY DEF Appended
  <1> HIDE DEF x
  <1>6. /\ open' \in [Slots -> FileRecord]
        /\ open'[s].rows = open[s].rows \union Rows(s) /\ open'[s] # NoFile
        /\ open'[s].is = "open"
        /\ \A y \in Slots : y # s => open'[y] = open[y]
    BY <1>1, <1>3, <1>4, <1>5
  <1>7. Contents' = Contents \union Rows(s)
    <2>1. CASE s = "main"
      BY <1>6, <2>1 DEF Contents, Slots
    <2>2. CASE s = "unmapped"
      BY <1>6, <2>2 DEF Contents, Slots
    <2> QED
      BY <2>1, <2>2 DEF Slots
  <1> QED
    BY <1>6, <1>7 DEF Appended

(* There is room after a write that was not refused, as every slot but s   *)
(* is as it was.                                                           *)
LEMMA RoomToWrite ==
  ASSUME SinkInv, NEW s \in Slots, Rows(s) # {}, ~Refused(s), UNCHANGED <<setup, ring>>,
         \A x \in Slots : x # s => open'[x] = open[x],
         open[s] # NoFile => open'[s] # NoFile
  PROVE  Room'
  <1>1. setup.mode # "rows" => s = "main" /\ open'["unmapped"] = NoFile
    BY BatchRows DEF SinkInv, Room, Slots
  <1>2. /\ Len(ring) \in Nat /\ Opened("main")' \in 0..1 /\ Opened("unmapped")' \in 0..1
        /\ Opened("main") \in 0..1 /\ Opened("unmapped") \in 0..1
    BY DEF Opened, SinkInv, FileTypes
  <1>3. CASE open[s] # NoFile
    <2>1. Opened("main")' = Opened("main") /\ Opened("unmapped")' = Opened("unmapped")
      BY <1>3 DEF Opened, Slots
    <2> QED
      BY <1>1, <2>1 DEF SinkInv, Room
  <1>4. CASE open[s] = NoFile
    <2>1. setup.onFull = "stop" /\ MaxFiles > 0 => Len(ring) < MaxFiles
      BY <1>2, <1>4, Setting DEF Refused, SinkInv
    <2>2. setup.mode # "rows" => Opened("unmapped")' = 0
      BY <1>1 DEF Opened
    <2> QED
      BY <1>1, <1>2, <2>1, <2>2, Setting DEF SinkInv, Room
  <1> QED
    BY <1>3, <1>4

(* A write keeps the invariant if what it had is kept, or lost by a fault. *)
LEMMA WriteDone ==
  ASSUME SinkInv, NEW s \in Slots, pc = WriteAt[s],
         UNCHANGED <<setup, cursor, saved, due, ring, old, strays, deleted, killed>>,
         open' \in [Slots -> FileRecord],
         \A x \in Slots : x # s => open'[x] = open[x],
         open[s] # NoFile => open'[s] # NoFile, Room',
         faults' \in Nat, faults' >= faults, Broken(s)' => faults' > 0,
         lost \subseteq lost', Contents \subseteq Contents' \union lost',
         faults' = 0 => Contents \subseteq Contents',
         \/ /\ SendGoesOn
            /\ \A r \in Rows(s) : r \in Contents' \/ (r \in lost' /\ faults' > 0)
         \/ SendFailed,
         Fresh'
  PROVE  SinkInv'
  <1>1. /\ pc \in {"write_main", "write_unmapped"} /\ pc \in DOMAIN Then
        /\ pc = "write_main" => s = "main"
        /\ pc = "write_unmapped" => s = "unmapped"
    BY DEF WriteAt, Slots, Then
  <1>2. /\ attempt' \in 0..MaxRetries /\ gave_up \subseteq gave_up'
        /\ pc' \in DOMAIN Then \union {"commit"} /\ cursor < Len(Kind)
    <2>1. CASE SendGoesOn
      BY <1>1, <2>1, GoesOn, Setting DEF SinkInv, FileTypes, SendGoesOn
    <2>2. CASE SendFailed
      BY <1>1, <2>2, Fails, Setting DEF SinkInv, FileTypes, Then
    <2> QED
      BY <2>1, <2>2
  <1>3. \A x \in Slots : Broken(x)' => faults' > 0
    BY DEF SinkInv, FileTypes, Broken
  <1>4. FileTypes'
    BY <1>1, <1>2, <1>3 DEF SinkInv, FileTypes
  <1>5. Dropped'
    BY <1>2 DEF Dropped, Then
  <1>6. \A r : Placed(r) => Placed(r)'
    <2>1. Excused => Excused'
      BY DEF Excused, SinkInv, FileTypes
    <2>2. \A r \in Kept : r \in Kept' \/ r \in deleted' \/ (r \in lost' /\ Excused')
      BY DEF Kept, Excused
    <2> QED
      BY <1>2, <2>1, <2>2, PlacedStays
  <1>7. SendFailed \/ \A r \in Rows(s) : Placed(r)'
    BY DEF Placed
  <1>8. WrittenPlaced' /\ GivenUp'
    BY <1>1, <1>6, <1>7, PlacedAfter
  <1> QED
    BY <1>4, <1>5, <1>8 DEF SinkInv

(* A write goes on, is refused, or fails in one of its ways.               *)
LEMMA WriteInv ==
  ASSUME SinkInv, NEW s \in Slots, Write(s)
  PROVE  SinkInv'
  <1>1. /\ pc = WriteAt[s] /\ pc \in {"write_main", "write_unmapped"} /\ pc \in DOMAIN Then
        /\ UNCHANGED <<setup, cursor, saved, due, ring, old, strays, deleted, killed>>
        /\ pc = "write_main" => s = "main"
        /\ pc = "write_unmapped" => s = "unmapped"
    BY DEF Write, WriteAt, Slots, Then
  <1>2. /\ open \in [Slots -> FileRecord] /\ open[s] \in FileRecord /\ faults \in Nat
        /\ Broken(s) => faults > 0
        /\ Rows(s) \subseteq Nat /\ Cardinality(Rows(s)) \in Nat
    BY RowsCounted DEF SinkInv, FileTypes
  <1>3. CASE /\ Rows(s) = {} /\ SendGoesOn /\ NoFault /\ UNCHANGED <<open, lost, repeated>>
    <2>1. /\ Contents' = Contents /\ faults' = faults /\ Broken(s)' = Broken(s) /\ Room'
      BY <1>1, <1>3 DEF Contents, NoFault, Broken, SinkInv, Room, Opened
    <2>2. Fresh'
      BY <1>1, <1>3, <2>1, GoesOn DEF SinkInv, Fresh
    <2> QED
      BY <1>1, <1>2, <1>3, <2>1, <2>2, WriteDone
  <1>4. CASE /\ Rows(s) # {} /\ (Refused(s) \/ Stuck(s)) /\ SendFailed /\ NoFault
             /\ UNCHANGED <<open, lost, repeated>>
    <2>1. /\ Contents' = Contents /\ faults' = faults /\ Broken(s)' = Broken(s) /\ Room'
      BY <1>1, <1>4 DEF Contents, NoFault, Broken, SinkInv, Room, Opened
    <2>2. Fresh'
      <3>1. CASE Stuck(s)
        BY <1>2, <2>1, <3>1 DEF Stuck, Fresh
      <3>2. CASE Refused(s)
        <4>1. setup.onFull = "stop" /\ (setup.mode # "rows" => s = "main")
          BY <1>4, <3>2, BatchRows DEF Refused, SinkInv, Slots
        <4>2. setup.mode # "rows" => Written = 1..cursor
          BY <1>1, <4>1 DEF Written
        <4> QED
          BY <1>1, <1>4, <2>1, <4>1, <4>2, Fails DEF SinkInv, Fresh
      <3> QED
        BY <1>4, <3>1, <3>2
    <2> QED
      BY <1>1, <1>2, <1>4, <2>1, <2>2, WriteDone
  <1>5. CASE /\ Rows(s) # {} /\ ~Refused(s) /\ Appended(s, Rows(s))
             /\ ((SendGoesOn /\ NoFault) \/ (SendFailed /\ Fault))
    <2>1. /\ open' \in [Slots -> FileRecord]
          /\ open'[s].rows = open[s].rows \union Rows(s) /\ open'[s] # NoFile
          /\ open'[s].is = "open" /\ UNCHANGED lost
          /\ \A x \in Slots : x # s => open'[x] = open[x]
          /\ Contents' = Contents \union Rows(s)
          /\ repeated' = repeated \union (Rows(s) \intersect (open[s].rows \union Unions(ring)))
      BY <1>1, <1>5, AppendedIs
    <2>2. faults' \in Nat /\ faults' >= faults /\ (SendFailed /\ Fault => faults' > 0)
      BY <1>2, <1>5 DEF NoFault, Fault
    <2>3. ~Broken(s)' /\ Room'
      BY <1>1, <1>5, <2>1, RoomToWrite DEF Broken
    <2>4. Fresh'
      <3>1. CASE SendFailed /\ Fault
        BY <2>2, <3>1 DEF Fresh
      <3>2. CASE SendGoesOn /\ NoFault
        <4>1. Written \intersect Rows(s) = {} /\ Written' = Written \union Rows(s)
          BY <1>1, <3>2, BatchRows, GoesOn DEF Written, SinkInv, FileTypes, Batch
        <4>2. open[s].rows \union Unions(ring) \subseteq Contents
          BY DEF Contents, Slots
        <4> QED
          BY <1>1, <2>1, <3>2, <4>1, <4>2 DEF NoFault, SinkInv, Fresh
      <3> QED
        BY <1>5, <3>1, <3>2
    <2> QED
      BY <1>1, <1>5, <2>1, <2>2, <2>3, <2>4, WriteDone
  <1>6. CASE /\ Rows(s) # {} /\ ~Refused(s) /\ Broken(s) /\ AppendedTorn(s, Rows(s))
             /\ SendGoesOn /\ NoFault
    <2> DEFINE file == [open[s] EXCEPT !.size = @ + Cardinality(Rows(s))]
    <2>1. /\ file \in FileRecord /\ file.rows = open[s].rows /\ file.is = open[s].is
          /\ file # NoFile
      BY <1>2, <1>6 DEF FileRecord, NoFile, Broken
    <2>2. open' = [open EXCEPT ![s] = file] /\ lost' = lost \union Rows(s)
      BY <1>6 DEF AppendedTorn
    <2>3. /\ open' \in [Slots -> FileRecord] /\ open'[s] # NoFile
          /\ open'[s].rows = open[s].rows
          /\ \A x \in Slots : x # s => open'[x] = open[x]
      <3> HIDE DEF file
      <3> QED
        BY <1>2, <2>1, <2>2
    <2>4. Contents' = Contents
      BY <1>1, <2>3 DEF Contents, Slots
    <2>5. faults' \in Nat /\ faults' = faults /\ faults' > 0
      BY <1>2, <1>6 DEF NoFault
    <2>6. Room'
      BY <1>1, <1>6, <2>3, RoomToWrite
    <2>7. Fresh'
      BY <2>5 DEF Fresh
    <2> HIDE DEF file
    <2> QED
      BY <1>1, <1>6, <2>2, <2>3, <2>4, <2>5, <2>6, <2>7, WriteDone
  <1>7. CASE Rows(s) # {} /\ ~Refused(s) /\ UNCHANGED <<open, lost>> /\ SendFailed /\ Fault
    <2>1. /\ Contents' = Contents /\ faults' \in Nat /\ faults' >= faults /\ faults' > 0
      BY <1>1, <1>2, <1>7 DEF Contents, Fault
    <2>2. Room' /\ Fresh'
      BY <1>1, <1>7, <2>1, RoomToWrite DEF Fresh
    <2> QED
      BY <1>1, <1>2, <1>7, <2>1, <2>2, WriteDone
  <1>8. CASE /\ Rows(s) # {} /\ ~Refused(s) /\ SendFailed /\ Fault
             /\ open[s] = NoFile /\ open' = [open EXCEPT ![s].is = "open"] /\ UNCHANGED lost
    <2> DEFINE file == [NoFile EXCEPT !.is = "open"]
    <2>1. file \in FileRecord /\ file.rows = NoFile.rows /\ file # NoFile
      BY DEF FileRecord, NoFile
    <2>2. /\ open' \in [Slots -> FileRecord] /\ open'[s] # NoFile
          /\ open'[s].rows = open[s].rows
          /\ \A x \in Slots : x # s => open'[x] = open[x]
      <3>1. open' = [open EXCEPT ![s] = file]
        BY <1>8
      <3> HIDE DEF file
      <3> QED
        BY <1>2, <1>8, <2>1, <3>1
    <2>3. Contents' = Contents
      BY <1>1, <2>2 DEF Contents, Slots
    <2>4. faults' \in Nat /\ faults' >= faults /\ faults' > 0
      BY <1>2, <1>8 DEF Fault
    <2>5. Room' /\ Fresh'
      BY <1>1, <1>8, <2>2, <2>4, RoomToWrite DEF Fresh
    <2> HIDE DEF file
    <2> QED
      BY <1>1, <1>8, <2>2, <2>3, <2>4, <2>5, WriteDone
  <1>9. CASE Rows(s) # {} /\ ~Refused(s) /\ Breaks(s) /\ SendFailed /\ Fault
    <2> DEFINE file == [open[s] EXCEPT !.is = "broken",
                            !.rows = IF setup.format = "parquet" THEN {} ELSE @]
    <2>1. /\ file \in FileRecord /\ file # NoFile
          /\ file.rows = (IF setup.format = "parquet" THEN {} ELSE open[s].rows)
      BY <1>2 DEF FileRecord, NoFile
    <2>2. /\ open' = [open EXCEPT ![s] = file]
          /\ lost' = (IF setup.format = "parquet" THEN lost \union open[s].rows ELSE lost)
      <3>1. CASE setup.format = "parquet"
        BY <1>2, <1>9, <3>1 DEF Breaks, FileRecord
      <3>2. CASE setup.format # "parquet"
        BY <1>2, <1>9, <3>2 DEF Breaks, FileRecord
      <3> QED
        BY <3>1, <3>2
    <2>3. /\ open' \in [Slots -> FileRecord] /\ open'[s] # NoFile
          /\ open[s].rows \subseteq open'[s].rows \union lost'
          /\ \A x \in Slots : x # s => open'[x] = open[x]
          /\ lost \subseteq lost'
      <3> HIDE DEF file
      <3> QED
        BY <1>2, <2>1, <2>2
    <2>4. Contents \subseteq Contents' \union lost'
      BY <1>1, <2>3 DEF Contents, Slots
    <2>5. faults' \in Nat /\ faults' >= faults /\ faults' > 0
      BY <1>2, <1>9 DEF Fault
    <2>6. Room' /\ Fresh'
      BY <1>1, <1>9, <2>3, <2>5, RoomToWrite DEF Fresh
    <2> HIDE DEF file
    <2> QED
      BY <1>1, <1>9, <2>3, <2>4, <2>5, <2>6, WriteDone
  <1> QED
    BY <1>3, <1>4, <1>5, <1>6, <1>7, <1>8, <1>9 DEF Write, WriteFails

-----------------------------------------------------------------------------
(* The engine between two sends, and time. *)
LEMMA EngineInv ==
  ASSUME SinkInv, Send \/ Commit \/ Checkpoint \/ Stop \/ (\E s \in Slots : Age(s))
  PROVE  SinkInv'
  <1>1. CASE Send
    <2>1. /\ Contents' = Contents /\ Written' = Written /\ pc' = "roll_main"
      BY <1>1 DEF Send, sink, Contents, Written, Rows, Batch, Last_
    <2>2. \A r : Placed(r)' = Placed(r)
      BY <1>1, <2>1 DEF Send, sink, Placed
    <2>3. FileTypes' /\ Dropped' /\ Room'
      <3>1. attempt' \in 0..MaxRetries /\ pc' \in DOMAIN Then
        BY <1>1, Setting DEF Send, Then, SinkInv
      <3> QED
        BY <1>1, <3>1 DEF Send, sink, SinkInv, FileTypes, Dropped, Room, Opened, Broken
    <2>4. WrittenPlaced' /\ GivenUp' /\ Fresh'
      BY <1>1, <2>1, <2>2 DEF Send, sink, SinkInv, WrittenPlaced, GivenUp, Fresh
    <2> QED
      BY <2>3, <2>4 DEF SinkInv
  <1>2. CASE Commit
    <2>1. /\ cursor' = Last_ /\ pc' = "poll" /\ Contents' = Contents
          /\ UNCHANGED <<setup, saved, attempt, sink, gave_up, faults, killed>>
      BY <1>2, BatchRows DEF Commit, CommitTo, sink, Contents, SinkInv, FileTypes
    <2>2. FileTypes' /\ Dropped' /\ Room'
      <3>1. Last_ \in 0..Len(Kind) /\ Last_ >= cursor /\ Len(Kind) \in Nat
        BY BatchRows, Setting DEF SinkInv
      <3>2. saved' \in 0..cursor' /\ cursor' \in 0..Len(Kind)
        BY <2>1, <3>1 DEF SinkInv, FileTypes
      <3>3. FileTypes'
        BY <2>1, <3>2 DEF sink, SinkInv, FileTypes, Broken, Then
      <3> QED
        BY <2>1, <3>3 DEF sink, SinkInv, Dropped, Room, Opened
    <2>3. \A r : Placed(r)' = Placed(r)
      BY <2>1 DEF sink, Placed
    <2>4. Written' = (1..cursor) \union Batch /\ Written \subseteq Written'
      BY <1>2, <2>1, BatchRows DEF Written, SinkInv, FileTypes, Batch, Commit
    <2>5. WrittenPlaced' /\ GivenUp'
      BY <1>2, <2>1, <2>3, <2>4 DEF SinkInv, WrittenPlaced, GivenUp, Written, Commit
    <2>6. Fresh'
      BY <2>1, <2>4 DEF sink, SinkInv, Fresh
    <2> QED
      BY <2>2, <2>5, <2>6 DEF SinkInv
  <1>3. CASE Checkpoint
    <2>1. /\ Contents' = Contents /\ Written' = Written /\ UNCHANGED Batch
      BY <1>3 DEF Checkpoint, sink, Contents, Written, Rows, Batch, Last_
    <2>2. \A r : Placed(r)' = Placed(r)
      BY <1>3, <2>1 DEF Checkpoint, sink, Placed
    <2>3. FileTypes' /\ Dropped' /\ Room'
      <3>1. saved' \in 0..cursor'
        BY <1>3, Setting DEF Checkpoint, SinkInv, FileTypes
      <3> QED
        BY <1>3, <3>1 DEF Checkpoint, sink, SinkInv, FileTypes, Dropped, Room, Opened, Broken
    <2>4. WrittenPlaced' /\ GivenUp' /\ Fresh'
      BY <1>3, <2>1, <2>2 DEF Checkpoint, sink, SinkInv, WrittenPlaced, GivenUp, Fresh
    <2> QED
      BY <2>3, <2>4 DEF SinkInv
  <1>4. ASSUME NEW s \in Slots, Age(s) PROVE SinkInv'
    <2>1. /\ Contents' = Contents /\ Written' = Written /\ UNCHANGED Batch
      BY <1>4 DEF Age, progress, Contents, Written, Rows, Batch, Last_
    <2>2. \A r : Placed(r)' = Placed(r)
      BY <1>4, <2>1 DEF Age, progress, Placed
    <2>3. FileTypes' /\ Dropped' /\ Room'
      BY <1>4 DEF Age, progress, SinkInv, FileTypes, Dropped, Room, Opened, Broken
    <2>4. WrittenPlaced' /\ GivenUp' /\ Fresh'
      BY <1>4, <2>1, <2>2 DEF Age, progress, SinkInv, WrittenPlaced, GivenUp, Fresh
    <2> QED
      BY <2>3, <2>4 DEF SinkInv
  <1>5. CASE Stop
    <2>1. /\ Contents' = Contents /\ Written' = Written /\ pc' = "drop_main"
      BY <1>5 DEF Stop, sink, Contents, Written, Rows, Batch, Last_
    <2>2. \A r : Placed(r)' = Placed(r)
      BY <1>5, <2>1 DEF Stop, sink, Placed
    <2>3. FileTypes' /\ Dropped' /\ Room'
      BY <1>5 DEF Stop, sink, SinkInv, FileTypes, Dropped, Room, Opened, Broken, Stopping, Then
    <2>4. WrittenPlaced' /\ GivenUp' /\ Fresh'
      BY <1>5, <2>1, <2>2 DEF Stop, sink, SinkInv, WrittenPlaced, GivenUp, Fresh
    <2> QED
      BY <2>3, <2>4 DEF SinkInv
  <1> QED
    BY <1>1, <1>2, <1>3, <1>4, <1>5

(* The process is killed, or ends a clean stop. *)
LEMMA RestartInv ==
  ASSUME SinkInv, Kill \/ Close
  PROVE  SinkInv'
  <1> DEFINE left == {open[s].rows : s \in {x \in Slots : open[x] # NoFile}}
  <1>1. /\ pc' = "poll" /\ attempt' = 0 /\ due' = {} /\ ring' = <<>>
        /\ open' = [s \in Slots |-> NoFile]
        /\ UNCHANGED <<setup, deleted, repeated, gave_up, faults>>
        /\ cursor' \in {cursor, saved} /\ saved' \in 0..cursor'
        /\ old' = old \union ToSet(ring)
        /\ \/ setup.format = "avro" /\ strays' = strays \union left /\ UNCHANGED lost
           \/ /\ setup.format = "parquet"
              /\ lost' = lost \union UNION left /\ UNCHANGED strays
    BY Setting DEF Kill, Close, Restart, SinkInv, FileTypes
  <1>2. /\ open' \in [Slots -> FileRecord]
        /\ open'["main"] = NoFile /\ open'["unmapped"] = NoFile
        /\ \A s \in Slots : ~Broken(s)'
    BY <1>1 DEF Slots, NoFile, FileRecord, Broken
  <1>3. ring' \in Seq(SUBSET Nat) /\ Len(ring') = 0 /\ Contents' = {}
    BY <1>1, <1>2 DEF Contents, Unions, NoFile
  <1>4. FileTypes' /\ Dropped'
    BY <1>1, <1>2, <1>3, Setting DEF SinkInv, FileTypes, Dropped, Stopping, Then
  <1>5. Room'
    BY <1>1, <1>2, <1>3, Setting DEF SinkInv, Room, Opened
  <1>6. left # {} => killed' = TRUE
    <2>1. CASE Kill
      BY <2>1 DEF Kill
    <2>2. CASE Close
      BY <2>2 DEF Close, SinkInv, Dropped, Slots
    <2> QED
      BY <2>1, <2>2
  <1>7. \A r : Placed(r) => Placed(r)'
    <2>1. UNION ToSet(ring) = Unions(ring)
      BY DEF ToSet, Unions
    <2>2. \A r \in Contents : r \in Unions(ring) \/ r \in UNION left
      BY DEF Contents, Slots, NoFile
    <2>3. \A r \in Unions(ring) \union (UNION old) : r \in UNION old'
      BY <1>1, <2>1
    <2> HIDE DEF left
    <2>4. \A r \in UNION left : left # {}
      OBVIOUS
    <2>5. \A r \in (UNION left) \union (UNION strays) :
              r \in UNION strays' \/ (r \in lost' /\ setup'.format = "parquet" /\ left # {})
      BY <1>1, <2>4
    <2>6. \A r \in Kept : r \in Kept' \/ (r \in lost' /\ Excused')
      BY <1>6, <2>2, <2>3, <2>5 DEF Kept, Excused
    <2>7. killed => killed'
      BY DEF Kill, Close
    <2>8. Excused => Excused'
      BY <1>1, <2>7 DEF Excused
    <2>9. lost \subseteq lost'
      BY <1>1
    <2> QED
      BY <1>1, <2>6, <2>8, <2>9, PlacedStays
  <1>8. WrittenPlaced' /\ GivenUp'
    <2>1. Written' \subseteq Written
      BY <1>1 DEF Written, SinkInv, FileTypes
    <2> QED
      BY <1>1, <1>7, <2>1 DEF SinkInv, WrittenPlaced, GivenUp
  <1>9. Fresh'
    BY <1>1, <1>3 DEF SinkInv, Fresh
  <1> QED
    BY <1>4, <1>5, <1>8, <1>9 DEF SinkInv

-----------------------------------------------------------------------------
(* Every step of the specification keeps the invariant. *)
LEMMA InitInv == Init => SinkInv
  <1> SUFFICES ASSUME Init PROVE SinkInv
    OBVIOUS
  <1>1. /\ open \in [Slots -> FileRecord]
        /\ open["main"] = NoFile /\ open["unmapped"] = NoFile
        /\ \A s \in Slots : ~Broken(s)
    BY DEF Init, Slots, NoFile, FileRecord, Broken
  <1>2. ring \in Seq(SUBSET Nat) /\ Len(ring) = 0 /\ Contents = {}
    BY <1>1 DEF Init, Contents, Unions, NoFile
  <1>3. FileTypes /\ Dropped
    BY <1>1, <1>2, FileSinkAssumption DEF Init, FileTypes, Dropped, Then
  <1>4. Room
    BY <1>1, <1>2, <1>3, Setting DEF Room, Opened
  <1>5. Written = {}
    BY DEF Init, Written
  <1> QED
    BY <1>2, <1>3, <1>4, <1>5 DEF Init, SinkInv, WrittenPlaced, GivenUp, Fresh

LEMMA NextInv == SinkInv /\ [Next]_vars => SinkInv'
  <1> SUFFICES ASSUME SinkInv, [Next]_vars PROVE SinkInv'
    OBVIOUS
  <1>1. ASSUME NEW s \in Slots, TimeRoll(s) PROVE SinkInv'
    <2>1. /\ RollStep(s, RollAt[s], s \in due) /\ (s \in due) \in BOOLEAN
          /\ RollAt[s] \in {"roll_main", "roll_unmapped", "size_main", "size_unmapped"}
          /\ s \in due => open[s] # NoFile
      BY <1>1 DEF TimeRoll, RollAt, Slots, SinkInv, FileTypes
    <2> QED
      BY <2>1, RollInv, Zenon
  <1>2. ASSUME NEW s \in Slots, SizeRoll(s) PROVE SinkInv'
    <2> DEFINE full == Rows(s) # {} /\ open[s].size >= FileRecords
    <2>1. full => open[s] # NoFile
      BY FileSinkAssumption DEF NoFile
    <2>2. /\ RollStep(s, SizeAt[s], full) /\ full \in BOOLEAN
          /\ SizeAt[s] \in {"roll_main", "roll_unmapped", "size_main", "size_unmapped"}
      BY <1>2 DEF SizeRoll, SizeAt, Slots
    <2> QED
      BY <2>1, <2>2, RollInv, Zenon
  <1>3. CASE UNCHANGED vars
    <2>1. /\ Contents' = Contents /\ Written' = Written /\ UNCHANGED Batch
      BY <1>3 DEF vars, progress, sink, Contents, Written, Rows, Batch, Last_
    <2>2. \A r : Placed(r)' = Placed(r)
      BY <1>3, <2>1 DEF vars, sink, Placed
    <2>3. FileTypes' /\ Dropped' /\ Room'
      BY <1>3 DEF vars, progress, sink, SinkInv, FileTypes, Dropped, Room, Opened, Broken
    <2>4. WrittenPlaced' /\ GivenUp' /\ Fresh'
      BY <1>3, <2>1, <2>2 DEF vars, progress, sink, SinkInv, WrittenPlaced, GivenUp, Fresh
    <2> QED
      BY <2>3, <2>4 DEF SinkInv
  <1> QED
    BY <1>1, <1>2, <1>3, WriteInv, EngineInv, RestartInv, DropInv DEF Next

LEMMA AlwaysInv == Spec => []SinkInv
  BY InitInv, NextInv, PTL DEF Spec

-----------------------------------------------------------------------------
(* The types hold, and the ring keeps its bound: max_files, and one more   *)
(* with "stop" and two slots.                                              *)
THEOREM TypeCorrect == Spec => []TypeOK
  <1>1. SinkInv => TypeOK
    <2> SUFFICES ASSUME SinkInv PROVE TypeOK
      OBVIOUS
    <2>1. /\ Len(ring) \in Nat /\ Opened("main") \in Nat /\ Opened("unmapped") \in Nat
      BY DEF SinkInv, FileTypes, Opened
    <2>2. RingBounded
      BY <2>1, Setting DEF SinkInv, Room, RingBounded
    <2> QED
      BY <2>2 DEF SinkInv, FileTypes, TypeOK, Stopping
  <1> QED
    BY <1>1, AlwaysInv, PTL

(* A committed record is in a file, unless there is a reason: it has no    *)
(* row, the ring deleted it, the engine gave it up, a file operation       *)
(* failed, or a kill cost an open Parquet file.                            *)
THEOREM AckedInFilesCorrect == Spec => []AckedInFiles
  <1>1. SinkInv => AckedInFiles
    <2> SUFFICES ASSUME SinkInv PROVE AckedInFiles
      OBVIOUS
    <2>1. UNION Files = Contents \union (UNION old) \union (UNION strays)
      <3>1. ToSet(ring) = {ring[i] : i \in DOMAIN ring} /\ UNION ToSet(ring) = Unions(ring)
        BY DEF ToSet, Unions
      <3>2. UNION {open[s].rows : s \in Slots} = open["main"].rows \union open["unmapped"].rows
        BY DEF Slots
      <3> QED
        BY <3>1, <3>2 DEF Files, Contents
    <2>2. \A r \in 1..cursor : Placed(r)
      BY DEF SinkInv, WrittenPlaced, Written
    <2> QED
      BY <2>1, <2>2 DEF Placed, AckedInFiles
  <1> QED
    BY <1>1, AlwaysInv, PTL

(* A record is appended twice in one life of the process only after a      *)
(* failure, or with "stop" when the ring refused a batch's second file.    *)
THEOREM RepeatsExplainedCorrect == Spec => []RepeatsExplained
  <1>1. SinkInv => RepeatsExplained
    BY DEF SinkInv, FileTypes, Fresh, RepeatsExplained
  <1> QED
    BY <1>1, AlwaysInv, PTL
=============================================================================
