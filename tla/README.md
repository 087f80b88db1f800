# TLA+ models of edgecommons

This directory specifies and checks the parts of edgecommons that are hard to
test: steps of several threads, processes or connections in an order nobody
wrote a test for, crashes between two steps, retries, timeouts that race late
answers, bounds. It covers **edgestreamlog** (`libs/rust-streamlog`), the
durable store-and-forward log on which every language binding streams
telemetry, with its rolling file sink; and, of the **Rust library**
(`libs/rust`), the MQTT connection with request/reply, the command inbox with
deferred replies, hot reload of the configuration, and the credential vault.
Paths below are relative to the root of the repository.

Contents: [inventory](#inventory) · [modules](#modules) ·
[state, actions and code](#state-actions-and-code) ·
[how the models abstract](#how-the-models-abstract) · [runs](#runs) ·
[what the code does not keep](#what-the-code-does-not-keep) ·
[fairness](#fairness) · [proofs](#proofs) · [plan](#plan) ·
[not modelled](#not-modelled)

## Inventory

edgecommons is a component framework for edge devices, written four times
(`libs/java`, `libs/python`, `libs/rust`, `libs/ts`) over one native core
(`libs/rust-streamlog`), with a command line (`cli`), schemas, templates and
examples. The four libraries mirror each other; the Rust one is read here.

### edgestreamlog: ingest (`src/log.rs`)

- *State*: under the ingest lock a bounded queue of pending records, the next
  submission sequence, the highest resolved sequence, a map of errors by
  sequence, and a flag that says that some producer is writing; two condition
  variables, `space` and `done`.
- *Operations*: `append`, `append_batch`, `flush`. A producer enqueues its
  records; the first one that finds no leader takes the whole queue as a group,
  writes it under the *inner* lock, fsyncs once if any member asks for it, and
  resolves the group. The others wait.
- *Hard*: the write happens outside the ingest lock; notifications happen
  outside both; a batch gives the lock away in the middle; refusals and fsyncs
  of a group belong to several callers.
- *Correct when*: one leader at a time; records reach the store in the order of
  submission; a caller is released only after its records were decided, with
  its own outcome and nobody else's; Ok means durable as far as the policy
  says; nobody sleeps for ever.

### edgestreamlog: stores and checkpoint (`src/blockstore/`)

- *State*: on disk, segment files named by their first offset, the last one
  active behind a `BufWriter`; per file an index, built lazily; the checkpoint
  file with the delivery cursor. In memory, a queue of frames.
- *Operations*: append with rolling, flush to the operating system, fsync,
  reclaim below an offset, plan and read, recovery on open; load and store of
  the checkpoint.
- *Hard*: three notions of "written" (buffer, operating system, disk) times
  several files; readers work off the lock on files that may be deleted; torn
  tails; files and checkpoint that survive a power loss to different degrees.
- *Correct when*: recovery yields a contiguous log that contains everything
  promised to be on disk, and the cursor neither skips a record nor lies beyond
  the end.

### edgestreamlog: retention, cursor, maintenance, restart (`src/log.rs`)

- *State*: under the inner lock the store, the cursor `acked`, the counter of
  dropped records; the checkpoint lock; a maintenance thread.
- *Operations*: `ensure_room` under `dropOldest`, `block` and `rejectNew`;
  `read_batch`; `commit`; `flush`; the maintenance tick; `open` and `Drop`.
- *Hard*: `dropOldest` moves the cursor under a reader; `block` waits for an
  exporter that can only free whole files; checkpoints are snapshot and stored
  under different locks; crashes anywhere.
- *Correct when*: a record whose append returned Ok is delivered, dropped by
  policy or given up, or still due; the checkpoint does not go back; the disk
  budget holds; a blocked leader goes on.

### edgestreamlog: export engine and sinks (`src/export/`)

- *State*: the batch in flight, its pending records, the attempt; for the file
  sink two slots with an open file each, and a ring of finalized files.
- *Operations*: poll, read, send, interpret `AllAcked`, `Partial`, `Failed`;
  commit; stop. Sinks: file (Parquet, Avro), Kinesis, Kafka, host callback.
- *Hard*: retries of a part of a batch, giving up, shutdown in the middle;
  a batch that spans two files and fails between them, rotation by age and by
  size, a ring that two slots share, crashes between a write and the checkpoint.
- *Correct when*: at least once, in order, no duplicate without a restart or a
  failure; what was committed is in a file that can be read, or was deleted by
  policy; the ring is bounded.

### The Rust library (`libs/rust/src`)

| part | state | operations | hard | correct when |
|---|---|---|---|---|
| MQTT connection, request/reply (`messaging/provider/mqtt.rs`, `messaging/service.rs`) | routing entries, a FIFO of SUBACK waiters, a bounded tracker of publishes, a bounded request channel | subscribe, publish, confirmed publish, request with reply, deadline and cancel; the event loop | reconnects with everything in flight; acknowledgements matched by order; the loop waits on a channel that only it empties | confirmed means stored; subscriptions survive; requests leave nothing behind |
| command inbox (`commands.rs`) | a generation, its state, filters, an activation gate and its drain task | start, stop, receive, drain, dispatch | starts and stops cross each other and an old drain task | subscriptions follow the state; order holds through the gate |
| deferred replies (`commands/deferred.rs`) | a registry of entries PROVISIONAL, OPEN, SETTLING, SETTLED, DISCARDED, EXPIRED, CANCELLED | defer, settle, discard, expire, continue, shut down | all compete by compare-and-set; late confirmations; capacity | one answer per request; the registry empties; nothing is admitted behind a shutdown |
| hot reload (`config/source/configmap.rs`, `config/candidate.rs`, `lib.rs`) | the mount, the baseline of the watcher, a queue of documents, the apply lock, permits of validators, the live snapshot | watch, emit, reload command, validate, prepare, commit, roll back, store, notify | two paths to one lock; application code that hangs or fails half way; watches that are lost | runtime, snapshot and listeners agree on the last good document |
| credentials (`credentials/vault.rs`, `service.rs`, `sync.rs`) | the encrypted vault file and its copy in every process; the central store | open, put, get, delete, save, reload, sync passes | several processes and threads save; fetches outside the lock; failed saves | acknowledged versions survive; versions name one value; a rotated secret arrives |
| durable metrics (`metrics/target/cloudwatch_durable.rs`) | a stream of edgestreamlog and a sink of its own | emit, send | partial and final errors per namespace | as the export engine |
| heartbeat, health, logs, UNS, facades | timers, names, a bounded queue of log lines | - | little | - |

`cli` generates and deploys files in one run; `schema`, `templates`,
`examples`, `test-infra` and `website` are data and documents.

### How these interact

Producers call `append`, become leaders and take the inner lock; the export
thread takes it to plan and to commit, and wakes a blocked leader; the
maintenance thread takes it to fsync, reclaim and snapshot the cursor, and then
the checkpoint lock to store it; `flush` takes all three in turn. The service
(`src/service.rs`) opens a log and an engine per stream and stops engines
before logs. Bindings (`ffi.rs`) call the service.

In the library, the inbox subscribes through the messaging service, which runs
on the MQTT connection; its handlers retain requests in the registry of deferred
replies and answer through a confirmed publish; one of its built-in verbs is
`reload-config`, which joins the watch of the configuration source at the apply
lock. Credentials are independent of all that: their processes meet in the file.

## Modules

| module | lines | models |
|---|---|---|
| `GroupCommit` | 539 | the ingest side of `log.rs`: producers, queue, leader, condition variables, group writes |
| `OrderedLog` | 46 | its promise: one writer that handles submitted sequences one by one |
| `GroupCommitProofs` | 2462 | theorems about the two |
| `SegmentLog` | 163 | `blockstore/segment_log.rs` and `blockstore/memory.rs`: pure operators on a sequence of segments |
| `EmbeddedLog` | 535 | the rest of `log.rs`, `export/mod.rs`, `blockstore/checkpoint.rs`: leader against exporter, maintenance, flush, crash and recovery |
| `StoreAndForward` | 104 | its promise to producers and sink: accepted, due, sent, dropped, given up |
| `EmbeddedLogProofs` | 6193 | theorems about the three |
| `FileSink` | 344 | `export/file.rs` under the engine's retries, with kill, clean stop and restart |
| `FileSinkProofs` | 1027 | theorems about it |
| `MqttConnection` | 656 | `messaging/provider/mqtt.rs` and the supervisor of `messaging/service.rs`, over a client, a wire and a broker that are external |
| `MqttConnectionProofs` | 4982 | theorems about it |
| `DeferredReply` | 367 | `commands/deferred.rs` and the dispatch of one request |
| `DeferredReplyProofs` | 493 | lemmas: every step of it keeps its invariant |
| `CommandInbox` | 328 | the lifecycle and gate of `commands.rs` |
| `CommandInboxProofs` | 1298 | theorems about it and the requests in it |
| `ConfigReload` | 320 | `configmap.rs`, `candidate.rs` and `apply_reloaded_config` |
| `ConfigReloadProofs` | 1014 | theorems about it |
| `CredentialVault` | 314 | `vault.rs`, `service.rs`, `sync.rs` over processes and threads |
| `CredentialVaultProofs` | 1132 | theorems about it |
| `MC*` | - | constants for TLC |

Composition: `EmbeddedLog` extends `SegmentLog`; `CommandInbox` extends
`DeferredReply`, so that a request goes from the subscription through the gate
and the handler to its reply and its registry entry in one state machine;
`FileSink` carries the engine's loop around the sink. `GroupCommit` refines
`OrderedLog` by `submitted <- next_seq - 1`, `resolved <- resolved_seq` and
`handled <-` the resolved sequences and those of its group the leader is
through with. `EmbeddedLog` refines `StoreAndForward` by `sent <- delivered`,
`dropped <- discarded`, `given_up <- gave_up`, and `due <-` the accepted records
that are in a file at or above the cursor, or, while there is no process, at or
above the checkpoint the next one reads.

## State, actions and code

### GroupCommit

The variables `queue`, `next_seq`, `resolved_seq`, `errors` and `leader_active`
are the fields of `Ingest` (`queued_records` is the length of the queue). `pc`,
`call`, `group`, `written` and `errors_local` are the locals of a producer. A
step is a stretch of code between two points where the thread lets go of a lock,
or, while it writes, one record of the group.

| code | actions |
|---|---|
| `append`, `append_batch`, `enqueue` | `BeginAppend`; `Enqueue`, `EnqueueWait`, `EnqueueReject` |
| `drive_until` | `DriveResolved`, `DriveWait`, `DriveLead`, `NotifySpace`, `Resolve`, `NotifyDone` |
| `write_group` | `WriteRecord`, `RefuseRecord`, `RoomWait`, `RoomFreed`, `FinishGroup` |
| `take_result`, end of `append_batch` | `TakeResult` |
| `flush` | `BeginFlush`, the drive actions, `FlushSync` |
| `maintenance_tick` | `MaintenanceSync` |
| condition variables | `SpuriousWakeup` |

`refused`, `mustSync`, `told`, `wronged` and `flushed` are history: what callers
were told, and what the store really did. Mutex-protected stretches are atomic;
a notification is a step of its own because the code sends it after it let go of
the lock.

### SegmentLog and EmbeddedLog

A segment is a record of its first offset, the end the process believes, its
frames, and how many of them are with the operating system (`os`) and on disk
(`synced`). `Spilled` lets the `BufWriter` keep or write out frames at will,
`Survivals` lets a crash keep of every file any prefix that contains what it
must, and `Recover` is `SegmentLog::open` with `scan_tail`. The memory store is
the same sequence with segments of one record and nothing left after a restart
(`store_type`, `Forget`). `PlanRead(segs, from, max)` is the set of the plans
`plan_read` may make, of which there is exactly one, and `Stored(segs)` the set
of all frames.

| code | actions |
|---|---|
| `write_group` with `ensure_room` | `BeginGroup`, `WriteRecord`, `DropAndWrite`, `RejectRecord`, `WaitForRoom`, `SpuriousWakeup`, `FinishGroup` |
| `read_batch`, `commit`, export `run` and `deliver` | `Plan`, `Read`, `CallSink`, `SendAllAcked`, `SendPartial`, `SendFailed`, `Commit`, `StopExporter` |
| `maintenance_tick` | `TickSnapshot`, `TickStore` |
| `flush`, `persist_checkpoint` | `FlushSync`, `FlushSnapshot`, `FlushStore` |
| end of a process, `Drop`, `open` | `Kill`, `PowerLoss`, `Close`, `Forget`, `Open` |

Every record has an id besides its offset, because a power loss lets offsets be
assigned twice. `accepted`, `promised`, `delivered`, `discarded` and `gave_up`
are history; after a power loss, a record nobody promised to be on disk is
excused (`accepted' = accepted \intersect promised`).

### FileSink

`pc` is the place in `write_batch`, or in the drop of the sink; `open` is the
two slots, each with the state of its encoder, the rows that can be read once
the file is closed, and its size; `due` says whether `rollEverySecs` has passed
for them; `ring` is the deque of finalized paths. `old` and `strays` are files
the ring does not know, `deleted` the records of files it deleted, and `lost`
those that no reader gets at. `setup` ranges over format, mode, `onFull`,
whether files roll by age, and retries for ever or not.

| code | actions |
|---|---|
| engine `deliver`, commit, checkpoint | `Send`, `SendFailed`, `Commit`, `Checkpoint` |
| `time_roll`, the end of `write_to_slot`, `finalize` | `TimeRoll`, `SizeRoll`, with `Finalized` or `NotFinalized`; `Age` is the clock |
| the beginning of `write_to_slot`, `open_file`, `write` of the encoders | `Write`: `Refused` for a full ring; `Appended`; `AppendedTorn` behind a tear; `WriteFails`, in which the encoder may break off (`Breaks`) and stays in its slot |
| `drop` | `Stop`, then `Drop` of each slot, which goes on whatever `finalize` returns (`AfterDrop`), then `Close` |
| end of the process, `new` | `Kill`, `Restart` |

### MqttConnection

`registry` is the routing table, `pending_subacks` the FIFO of oneshot senders,
`awaiting_outgoing`, `inflight` and `confirming` the fields of
`PublishTracking`, `publish_queue` and `funnel` the publish task, `channel` the
request channel of the MQTT client, `loop` the event-loop task. A step is the
code between two awaits. The client, the wire and the broker (`unacked`,
`incoming`, `bsubs`, `stored`) are external, and modelled from how the code
uses them: requests go out in order, and the session is clean
(`mqtt.rs:621`). With the connection the broker forgets the subscriptions, and
the client its unacknowledged publishes and the requests it finds in the
channel; their markers stay in the tracker.

| code | actions |
|---|---|
| `subscribe_with_acknowledgement` and its guards | `SubscribeRegister`, `SubscribeSend`, `SubscribeAcknowledged`, `SubscribeFails`, `Abandon`, `DropGuards` |
| `unsubscribe` | `Unsubscribe` |
| `publish`, `publish_confirmed` | `Submit`, `ConfirmDisconnected`, `ConfirmReturns` |
| publish task | `FunnelTake`, `FunnelRegister`, `FunnelSend` |
| `start_request` and its supervisor | `Supervise`, `Replied`, `Expired`, `Cancelled`, `Release` |
| event-loop task | `LoopSubscribe`, `LoopUnsubscribe`, `LoopPublish`, `LoopSuback`, `LoopPuback`, `LoopReply`, `LoopError`, `LoopRetry`, `LoopConnack`, `LoopResubscribe`, `LoopReady` |
| wire and peer | `WireBreaks`, `Respond` |

`granted` remembers whose own SUBSCRIBE the broker acknowledged; `shifted`,
`leaky` and `lapsed` (a connection was lost with publishes that had left the
funnel) remember the events after which the code no longer keeps what the
properties say (below).

### CommandInbox and DeferredReply

`generation`, `state`, `filters`, `pending`, `retained` and `draining` are the
fields of the inbox's lifecycle; `subs` says which generation's handler each of
the two filters has at the messaging service; `call` and `drain` are the locals
of the tasks. In `DeferredReply`, `registry`, `settlement`, `continuation` and
`handler` are the entry of a token, the future that settles it, the continuation
its handler accepted, and the handler task. `scene` chooses at the start which
calls are made and which requests arrive.

| code | actions |
|---|---|
| `start_with_timeout` | `StartBegin`, `StartFilters`, `Subscribe`, `Check`, `BecomeActive`, `Recheck`, `Unsubscribe`, `Fail` |
| `stop` | `StopBegin`, `Unsubscribe` |
| the subscription handler, `dispatch_delivery` | `Arrive`, `Receive`, `Dispatch` |
| `drain_activation_gate` | `DrainEmpty`, `DrainPop`, `DrainDone` |
| `dispatch`, `defer`, `activate`, `settle`, `discard`, expiry, `shutdown`, continuations | the actions of `DeferredReply`, one per compare-and-set and per publish |

### ConfigReload

`file`, `armed`, `event`, `baseline`, `watcher`, `updates` are the ConfigMap
source; `apply[p]` is the place of a path in `apply_reloaded_config`; `lock`,
`held`, `snapshot`, `runtime`, `errors`, `seen` are the apply lock, the permits
of validator threads, the live configuration, the coordinator's runtime, the
last errors and what listeners were told.

| code | actions |
|---|---|
| watcher thread | `Arm`, `LoseWatch`, `ReadEvent`, `Emit` |
| watch task; `reload-config` | `Receive`; `Load`, `Seed` |
| `apply_reloaded_config` | `CheckSchema`, `TakeLock`, `Validate`, `Prepare`, `Commit`, `Rollback`, `Store`, `Notify` |
| a validator thread ends | `WorkerExits` |
| the mount | `Write` |

### CredentialVault

`file` is the vault file with its stamp (mtime and length); `vault[p]` is the
`LocalVault` of a process; `task[t]` the call of a thread, which holds the mutex
of its process unless it is idle or fetching.

| code | actions |
|---|---|
| `open`, `from_file` | `Open`, `Stamp` |
| `put`, `get` and the other reads, `delete` | `Put`, `Get`, `Delete` |
| `save` | `Rename`, `SaveFails`, `Stamp` |
| `sync_once` | `Fetch`, `SyncSkips`, `SyncPuts` |
| the central store; the end of a process | `Rotate`; `Crash` |

## How the models abstract

- Records have the size of one unit, and byte bounds are counted in them.
  Timestamps, keys, payloads, statistics and lengths of back-offs are left out.
- In a log file, a frame is there or not; byte positions, the index and
  checksums are abstracted. `scan_tail` is modelled by what it finds: the frames
  that continue the base of the file. Creating, renaming and removing a file is
  atomic and durable, and so is the store of the checkpoint (temporary file,
  fsync, rename).
- The groups of `EmbeddedLog` are runs of fresh records; how producers form
  them, and what they are told, is `GroupCommit`. There, the store is what the
  log asks of it: `WriteRecord` or `RefuseRecord` stand for `ensure_room` and
  `append`, `RoomWait` for the wait of `block`. Failing appends and fsyncs are
  in `GroupCommit` (`Faults`), not in `EmbeddedLog`.
- In `FileSink`, a record is one row or none; encodings, partitions and file
  names are data. A file is the set of its records and its length in rows, so
  that a record written twice counts twice. A failed write opened no file or an
  empty one, appended nothing, appended all its rows (only the fsync failed), or
  broke off. What an encoder does after that is not in this repository; the
  model says what is known of the pinned `parquet` 54.3.1 and `apache-avro`
  0.17.0: the Parquet writer refuses every later write and its own close, so
  that no footer makes its rows readable, and the Avro file takes more blocks,
  which a reader that stops at the tear never sees.
- In `MqttConnection`, a caller makes one call and stands for its filter, its
  reply topic and its message: filters are distinct and reply topics fresh.
  The queue to the publish funnel (1024 places) has no bound. The client gives
  a QoS 1 publish any packet id that is free, from 1 to `MaxInflight`. What
  it does with a lost connection is what is known of the pinned `rumqttc` 0.25.1
  (`libs/rust/Cargo.lock:3249`): it takes over unacknowledged publishes and the
  requests in the channel, and drops them all at a CONNACK without a session.
  The model drops them at the error. It drops packets that were read but not
  delivered as events there too, which the client might still deliver.
- In `CommandInbox`, both filters are subscribed to through a service whose
  unsubscribe succeeds; timeouts of `start` are positive; the inbox outlives its
  callers. What may be deferred arrives once the inbox is active.
- In `ConfigReload`, a validator or a coordinator is application code that
  accepts, refuses or overruns its deadline. Documents are model values.
- In `CredentialVault`, a rename gives the file a stamp it never had; a value is
  the id of its put. Encryption, key providers and the audit log are left out.
  A call and the reload before it are one step, since nothing others see happens
  between them.
- A deadline is a choice: where a timeout may fire, the model lets it fire or
  not, whatever else happens.
- A model bound ends the input, never a call that has begun: `MaxSeq`
  (GroupCommit); `MaxRecords`, `MaxGroup`, `MaxFlushes`, `MaxRestarts`
  (EmbeddedLog); `MaxFaults`, `MaxRestarts` (FileSink); `MaxReplies`,
  `MaxDisconnects` (MqttConnection); `MaxWrites`, `MaxLosses` (ConfigReload);
  `MaxCentral`, `MaxPuts`, `MaxFaults` (CredentialVault).

## Runs

Ten runs pass; two expect a violation (next section). The runs of the streams
check deadlock, but for `file_sink`, where a delivered stream may rest; the
others end when every call has returned and say `CHECK_DEADLOCK FALSE`.
`mqtt_faults` may also end with a subscriber that waits: the one there has no
deadline, and another waiter may have been handed its SUBACK.

| run | setting | shows |
|---|---|---|
| `groupCommit_reject` | 2 producers, queue of 2, batches of up to 2, 3 sequences, `rejectNew`, `perBatch`, appends that are refused and fsyncs that fail; symmetry | `OneLeader`; the order of submission (`OrderInv`); each call learns the outcome of its own records and of no others (`OutcomesAreOwn`); one fsync serves every member of a group (`AckedIsDurable`); a flush that returns covers what came before it (`FlushCovers`); refinement (`ImplementsOrderedLog`) |
| `groupCommit_live` | 3 producers, queue of 1, `block`, `always` | nobody misses a wakeup or waits for a leader that is not there: every call returns (`CallsReturn`) |
| `embeddedLog_drop` | both stores, 4 records, `dropOldest` in a budget of 2, segments of 2, no retries, fsync by `interval`, up to two kills or clean ends | refinement (`ImplementsStoreAndForward`): nothing accepted is lost, through drops, failed batches and restarts; `OrderPreserved`, `WithinBudget`, `CheckpointMonotone` |
| `embeddedLog_power` | one segment of 3 that fills up under `rejectNew`, one flush, one kill or power loss with torn tails | what was promised to be on disk is recovered (`NoLoss`); the cursor lies in the log and the files have the shape the process believes (`TypeOK`) |
| `embeddedLog_live` | both stores, 5 records, `block`, room for 3, segments of 2, a sink that fails, answers in part, and works in the end | blocked leaders go on and every record leaves (`StreamMoves`), none twice (`NoDuplicateInLife`) |
| `file_sink` | 5 records (rows, unmapped and empty ones) in batches of 2, files of 2 rows, a ring of 1; Parquet and Avro, raw, user columns and the default projection, `dropOldest` and `stop`, files that roll by age or not, finite and endless retries; one failed file operation, at any place and with any outcome, one kill or clean stop | committed rows can be read from a file or there is a reason (`AckedInFiles`), duplicates too (`RepeatsExplained`); the ring is bounded (`TypeOK`); the stream ends up delivered (`SinkAdvances`) |
| `mqtt_faults` | a subscribe the broker refuses, a confirmed publish, a request; deadlines of the publish and the request, its subscribe included (the theorems hold for every `Timeouts`), cancellation of the request at any await (the UNSUBSCRIBE of its failed subscribe too), one lost connection, one reply, QoS 1, a tracker of 2 | a confirmation is about the right message (`ConfirmedIsStored`), markers line up behind those of lost publishes, in a bounded tracker (`TypeOK`), success means granted (`AckedIsGranted`), subscriptions survive a reconnect (`RegisteredIsSubscribed`), a request leaves nothing behind (`NoOrphan`) |
| `mqtt_reconnect` | a request channel of 1 | expects the violation of `Reconnects` |
| `commands` | three scenes: two starts and a stop that cross; a start with three requests for a gate of two; deferred requests with retries, expiry, continuations and a shutdown, in a registry of one place | `SubscriptionsFollow`, `GateBeforeDirect`, places at the gate (`TypeOK`), `AnsweredOnce`, `NothingBehindShutdown`, `RegistryDrains` |
| `commands_gate` | the first scene | expects the violation of `GateKeeps` |
| `config_reload` | 4 documents, a malformed and an invalid one among them, 3 changes of the mount, one `reload-config`, one lost watch, two validators on a budget of two | `RuntimeFollows`, `UpToDate`, `UpdatesDecided`, permits within the budget (`TypeOK`) |
| `vault_sync` | two processes; the sync thread, a refresh in the first, a caller in the second; one secret, 2 versions kept, one rotation, one put or delete, one failed save or crash | `AcksSurvive`, `VersionsNameOne`, `ServedIsStored`, `SyncSettles` |

*Bounds.* Two producers reach every pair of roles in the ingest protocol (leader
and follower, driver and waiter); the third is needed where one notification
must reach two waiters. A queue of two with batches of two makes batches that
fit, that wait in the middle, and that are refused in the middle. Segments of
two records and a budget of two make every append a candidate for rolling,
reclaiming and dropping; four or five records go through several of these
cycles; batches of two give the exporter partial answers and reads that stop in
the middle. Two restarts are needed to recover from a recovery. In the file sink
five records fill the main file twice and the unmapped one once, so that the
ring of one is full for either slot; one fault and one restart meet in any
order. On the MQTT connection one caller of each kind and one disconnect with
everything in flight make every pair of acknowledgements that can be confused,
and put the marker of a lost publish in front of the next one's. Three calls of
start and stop are two generations with a drain task each and a third party. A
registry of one place makes capacity bite with two requests. Three changes of
the mount are a good document, its replacement and a bad one; two validators on
two permits exhaust the budget with one hung candidate. In the vault, two
writers in different processes and two passes in one are the pairs that can
overlap; a rotation gives them different things to write.

Symmetry among producers is used in `groupCommit_reject` only: they run the
same code and no property names one.

## What the code does not keep

Two runs expect a counterexample to a sentence of the repository.

| run | sentence | what happens |
|---|---|---|
| `mqtt_reconnect` | "the task re-subscribes all registered filters on every `CONNACK`, so subscriptions survive reconnects" (`mqtt.rs:16`) | at CONNACK the event-loop task waits for room in the request channel (`mqtt.rs:738`), which only it empties; when callers filled the channel during the outage, it waits for itself |
| `commands_gate` | "Serial delivery preserves broker arrival order through the STARTING -> ACTIVE gate" (`commands.rs:181`) | the drain task of an old generation clears the gate of the next one (`commands.rs:1373`); the deliveries that wait there are neither dispatched nor answered |

**What the properties except.** Some passing properties carry an exception for
something the code is seen to do. Each is a conjunct or a history variable that
can be removed to see the counterexample.

- `MqttConnection`: a SUBACK wakes the oldest waiter, so a waiter that gave up,
  two that sent in another order than they queued, and the SUBACKs of a
  reconnect shift the FIFO (`shifted`; the doc at `mqtt.rs:87` states the
  assumption). A call dropped before its UNSUBSCRIBE is sent (at the await of
  that UNSUBSCRIBE too, `mqtt.rs:488`), or released while the loop is about to
  subscribe its filter again, leaves a subscription at the broker (`leaky`;
  `service.rs:120`). Once a connection is lost with publishes on their way
  (`lapsed`), markers of theirs may be left in the tracker, and those in flight
  are no longer filed as the client has them; what follows is below.
- `DeferredReply`: a plain token that is settled before its handler returned is
  answered, and answered again as an invalid outcome; so is one that a shutdown
  cancels between its activation and its validation (`early`). A reply confirmed
  after the deadline returns an error to the settler although the requester has
  it. When a shutdown drops a continuation in the middle of its settlement, the
  entry stays SETTLING, which the shutdown leaves alone; its timer removes it.
- `CommandInbox`: a stop that crosses a start can leave the inbox active with a
  filter unsubscribed (`overlap`); a cleared gate of another generation is
  excepted from the safety properties (`wiped`) and is the matter of
  `commands_gate`.
- `ConfigReload`: a change while no watch is armed is seen at the next event
  only (`missed`). A reload that overlaps the watch path seeds the baseline with
  a document that then is applied before, or after, the one of the watch
  (`crossed`): the older may stay live, and listeners may be told out of order.
  A failed rollback leaves the runtime where it is until the next store
  (`broken`).
- `FileSink`: with `stop` and the default projection the ring may hold one file
  more than `maxFiles`, because both slots may have an open file; a restart
  forgets the ring. When the ring refuses the second file of a batch, the engine
  sends the batch again and its rows are written again. The engine does not look
  at `retryable`, so that finite retries lose batches while the ring is full. A
  file that fails to close after it left its slot is an orphan, and takes the
  rows of a Parquet file along; the drop of the sink does not look at such
  errors (`file.rs:345`), and may delete the oldest file by the ring. A write
  that breaks off leaves its encoder in the slot (`file.rs:195`). Into a torn
  Avro file later batches are written and acknowledged although no reader gets
  to them, which is why `AckedInFiles` lets a record be lost after a failed
  operation (`file.rs:39` and `docs/TELEMETRY_PROCESSOR.md:358` promise the
  opposite). A Parquet writer that broke off refuses every later batch until its
  file rolls by age; with `rollEverySecs` of 0 and endless retries, both
  defaults, it holds the stream up for good (the exception of `SinkAdvances`). A
  payload with no sample or an empty exploded array yields no row, although the
  comment in `write_batch` says every message yields at least one. An idle
  stream does not roll by age.
- `CredentialVault`: the lock file covers the write and not the read a save
  starts from, so that another process's version is lost (`raced`; `vault.rs:11`
  says concurrent writers do not lose updates). A stamp taken after the unlock,
  or after the read in `open`, may belong to a newer file (`late`); a failed
  save leaves memory ahead of the file (`dirty`); neither is repaired by a later
  pass. Version numbers start again after a delete, which drops the versions that
  were acknowledged from what the properties speak of. Two processes
  that create the vault at once end with different keys.

**Other counterexamples**, seen by changing constants. Of the MQTT connection,
where a lost connection fails the waiters and leaves their markers
(`mqtt.rs:809`) while the clean session drops the publishes:

- `OwnPuback` fails (3 confirmed publishes with deadlines, `ChannelCap = 2`,
  `MaxInflight = 2`, `MaxTracked = 3`, one disconnect, no other callers). The
  publish after a lost one is taken for its retransmission (`mqtt.rs:149`), or
  pops its marker (`mqtt.rs:154`); from there on a marker is filed under the
  packet id of a later publish. `libs/rust/doc/messaging.md:168` says that "only
  the matching incoming PUBACK settles its confirmed waiter" and that "a
  reconnect cannot shift a later PUBACK onto the wrong waiter". A confirmation
  still says that the message was stored (`ConfirmedIsStored`), but it comes
  with another PUBACK, or not within its timeout.
- `FunnelMoves` fails under `FairSpec` (2 confirmed publishes, `MaxTracked = 1`,
  one disconnect). The markers of lost publishes await neither a packet id nor
  an acknowledgement, as `mqtt.rs:71` has it, and nothing takes them out: a
  later publish takes one and adds its own. Each costs a place of the tracker
  (1024 in the code) for good, and without a place the funnel waits for ever
  (`mqtt.rs:692`).

Of the streams:

- `OutcomesAreOwn` fails under `block` with batches (`GroupCommit`, 2 producers,
  queue of 1, 3 sequences, `Faults = {"append"}`): a batch that waited for space
  in the middle drains the errors of every sequence between its first and last,
  another producer's among them (`log.rs:262`). `ErrorsHaveOwner` excepts
  records of a batch that was refused in the middle (`abandoned`): nobody takes
  their errors (`log.rs:236`).
- `CallsReturn` fails under `block` with `MaxBatch > MaxBufferedRecords`: the
  batch fills the queue, and waits for a leader before it would lead
  (`log.rs:238`).
- `AckedIsDurable` fails with `SegmentRecords = 1`: a group that rolls fsyncs
  its last file only (`segment_log.rs:145`); and it excepts a group whose fsync
  failed (`unsynced`), since the result of that fsync is ignored
  (`log.rs:361`). `NoLoss` fails after a power loss for the same reason with
  segments of 1 and a flush.
- `NoLoss` fails in `embeddedLog_power` with two restarts: a checkpoint beyond
  the recovered files is clamped in memory only (`log.rs:143`); offsets below it
  are used again, and the next start skips them.
- `CheckpointMonotone` fails in `embeddedLog_drop` with a flush between the
  snapshot and the store of a maintenance tick (`log.rs:555`).
- `OrderPreserved` fails with partial answers: the failed records are sent again
  behind later ones that were stored (`export/mod.rs:344`). `RecordsLeave` fails
  for a sink that always answers in part, whatever `max_retries` is
  (`export/mod.rs:358`).
- `StreamMoves` fails under `block` with `MaxDiskRecords = SegmentRecords`: all
  space may be in the active segment, which is never reclaimed; everything is
  delivered and the leader waits for ever (`log.rs:526`).

## Fairness

- `GroupCommit!Fairness`: weak fairness of every producer's own steps, because
  a thread inside a call is scheduled and mutexes are released in finite time.
  Nobody is obliged to begin a call, and no spurious wakeup is owed. `RoomFreed`
  is weakly fair, because the exporter commits again and again; strong fairness
  of `WriteRecord \/ RefuseRecord` says that a leader does not go back to
  waiting for room for ever. Whether the exporter makes room is answered by
  `embeddedLog_live`.
- `EmbeddedLog!Fairness`: weak fairness of the leader, of the export thread and
  of the answers of the sink. `WorkingSinkSpec` adds strong fairness of
  `SendAllAcked`: a sink that is called again and again acknowledges in the end,
  which is what "the uplink comes back" means. Nothing is assumed of producers,
  flushes, maintenance or restarts.
- `FileSink!FairSpec`: the engine thread runs, and time passes, so that an open
  file gets old where files roll by age. Nothing is assumed of failures or
  restarts, of which there are finitely many.
- `MqttConnection!Fairness` (used by `mqtt_reconnect`): tasks
  run, timers fire, and a broken connection is noticed and comes back. The
  violation stands under it: the event-loop task is not starved, it is never
  enabled.
- `CommandInbox!FairSpec`: the timer task of an entry runs. Nothing is asked of
  handlers, settlers or the broker, and the registry empties all the same.
- `ConfigReload!FairSpec`: the watcher, the watch task and every path that
  applies a document run; callbacks return, as their contract asks. A validator
  thread need not end.
- `CredentialVault!FairSpec`: a call that holds the mutex ends, the engine's
  thread opens the vault and fetches, and (strong fairness, since callers
  compete with it) gets the mutex in the end. Calls, rotations and faults need
  never happen.

## Proofs

Eight modules hold theorems. All of them are checked by TLAPS to the last leaf,
for every value of the constants that the named assumption of the module allows,
and no theorem rests on a model bound: `MaxSeq`, `MaxFaults`, `MaxDisconnects`
and the like range over all numbers. (`CheckpointMonotoneCorrect` assumes
`MaxFlushes = 0`, which says that `flush` is never called.) Where a property
speaks of a situation the code does not handle, the exception is the one of
*What the code does not keep*.

### GroupCommit

From `GroupCommitAssumption` (constants in range; what
`BufferConfig::validate` and `max(1)` in `open` ensure):

| theorem | statement |
|---|---|
| `TypeCorrect` | `Spec => []TypeOK`, the bound of the queue included |
| `OneLeaderCorrect` | `Spec => []OneLeader` |
| `OrderInvCorrect` | `Spec => []OrderInv` |
| `SubmissionOrderCorrect` | `Spec => []SubmissionOrder` |
| `ResolvedIsDecidedCorrect` | `Spec => []ResolvedIsDecided` |
| `GroupCommitImplementsOrderedLog` | `Spec => ImplementsOrderedLog` |
| `OutcomesAreOwnCorrect` | `Contiguous` implies `Spec => []OutcomesAreOwn` |
| `AckedIsDurableCorrect` | `Contiguous` implies: what was told Ok on a demanded fsync is durable, in a group whose fsync failed, or in a closed segment; so `AckedIsDurable` until the log rolls |
| `FlushCoversCorrect` | what a flush had to cover is durable, refused, or in a closed segment; so `FlushCovers` until the log rolls |

*The order.* `TypeOK` is inductive. `OneLeader` is inductive with it: a
producer becomes leader only when the flag is down, and the flag is down only
when nobody leads. `SubmissionOrder` and `ResolvedIsDecided` are not inductive:
both hold only because a leader took the *whole* queue while nothing was between
the resolved sequences and the queue. `OrderInv` says that. The sequences given
out are `1..resolved_seq`, then the leader's group, then the queue, without
gaps; the decided ones, written or refused, are an initial part that ends in the
group. A push extends the queue at its end; becoming leader turns the queue into
the group; writing or refusing decides the next one; resolving moves the group
into the resolved part. From it, the next record written has a sequence above
all written ones (order), and a resolve covers decided sequences only. The
refinement maps a push to `Submit`, a written or refused record to `Handle`, a
resolve of a non-empty group to `Resolve`, and all else to a stutter.

*The outcomes.* `Outcomes` adds an account of every refused record: it is in the
hands of the leader, or in the map of errors, until its call takes it; and every
error, and every sequence not resolved, is of a call that is still there, or of
one that was refused in the middle of its batch. `Ranges` says that the
sequences of a call are the whole of `first..last`, from which it takes its
errors. That is where `Contiguous` comes in: `OnFull = "rejectNew"`, or
`MaxBatch = 1`, or no failing appends. It is the exact boundary. In every other
configuration a batch can wait in the middle while others push, and TLC finds
`OutcomesAreOwn` violated (see above).

*Durability.* `Durability` follows a demand for an fsync from the call to the
queue and the group, and says that the group of a leader is kept before it is
resolved. `sync` reaches only the active segment file, so closed segments are an
alternative in both theorems, not an assumption; with none closed yet they are
the properties that the run checks. `FlushCovers` needs neither `Contiguous` nor
anything about policies and faults.

### MqttConnection

From `MqttConnectionAssumption` (callers of one kind only, channel and tracker
of at least one place):

| theorem | statement |
|---|---|
| `TypeCorrect` | `Spec => []TypeOK`: types, the bounds of channel and tracker, and `MarkersAligned`: the markers of the publishes in the channel, in order, behind those that lost connections left; none of these, and every marker in flight under its own packet id, until a publish is lost |
| `ConfirmedIsStoredCorrect` | `Spec => []ConfirmedIsStored` |
| `FifoHolds` | `Spec => []FifoInOrder` |
| `AckedIsGrantedCorrect` | `Spec => []AckedIsGranted` |
| `RegisteredIsSubscribedCorrect` | `Spec => []RegisteredIsSubscribed` |
| `NoOrphanCorrect` | `Spec => []NoOrphan` |

*The argument.* `Basis` has the types, the waiters and the markers, and the rest
stands on it. `MarkersAligned` is not inductive: a lost connection empties the
channel and leaves the markers. `Behind(k)` says what stays true: behind `k`
markers that lost connections left, those of the publishes in the channel
follow, one for one and in order. With it a publish finds at the front its own
marker or an earlier one, so that a marker is taken only when its message was
written. A waiter is not left in front for long: every lost connection fails all
waiters, so that a marker it leaves in flight has none (`Stale`), and one that
is taken afterwards belongs to a message written on this connection. `Pubacks`
says that a PUBACK on the way has a packet id of its own and finds under it a
marker without a waiter, or one whose message the broker has; `PublishesOnce`,
that a publish has one marker. `ConfirmedIsStored` follows, although the marker
may be under another publish's packet id. `FifoInOrder` says, while nothing
shifted the FIFO of waiters, that SUBACKs on the way are for the first waiters
and SUBSCRIBEs in the channel for the next ones, in their order; that a
subscribe that returned success was granted follows step by step. `Subscribing`
says that a registered filter is at the broker, or a SUBSCRIBE of it is on its
way, and that behind every SUBSCRIBE of a filter nobody wants there is an
UNSUBSCRIBE: a quiet connection then has the filters it should have, and no
others.

### CommandInbox and DeferredReply

From `CommandInboxAssumption` (finitely many callers; a gate of at least one
place; request names that are no control states) and `DeferredReplyAssumption`
(at least one place, one continuation, one attempt):

| theorem | statement |
|---|---|
| `TypeCorrect` | `Spec => []TypeOK`, places at the gate included |
| `AnsweredOnceCorrect` | `Spec => []AnsweredOnce` |
| `NothingBehindShutdownCorrect` | `Spec => []NothingBehindShutdown` |
| `SubscriptionsFollowCorrect` | `Spec => []SubscriptionsFollow` |
| `GateBeforeDirectCorrect` | `Spec => []GateBeforeDirect` |

*The argument.* For a request, `Life`, `Dispatching` and `Once` say who may
still answer it: the dispatch, until its token is open; then the one that moved
the entry to SETTLING; or the shutdown that cancelled it. `AnsweredOnce` alone
does not know that nobody else is on the way to an answer. `Behind` is the loop
of `shutdown_deferred`: what is kept and not in the snapshot any more is settled
or being settled, because admission looks at the flag under the lock.
For the inbox, `Responsible` names for every subscription of an inbox that is
not active the call that will undo it or make it active; `Sequential` is what
calls that do not overlap know of each other; `GateInv` says that a drained gate
is empty and that nothing goes past a gate that is not. Generations make the
first two true: a call of an old generation fails its checks.

### ConfigReload

From `ConfigReloadAssumption` (the first document is a good one; the names of
the two paths, the free lock and "none" are no documents or reloads; at least one
validator and one permit):

| theorem | statement |
|---|---|
| `TypeCorrect` | `Spec => []TypeOK`: types, only parsed documents are emitted, validator threads within the budget |
| `LockHeldCorrect` | `Spec => []LockHeld`: the path between validation and store is the one that holds the apply lock |
| `RuntimeFollowsCorrect` | `Spec => []RuntimeFollows` |
| `UpToDateCorrect` | `Spec => []UpToDate` |

*The argument.* `RuntimeFollows` speaks of a free lock; while a candidate is
applied, runtime and snapshot may differ. `InStep` says what holds then: before
the commit they agree, after a successful commit the runtime runs the candidate,
and during a rollback nothing is known. It is inductive only together with
`LockHeld`: two paths in the locked region could each undo what the other relied
on. `LockHeld` holds because every way out of the region, a refusal, a rollback
or a store, frees the lock, and a refusal before the region leaves it alone.
`UpToDate` speaks of rest; `SettleInv` says where a change is before that: behind
an event, in the watcher's hands, among the updates, at the path that applies it,
or decided.

### SegmentLog and EmbeddedLog

From `EmbeddedLogAssumption` (sizes and limits in range, as configuration
parsing and `max(1)` in the constructors ensure):

| theorem | under | statement |
|---|---|---|
| `IInvCorrect` | | `Spec => []IInv`, the inductive invariant |
| `LogTypeCorrect` | | `Spec => []TypeOK`: types, the believed shape of the files, the cursor in the log |
| `WithinBudgetCorrect` | | `Spec => []WithinBudget` |
| `NoDuplicateInLifeCorrect` | | `Spec => []NoDuplicateInLife` |
| `NoLossCorrect` | no power loss | `Spec => []NoLoss` |
| `OrderPreservedCorrect` | no power loss, no partial answers | `Spec => []OrderPreserved` |
| `CheckpointMonotoneCorrect` | no power loss, no `flush` | `Spec => CheckpointMonotone` |
| `ImplementsStoreAndForwardCorrect` | no power loss | `Spec => ImplementsStoreAndForward` |

"No power loss" is `"power" \notin Crashes`: any number of kills, clean ends and
restarts is left. The first four include power losses with torn tails. The
conditions are those of *What the code does not keep*: TLC has a counterexample
to the order with partial answers, to the monotone checkpoint with a flush, and
to `NoLoss` with a second restart after a power loss.

*The files.* The first part of the module are lemmas on the operators of
`SegmentLog`: what appending, rolling, spilling, syncing, reclaiming, dropping
and recovering do to offsets, ends and frames. `FilesInv` (offsets are
consecutive, closed segments are full and on disk as far as the process believes,
the active one is within its limit, the files within the budget) is inductive by
them. From there no action is looked at with its segments again: every step
leaves the frames alone (`LogKept`), adds one at the end (`LogGrown`), loses some
from the front (`LogLost`) or opens what a crash left (`LogOpened`), and what
follows is proved for these four.

*Identity.* Offsets and ids are ordered alike (`IdsInv`), and the frames of the
leader's group that are not answered yet are the youngest (`HeldInv`). `OnceInv`
says that what this process sent lies below the cursor, or in the batch in hand;
so nothing is sent twice in a life.

*No loss.* `NoLoss` is not inductive: it holds because cursor and checkpoint
move only over what is gone. `CoveredInv` says that a plan has no gap: what lies
between the cursor and its end is in the batch. `AnsweredInv` says that what the
sink answered is gone before the cursor passes it. `FlushedInv` says that an
accepted record has left the `BufWriter`. This is why an ack means something
when the process is killed. `CheckpointInv` says that the checkpoint, and the
snapshots of the maintenance thread and of a flush, are no further than the
cursor was. `KeptInv` puts them together: an accepted record that is not gone is
in a file at or above both.

*Order.* `OrderInv` says that of an accepted record that is not gone, nothing
younger is delivered, nor answered by the sink while its batch is in hand.
`MonotoneInv` says that the snapshot of a tick is not below the checkpoint;
a flush in between breaks exactly that.

*The refinement.* `SettledInv` adds that a dropped record is in no file (so no
restart brings it back), that the engine carries only what is due or was dropped
under it, and that records are acknowledged in order. `FinishGroup` maps to
`Accept`, `SendAllAcked` and `SendPartial` to `Send`, `SendFailed` to `GiveUp`
when the retries are used up, `Commit` to `Settle`, `DropAndWrite` to `Drop`,
`Kill`, `Close` and `Forget` to `Stop`, `Open` to `Start`; every other step is a
stutter. A plan, a tick, a flush, a spilled frame or a reclaimed file shows
neither producers nor the sink anything.

### FileSink

From `FileSinkAssumption` (the kinds of records, limits in range):

| theorem | statement |
|---|---|
| `TypeCorrect` | `Spec => []TypeOK`: types and the bound of the ring |
| `AckedInFilesCorrect` | `Spec => []AckedInFiles`: a committed record is in a file, or deleted, given up or without a row; otherwise lost only after a failed operation, or by a kill with Parquet |
| `RepeatsExplainedCorrect` | `Spec => []RepeatsExplained` |

*The argument.* The bound of the ring is not inductive under `stop`: a slot tests
the ring when it opens a file, and fills it when it finalizes one. `Room` counts
open files in: each holds a place, but for the one more that two slots may open.
`Written` are the records that are committed, or that this attempt of the batch
has written by now; each of them is `Placed`: in a file, or gone for one of the
reasons that `AckedInFiles` names. An encoder breaks only with a fault
(`FileTypes`), so that what it costs is accounted for whenever it is closed,
rolled, dropped or killed. `Dropped` says which slots a stop has emptied: once
both are, the restart finds no open file to lose. `Fresh` says that without
faults the files hold nothing but what was written once; so a batch that is
sent for the first time repeats nothing.

### CredentialVault

From `VaultAssumption` (the syncer is a thread, at least one version is kept,
the central secret has a version):

| theorem | statement |
|---|---|
| `TypeCorrect` | `Spec => []TypeOK`: types, and no more than `Keep` versions of a secret |
| `AcksSurviveCorrect` | `Spec => []AcksSurvive` |
| `VersionsNameOneCorrect` | `Spec => []VersionsNameOne` |
| `ServedIsStoredCorrect` | `Spec => []ServedIsStored` |

*The argument.* `VaultInv` follows the acknowledged versions through every copy
of the secrets that a save may write: the file, the memory of a process in a
call, and that of one whose save failed. In each of them a version is there, or
`Keep` newer ones are (`Covers`); the version about to be saved is in memory and
newer than every acknowledged one of its name (`Newest`), because lists are
sorted and a put numbers after the last. Stamps only grow, so a stamp that was
taken is that of the contents, or older, unless it was `late`.

### Only model-checked

- *Liveness* (`CallsReturn`, `StreamMoves`, `SinkAdvances`, `RegistryDrains`,
  `SyncSettles`, `UpdatesDecided`) and the two expected violations: there is
  no backend here for fairness and `ENABLED`.
- *`NoLoss` after a power loss* (`embeddedLog_power`): it holds until the next
  restart and not for ever, so that an inductive invariant would have to count
  restarts.
- That the conditions `Contiguous`, `shifted`, `leaky`, `wiped`, `overlap`,
  `raced` and the others are needed: each was seen violated by TLC without it.

## Plan

1. *Done*: all the modules above, a theorem for every safety property the
   passing runs check, and the two refinements.
2. `NoLoss` after one power loss as a theorem: which records were on disk when
   it happened takes the place of which had left the process.
3. The bounded queue of log lines (`logs.rs`) and the parameter service, which
   are small and concurrent.

## Not modelled

- *The record codec, payload projection and C ABI* (`record.rs`, `payload.rs`,
  `ffi.rs`): pure data, or calls of what is modelled.
- *Kinesis and Kafka sinks*, *durable CloudWatch metrics*: calls of services;
  the engine sees their answers, which are those of a sink in `EmbeddedLog`.
- *The stream service and configuration parsing*: a map of streams, and data;
  the order of its shutdown is `StopExporter` before `Close`. `max_age_secs` is
  documented and parsed and nothing reads it.
- *An append that fails in the middle of its frame* (`segment_log.rs:365`):
  listed as a hazard, needs a model of byte positions.
- *In messaging*: the per-subscription dispatcher queues, the second broker,
  reserved topics, and the Greengrass provider, whose protocol is inside its
  client.
- *In commands*: `close`, which only tests call, and the fire-and-forget cleanup
  of `Drop`; the built-in verbs other than `reload-config`; a `start` whose
  timeout is zero.
- *In configuration*: file and component sources, which feed the same apply
  path; layering and schema validation, which are pure.
- *In credentials*: encryption, key providers, namespaces, the audit log, a
  coarse file time that hides a change of equal length.
- *Heartbeat, health, UNS and facades*: periodic publication and naming.
- *The Java, Python and TypeScript libraries*: mirrors of the Rust one.
- *`cli`, schemas, templates, examples, website*: no state between runs.
