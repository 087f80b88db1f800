---------------------------- MODULE ConfigReload ----------------------------
(***************************************************************************)
(* Hot reload of the configuration: the ConfigMap source with its watcher  *)
(* thread and content dedupe (config/source/configmap.rs), the two paths   *)
(* that apply a document, the watch task and the reload-config command,    *)
(* and apply_reloaded_config itself (lib.rs) with the process-wide budget  *)
(* of validator threads (config/candidate.rs) and the pre-commit           *)
(* coordinator of the application.                                         *)
(*                                                                         *)
(* Validators and the coordinator are application code: each may accept,   *)
(* refuse or overrun its deadline.                                         *)
(***************************************************************************)
EXTENDS Integers, Sequences, FiniteSets

CONSTANTS
    Docs,         \* documents the file may hold
    First,        \* the one the component started with
    Malformed,    \* cannot be read or parsed
    Invalid,      \* refused by the schema
    Reloads,      \* calls of reload-config
    Budget,       \* MAX_VALIDATOR_WORKERS
    Validators,   \* number of registered validators
    MaxWrites,    \* model bound: changes of the file
    MaxLosses     \* model bound: losses of the directory watch

ASSUME ConfigReloadAssumption ==
    /\ First \in Docs \ (Malformed \union Invalid) /\ "none" \notin Docs
    /\ Malformed \union Invalid \subseteq Docs
    /\ Reloads \intersect {"watch", "free"} = {}
    /\ {Budget, Validators} \subseteq Nat \ {0}
    /\ {MaxWrites, MaxLosses} \subseteq Nat

VARIABLES
    file,        \* document in the mounted directory
    armed,       \* a directory watch is registered
    event,       \* events wait in its channel
    baseline,    \* last_emitted
    watcher,     \* watcher thread: waiting, or holding a parsed document
    updates,     \* emitted documents, not yet received
    apply,       \* per path that applies documents: where it is, with which one
    lock,        \* apply_lock
    held,        \* permits of the budget that worker threads hold
    snapshot,    \* the live configuration
    runtime,     \* what the coordinator's runtime runs
    errors,      \* last_errors: the document they are about, or none
    seen,        \* what the change listeners were told last
    coordinated  \* a coordinator is registered; never changes

(* Bounds, and history: a change nobody watched; a reload-config that      *)
(* overlapped the watch path; a rollback that failed.                      *)
VARIABLES writes, losses, missed, crossed, broken

source == <<file, armed, event, writes, losses, missed>>
decision == <<lock, snapshot, runtime, errors, seen, broken>>
vars == <<source, baseline, watcher, updates, apply, held, decision, crossed,
          coordinated>>

None == "none"
Free == "free"
Paths == {"watch"} \union Reloads

Init ==
    /\ file = First /\ armed = FALSE /\ event = FALSE
    /\ baseline = First /\ watcher = None /\ updates = <<>>
    /\ apply = [p \in Paths |-> [pc |-> "idle", doc |-> First]]
    /\ lock = Free /\ held = 0
    /\ snapshot = First /\ runtime = First /\ errors = None /\ seen = First
    /\ coordinated \in BOOLEAN
    /\ writes = 0 /\ losses = 0
    /\ missed = FALSE /\ crossed = FALSE /\ broken = FALSE

WatchIdle == ~event /\ watcher = None /\ updates = <<>> /\ apply["watch"].pc = "idle"
Reloading == \E p \in Reloads : apply[p].pc \notin {"idle", "done"}

-----------------------------------------------------------------------------
(* The mounted directory, and the watcher thread. *)
Write(d) ==
    /\ writes < MaxWrites /\ writes' = writes + 1
    /\ d # file /\ file' = d
    /\ event' = armed
    /\ missed' = ~armed
    /\ crossed' = (crossed \/ Reloading)
    /\ UNCHANGED <<armed, losses, baseline, watcher, updates, apply, held, decision,
                   coordinated>>

Arm ==
    /\ ~armed /\ armed' = TRUE
    /\ UNCHANGED <<file, event, writes, losses, missed, baseline, watcher, updates,
                   apply, held, decision, crossed, coordinated>>

(* The watch is lost, with the events that wait in its channel. *)
LoseWatch ==
    /\ losses < MaxLosses /\ losses' = losses + 1
    /\ armed /\ armed' = FALSE
    /\ watcher = None
    /\ event' = FALSE
    /\ missed' = (missed \/ event)
    /\ UNCHANGED <<file, writes, baseline, watcher, updates, apply, held, decision,
                   crossed, coordinated>>

(* Any event reads the file again; what cannot be parsed is skipped. *)
ReadEvent ==
    /\ watcher = None
    /\ event /\ event' = FALSE
    /\ watcher' = IF file \in Malformed THEN None ELSE file
    /\ UNCHANGED <<file, armed, writes, losses, missed, baseline, updates, apply,
                   held, decision, crossed, coordinated>>

(* Mutant: the baseline stays the document of the start. *)
NewBaseline_Kept(d) == baseline

NewBaseline(d) == d

Emit ==
    /\ watcher # None
    /\ watcher' = None
    /\ IF watcher = baseline
       THEN UNCHANGED <<baseline, updates>>
       ELSE baseline' = NewBaseline(watcher) /\ updates' = Append(updates, watcher)
    /\ UNCHANGED <<source, apply, held, decision, crossed, coordinated>>

-----------------------------------------------------------------------------
(* The two paths. *)
Moves(p, to) == apply' = [apply EXCEPT ![p].pc = to]
Ended(p) == IF p = "watch" THEN "idle" ELSE "done"

Receive ==
    /\ apply["watch"].pc = "idle"
    /\ updates # <<>>
    /\ apply' = [apply EXCEPT !["watch"] = [pc |-> "schema", doc |-> Head(updates)]]
    /\ updates' = Tail(updates)
    /\ UNCHANGED <<source, baseline, watcher, held, decision, crossed, coordinated>>

(* reload-config loads the document, and load seeds the baseline of the    *)
(* watcher with it, whatever becomes of it.                                *)
Load(p) ==
    /\ apply[p].pc = "idle"
    /\ p \in Reloads
    /\ apply' = [apply EXCEPT ![p] =
           [pc |-> IF file \in Malformed THEN "done" ELSE "seed", doc |-> file]]
    /\ crossed' = (crossed \/ ~WatchIdle \/ Reloading)
    /\ UNCHANGED <<source, baseline, watcher, updates, held, decision, coordinated>>

Seed(p) ==
    /\ apply[p].pc = "seed"
    /\ baseline' = apply[p].doc
    /\ Moves(p, "schema")
    /\ UNCHANGED <<source, watcher, updates, held, decision, crossed, coordinated>>

-----------------------------------------------------------------------------
(* apply_reloaded_config. *)
ApplyFrame == UNCHANGED <<source, baseline, watcher, updates, crossed, coordinated>>

(* Mutant: a candidate that is refused keeps the lock. *)
LockAfterReject_Kept(p) == lock

LockAfterReject(p) == IF lock = p THEN Free ELSE lock

Rejects(p) ==
    /\ Moves(p, Ended(p))
    /\ errors' = apply[p].doc
    /\ lock' = LockAfterReject(p)
    /\ UNCHANGED <<snapshot, seen>>

(* The schema is checked before the lock is asked for. *)
CheckSchema(p) ==
    /\ apply[p].pc = "schema"
    /\ \/ /\ apply[p].doc \in Invalid
          /\ Rejects(p)
       \/ /\ apply[p].doc \notin Invalid
          /\ Moves(p, "lock")
          /\ UNCHANGED <<lock, snapshot, errors, seen>>
    /\ ApplyFrame /\ UNCHANGED <<held, runtime, broken>>

TakeLock(p) ==
    /\ apply[p].pc = "lock"
    /\ lock = Free /\ lock' = p
    /\ Moves(p, "validate")
    /\ ApplyFrame /\ UNCHANGED <<held, snapshot, runtime, errors, seen, broken>>

(* Mutant: the budget is that of the candidate. *)
Workers_Unbounded == Validators

Workers == IF Validators < Budget - held THEN Validators ELSE Budget - held

(* Each thread keeps its permit until it exits, which it does after it     *)
(* sent its results, or long after the deadline.  Without a thread every   *)
(* validator counts as late.                                               *)
Validate(p) ==
    /\ apply[p].pc = "validate"
    /\ held' = held + Workers
    /\ \/ /\ Workers > 0
          /\ Moves(p, "prepare")
          /\ UNCHANGED <<lock, snapshot, errors, seen>>
       \/ Rejects(p)
    /\ ApplyFrame /\ UNCHANGED <<runtime, broken>>

WorkerExits ==
    /\ held > 0
    /\ held' = held - 1
    /\ ApplyFrame /\ UNCHANGED <<apply, decision>>

(* The typed configuration is built, and the coordinator, if there is one, *)
(* prepares within the deadline; refusing leaves its runtime alone.        *)
Prepare(p) ==
    /\ apply[p].pc = "prepare"
    /\ \/ /\ Moves(p, IF coordinated THEN "commit" ELSE "store")
          /\ UNCHANGED <<lock, snapshot, errors, seen>>
       \/ Rejects(p)
    /\ ApplyFrame /\ UNCHANGED <<held, runtime, broken>>

(* Mutant: a failed commit is refused without a rollback. *)
AfterCommitFailed_Skip == "unrestored"

AfterCommitFailed == "rollback"

(* A commit that fails may have changed the runtime. *)
Commit(p) ==
    /\ apply[p].pc = "commit"
    /\ \/ Moves(p, "store") /\ runtime' = apply[p].doc
       \/ Moves(p, AfterCommitFailed) /\ runtime' \in {runtime, apply[p].doc}
    /\ ApplyFrame /\ UNCHANGED <<held, lock, snapshot, errors, seen, broken>>

Rollback(p) ==
    /\ apply[p].pc \in {"rollback", "unrestored"}
    /\ Rejects(p)
    /\ \/ apply[p].pc = "rollback" /\ runtime' = snapshot /\ UNCHANGED broken
       \/ apply[p].pc = "rollback" /\ broken' = TRUE /\ UNCHANGED runtime
       \/ apply[p].pc = "unrestored" /\ UNCHANGED <<runtime, broken>>
    /\ ApplyFrame /\ UNCHANGED held

Store(p) ==
    /\ apply[p].pc = "store"
    /\ snapshot' = apply[p].doc
    /\ errors' = None
    /\ lock' = Free
    /\ broken' = FALSE
    /\ Moves(p, "notify")
    /\ ApplyFrame /\ UNCHANGED <<held, runtime, seen>>

(* The listeners are told after the lock is free again. *)
Notify(p) ==
    /\ apply[p].pc = "notify"
    /\ seen' = apply[p].doc
    /\ Moves(p, Ended(p))
    /\ ApplyFrame /\ UNCHANGED <<held, lock, snapshot, runtime, errors, broken>>

ApplyStep(p) ==
    \/ CheckSchema(p)
    \/ TakeLock(p)
    \/ Validate(p)
    \/ Prepare(p)
    \/ Commit(p)
    \/ Rollback(p)
    \/ Store(p)
    \/ Notify(p)

Next ==
    \/ \E d \in Docs : Write(d)
    \/ Arm \/ LoseWatch
    \/ ReadEvent \/ Emit
    \/ Receive
    \/ \E p \in Reloads : Load(p) \/ Seed(p)
    \/ \E p \in Paths : ApplyStep(p)
    \/ WorkerExits

Spec == Init /\ [][Next]_vars

(* Application callbacks return, as their contract asks; a validator need  *)
(* not.                                                                    *)
FairSpec ==
    /\ Spec
    /\ WF_vars(ReadEvent) /\ WF_vars(Emit) /\ WF_vars(Receive)
    /\ \A p \in Paths : WF_vars(ApplyStep(p))

-----------------------------------------------------------------------------
Holding == {"validate", "prepare", "commit", "rollback", "store"}
Applying == Holding \union {"idle", "seed", "schema", "lock", "unrestored", "notify", "done"}

(* Types, and the bound of validator threads. *)
TypeOK ==
    /\ {file, baseline, snapshot, runtime, seen} \subseteq Docs
    /\ watcher \in (Docs \ Malformed) \union {None}
    /\ errors \in Docs \union {None}
    /\ updates \in Seq(Docs \ Malformed)
    /\ apply \in [Paths -> [pc : Applying, doc : Docs]]
    /\ lock \in Paths \union {Free}
    /\ held \in 0..Budget

(* The runtime of the coordinator runs the live configuration whenever no  *)
(* candidate is being applied, unless a rollback itself failed.            *)
RuntimeFollows == coordinated /\ lock = Free /\ ~broken => runtime = snapshot

(* Why it does: the path that holds the lock is the one between validation *)
(* and store, and where it is tells what the runtime runs.                 *)
LockHeld == \A p \in Paths : lock = p <=> apply[p].pc \in Holding

InStep == coordinated =>
    /\ lock = Free /\ ~broken => runtime = snapshot
    /\ \A p \in Paths :
          /\ apply[p].pc \in {"validate", "prepare", "commit"} /\ ~broken
                 => runtime = snapshot
          /\ apply[p].pc = "store" => runtime = apply[p].doc

Settled == WatchIdle /\ ~Reloading /\ armed /\ ~missed /\ ~crossed

(* Once everything has come to rest, the last parsed document was decided: *)
(* it is live, or the errors tell that it was refused; and that is the     *)
(* document of the file, unless that cannot be parsed; and the listeners   *)
(* were told what is live.  A change nobody watched, and a reload-config   *)
(* that crossed the watch path, are excepted: see the README.              *)
UpToDate == Settled =>
    /\ baseline = file \/ file \in Malformed
    /\ errors = baseline \/ (errors = None /\ snapshot = baseline)
    /\ seen = snapshot

(* Every emitted document is decided: no refused candidate leaves the      *)
(* apply lock behind, however many validators never return.                *)
UpdatesDecided == updates # <<>> ~> updates = <<>>
=============================================================================
