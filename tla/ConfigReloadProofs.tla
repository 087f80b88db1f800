-------------------------- MODULE ConfigReloadProofs --------------------------
(***************************************************************************)
(* Theorems about ConfigReload, for every set of documents, any number of  *)
(* reload-config calls, any budget of validator threads and any number of  *)
(* validators: its types and the budget, that the coordinator's runtime    *)
(* runs the live configuration whenever the apply lock is free, and that a *)
(* component at rest runs what its file says (section "Settled").          *)
(***************************************************************************)
EXTENDS ConfigReload, TLAPS

USE DEF None, Free

LEMMA PathNames == Free \notin Paths /\ "watch" \in Paths /\ Reloads \subseteq Paths
  BY ConfigReloadAssumption DEF Paths

(* Moving a path changes where it is, and nothing of the others. *)
LEMMA MovesTo ==
  ASSUME TypeOK, NEW p \in Paths, NEW to \in Applying, Moves(p, to)
  PROVE  /\ apply' \in [Paths -> [pc : Applying, doc : Docs]]
         /\ apply'[p].pc = to
         /\ \A q \in Paths : apply'[q].doc = apply[q].doc
         /\ \A q \in Paths \ {p} : apply'[q] = apply[q]
  BY DEF TypeOK, Moves

LEMMA EndedIsLocation == \A p \in Paths : Ended(p) \in Applying \ Holding
  BY DEF Ended, Applying, Holding

(* A validation takes what the budget has left, and no more. *)
LEMMA WorkersBounded ==
  ASSUME held \in 0..Budget
  PROVE  Workers \in Nat /\ held + Workers \in 0..Budget
  BY ConfigReloadAssumption DEF Workers

-----------------------------------------------------------------------------
LEMMA TypeInit == Init => TypeOK
  BY ConfigReloadAssumption DEF Init, TypeOK, Applying, Holding

LEMMA TypeRejects ==
  ASSUME TypeOK, NEW p \in Paths, Rejects(p)
  PROVE  /\ apply' \in [Paths -> [pc : Applying, doc : Docs]]
         /\ errors' \in Docs \union {None}
         /\ lock' \in Paths \union {Free}
         /\ UNCHANGED <<snapshot, seen>>
  <1>1. Moves(p, Ended(p)) /\ Ended(p) \in Applying
    BY EndedIsLocation DEF Rejects
  <1>2. apply' \in [Paths -> [pc : Applying, doc : Docs]]
    BY <1>1, MovesTo
  <1> QED
    BY <1>2 DEF Rejects, LockAfterReject, TypeOK

(* The steps outside apply_reloaded_config. *)
LEMMA TypeSource ==
  ASSUME TypeOK, \/ \E d \in Docs : Write(d)
                 \/ Arm \/ LoseWatch \/ ReadEvent \/ Emit \/ Receive
                 \/ \E p \in Reloads : Load(p) \/ Seed(p)
  PROVE  TypeOK'
  <1> USE DEF TypeOK
  <1>1. CASE \E d \in Docs : Write(d)
    BY <1>1 DEF Write, decision
  <1>2. CASE Arm
    BY <1>2 DEF Arm, decision
  <1>3. CASE LoseWatch
    BY <1>3 DEF LoseWatch, decision
  <1>4. CASE ReadEvent
    BY <1>4 DEF ReadEvent, decision
  <1>5. CASE Emit
    <2>1. watcher \in Docs \ Malformed /\ watcher' = None
      BY <1>5 DEF Emit
    <2>2. updates' \in Seq(Docs \ Malformed) /\ baseline' \in Docs
      BY <1>5, <2>1 DEF Emit, NewBaseline
    <2> QED
      BY <1>5, <2>1, <2>2 DEF Emit, source, decision
  <1>6. CASE Receive
    <2>1. Head(updates) \in Docs /\ updates' \in Seq(Docs \ Malformed)
      BY <1>6 DEF Receive
    <2>2. apply' \in [Paths -> [pc : Applying, doc : Docs]]
      BY <1>6, <2>1, PathNames DEF Receive, Applying
    <2> QED
      BY <1>6, <2>1, <2>2 DEF Receive, source, decision
  <1>7. ASSUME NEW p \in Reloads, Load(p)
        PROVE  TypeOK'
    <2>1. apply' \in [Paths -> [pc : Applying, doc : Docs]]
      BY <1>7, PathNames DEF Load, Applying
    <2> QED
      BY <1>7, <2>1 DEF Load, source, decision
  <1>8. ASSUME NEW p \in Reloads, Seed(p)
        PROVE  TypeOK'
    <2>1. p \in Paths /\ Moves(p, "schema") /\ "schema" \in Applying
      BY <1>8, PathNames DEF Seed, Applying
    <2>2. apply' \in [Paths -> [pc : Applying, doc : Docs]]
      BY <2>1, MovesTo
    <2> QED
      BY <1>8, <2>1, <2>2 DEF Seed, source, decision
  <1> QED
    BY <1>1, <1>2, <1>3, <1>4, <1>5, <1>6, <1>7, <1>8

LEMMA TypeApply ==
  ASSUME TypeOK, NEW p \in Paths, ApplyStep(p)
  PROVE  TypeOK'
  <1> DEFINE T == [Paths -> [pc : Applying, doc : Docs]]
  <1>1. CASE CheckSchema(p)
    <2>1. \/ Rejects(p)
          \/ Moves(p, "lock") /\ UNCHANGED <<lock, snapshot, errors, seen>>
      BY <1>1 DEF CheckSchema
    <2>2. "lock" \in Applying
      BY DEF Applying
    <2>3. /\ apply' \in T
          /\ errors' \in Docs \union {None} /\ lock' \in Paths \union {Free}
          /\ UNCHANGED <<snapshot, seen>>
      BY <2>1, <2>2, MovesTo, TypeRejects DEF TypeOK
    <2> QED
      BY <1>1, <2>3 DEF CheckSchema, ApplyFrame, source, TypeOK
  <1>2. CASE TakeLock(p)
    <2>1. Moves(p, "validate") /\ "validate" \in Applying
      BY <1>2 DEF TakeLock, Applying, Holding
    <2>2. apply' \in T
      BY <2>1, MovesTo
    <2> QED
      BY <1>2, <2>2 DEF TakeLock, ApplyFrame, source, TypeOK
  <1>3. CASE Validate(p)
    <2>1. held' \in 0..Budget
      BY <1>3, WorkersBounded DEF Validate, TypeOK
    <2>2. \/ Rejects(p)
          \/ Moves(p, "prepare") /\ UNCHANGED <<lock, snapshot, errors, seen>>
      BY <1>3 DEF Validate
    <2>3. "prepare" \in Applying
      BY DEF Applying, Holding
    <2>4. /\ apply' \in T
          /\ errors' \in Docs \union {None} /\ lock' \in Paths \union {Free}
          /\ UNCHANGED <<snapshot, seen>>
      BY <2>2, <2>3, MovesTo, TypeRejects DEF TypeOK
    <2> QED
      BY <1>3, <2>1, <2>4 DEF Validate, ApplyFrame, source, TypeOK
  <1>4. CASE Prepare(p)
    <2>1. \/ Rejects(p)
          \/ Moves(p, IF coordinated THEN "commit" ELSE "store")
             /\ UNCHANGED <<lock, snapshot, errors, seen>>
      BY <1>4 DEF Prepare
    <2>2. (IF coordinated THEN "commit" ELSE "store") \in Applying
      BY DEF Applying, Holding
    <2>3. /\ apply' \in T
          /\ errors' \in Docs \union {None} /\ lock' \in Paths \union {Free}
          /\ UNCHANGED <<snapshot, seen>>
      BY <2>1, <2>2, MovesTo, TypeRejects DEF TypeOK
    <2> QED
      BY <1>4, <2>3 DEF Prepare, ApplyFrame, source, TypeOK
  <1>5. CASE Commit(p)
    <2>1. Moves(p, "store") \/ Moves(p, "rollback")
      BY <1>5 DEF Commit, AfterCommitFailed
    <2>2. {"store", "rollback"} \subseteq Applying
      BY DEF Applying, Holding
    <2>3. apply' \in T
      BY <2>1, <2>2, MovesTo
    <2>4. runtime' \in Docs
      BY <1>5 DEF Commit, TypeOK
    <2> QED
      BY <1>5, <2>3, <2>4 DEF Commit, ApplyFrame, source, TypeOK
  <1>6. CASE Rollback(p)
    <2>1. /\ apply' \in T
          /\ errors' \in Docs \union {None} /\ lock' \in Paths \union {Free}
          /\ UNCHANGED <<snapshot, seen>>
      BY <1>6, TypeRejects DEF Rollback
    <2>2. runtime' \in Docs
      BY <1>6 DEF Rollback, TypeOK
    <2> QED
      BY <1>6, <2>1, <2>2 DEF Rollback, ApplyFrame, source, TypeOK
  <1>7. CASE Store(p)
    <2>1. Moves(p, "notify") /\ "notify" \in Applying
      BY <1>7 DEF Store, Applying
    <2>2. apply' \in T
      BY <2>1, MovesTo
    <2> QED
      BY <1>7, <2>2 DEF Store, ApplyFrame, source, TypeOK
  <1>8. CASE Notify(p)
    <2>1. Moves(p, Ended(p)) /\ Ended(p) \in Applying
      BY <1>8, EndedIsLocation DEF Notify
    <2>2. apply' \in T
      BY <2>1, MovesTo
    <2> QED
      BY <1>8, <2>2 DEF Notify, ApplyFrame, source, TypeOK
  <1> QED
    BY <1>1, <1>2, <1>3, <1>4, <1>5, <1>6, <1>7, <1>8 DEF ApplyStep

LEMMA TypeNext == TypeOK /\ [Next]_vars => TypeOK'
  <1> SUFFICES ASSUME TypeOK, [Next]_vars PROVE TypeOK'
    OBVIOUS
  <1>1. CASE UNCHANGED vars
    BY <1>1 DEF TypeOK, vars, source, decision
  <1>2. CASE WorkerExits
    BY <1>2, ConfigReloadAssumption DEF WorkerExits, ApplyFrame, decision, source, TypeOK
  <1> QED
    BY <1>1, <1>2, TypeSource, TypeApply DEF Next

(* Every variable keeps its type, documents that cannot be parsed are never *)
(* emitted, and validator threads stay within the budget of the process.    *)
THEOREM TypeCorrect == Spec => []TypeOK
  <1> QED
    BY TypeInit, TypeNext, PTL DEF Spec

-----------------------------------------------------------------------------
LEMMA HeldInit == Init => LockHeld
  BY PathNames DEF Init, LockHeld, Holding

(* A path that moves between two places on the same side of the lock       *)
(* leaves the owner as it is.                                              *)
LEMMA SameSide ==
  ASSUME TypeOK, LockHeld, NEW p \in Paths, NEW to \in Applying, Moves(p, to),
         UNCHANGED lock, apply[p].pc \in Holding <=> to \in Holding
  PROVE  LockHeld'
  <1> SUFFICES ASSUME NEW q \in Paths
               PROVE  lock' = q <=> apply'[q].pc \in Holding
    BY DEF LockHeld
  <1>1. CASE q = p
    BY <1>1, MovesTo DEF LockHeld
  <1>2. CASE q # p
    BY <1>2, MovesTo DEF LockHeld
  <1> QED
    BY <1>1, <1>2

(* Refusing a candidate gives the lock back, if it was held. *)
LEMMA RejectsHeld ==
  ASSUME TypeOK, LockHeld, NEW p \in Paths, Rejects(p)
  PROVE  LockHeld'
  <1>1. /\ Moves(p, Ended(p)) /\ Ended(p) \in Applying \ Holding
        /\ lock' = IF lock = p THEN Free ELSE lock
    BY EndedIsLocation DEF Rejects, LockAfterReject
  <1>2. CASE lock = p
    <2> SUFFICES ASSUME NEW q \in Paths
                 PROVE  lock' = q <=> apply'[q].pc \in Holding
      BY DEF LockHeld
    <2>1. lock' # q
      BY <1>1, <1>2, PathNames
    <2>2. apply'[q].pc \notin Holding
      <3>1. CASE q = p
        BY <3>1, <1>1, MovesTo
      <3>2. CASE q # p
        BY <3>2, <1>1, <1>2, MovesTo DEF LockHeld
      <3> QED
        BY <3>1, <3>2
    <2> QED
      BY <2>1, <2>2
  <1>3. CASE lock # p
    <2>1. apply[p].pc \notin Holding
      BY <1>3 DEF LockHeld
    <2> QED
      BY <1>1, <1>3, <2>1, SameSide
  <1> QED
    BY <1>2, <1>3

(* The steps outside apply_reloaded_config move paths that do not hold the *)
(* lock, to places where they do not.                                      *)
LEMMA SourceFacts ==
  ASSUME TypeOK, \/ \E d \in Docs : Write(d)
                 \/ Arm \/ LoseWatch \/ ReadEvent \/ Emit \/ Receive
                 \/ \E p \in Reloads : Load(p) \/ Seed(p)
  PROVE  /\ UNCHANGED <<decision, coordinated>>
         /\ \A q \in Paths : \/ apply'[q] = apply[q]
                             \/ apply[q].pc \notin Holding /\ apply'[q].pc \notin Holding
  <1>1. CASE \E d \in Docs : Write(d)
    BY <1>1 DEF Write
  <1>2. CASE Arm \/ LoseWatch \/ ReadEvent \/ Emit
    BY <1>2 DEF Arm, LoseWatch, ReadEvent, Emit
  <1>3. CASE Receive
    BY <1>3, PathNames DEF Receive, TypeOK, Holding
  <1>4. ASSUME NEW p \in Reloads, Load(p) \/ Seed(p)
        PROVE  /\ UNCHANGED <<decision, coordinated>>
               /\ \A q \in Paths :
                     \/ apply'[q] = apply[q]
                     \/ apply[q].pc \notin Holding /\ apply'[q].pc \notin Holding
    <2>1. CASE Load(p)
      BY <2>1, PathNames DEF Load, TypeOK, Holding
    <2>2. CASE Seed(p)
      BY <2>2, PathNames DEF Seed, Moves, TypeOK, Holding
    <2> QED
      BY <1>4, <2>1, <2>2
  <1> QED
    BY <1>1, <1>2, <1>3, <1>4

LEMMA HeldApply ==
  ASSUME TypeOK, LockHeld, NEW p \in Paths, ApplyStep(p)
  PROVE  LockHeld'
  <1>1. CASE CheckSchema(p)
    <2>1. CASE Rejects(p)
      BY <2>1, RejectsHeld
    <2>2. CASE apply[p].pc = "schema" /\ Moves(p, "lock") /\ UNCHANGED lock
      BY <2>2, SameSide DEF Applying, Holding
    <2> QED
      BY <1>1, <2>1, <2>2 DEF CheckSchema
  <1>2. CASE TakeLock(p)
    <2>1. /\ lock = Free /\ lock' = p /\ Moves(p, "validate")
          /\ "validate" \in Applying \intersect Holding
      BY <1>2 DEF TakeLock, Applying, Holding
    <2> SUFFICES ASSUME NEW q \in Paths
                 PROVE  lock' = q <=> apply'[q].pc \in Holding
      BY DEF LockHeld
    <2>2. CASE q = p
      BY <2>1, <2>2, MovesTo
    <2>3. CASE q # p
      <3>1. apply'[q] = apply[q]
        BY <2>1, <2>3, MovesTo
      <3>2. lock # q
        BY <2>1, PathNames
      <3> QED
        BY <2>1, <2>3, <3>1, <3>2 DEF LockHeld
    <2> QED
      BY <2>2, <2>3
  <1>3. CASE Validate(p)
    <2>1. CASE Rejects(p)
      BY <2>1, RejectsHeld
    <2>2. CASE apply[p].pc = "validate" /\ Moves(p, "prepare") /\ UNCHANGED lock
      BY <2>2, SameSide DEF Applying, Holding
    <2> QED
      BY <1>3, <2>1, <2>2 DEF Validate
  <1>4. CASE Prepare(p)
    <2>1. CASE Rejects(p)
      BY <2>1, RejectsHeld
    <2>2. CASE /\ apply[p].pc = "prepare" /\ UNCHANGED lock
               /\ Moves(p, IF coordinated THEN "commit" ELSE "store")
      BY <2>2, SameSide DEF Applying, Holding
    <2> QED
      BY <1>4, <2>1, <2>2 DEF Prepare
  <1>5. CASE Commit(p)
    BY <1>5, SameSide DEF Commit, AfterCommitFailed, Applying, Holding
  <1>6. CASE Rollback(p)
    BY <1>6, RejectsHeld DEF Rollback
  <1>7. CASE Store(p)
    <2>1. /\ apply[p].pc \in Holding /\ lock' = Free /\ Moves(p, "notify")
          /\ "notify" \in Applying \ Holding
      BY <1>7 DEF Store, Applying, Holding
    <2>2. lock = p
      BY <2>1 DEF LockHeld
    <2> SUFFICES ASSUME NEW q \in Paths
                 PROVE  lock' # q /\ apply'[q].pc \notin Holding
      BY DEF LockHeld
    <2>3. CASE q = p
      BY <2>1, <2>3, MovesTo, PathNames
    <2>4. CASE q # p
      BY <2>1, <2>2, <2>4, MovesTo, PathNames DEF LockHeld
    <2> QED
      BY <2>3, <2>4
  <1>8. CASE Notify(p)
    <2>1. /\ apply[p].pc \notin Holding /\ Moves(p, Ended(p)) /\ UNCHANGED lock
      BY <1>8 DEF Notify, Holding
    <2> QED
      BY <2>1, EndedIsLocation, SameSide
  <1> QED
    BY <1>1, <1>2, <1>3, <1>4, <1>5, <1>6, <1>7, <1>8 DEF ApplyStep

LEMMA HeldNext == TypeOK /\ LockHeld /\ [Next]_vars => LockHeld'
  <1> SUFFICES ASSUME TypeOK, LockHeld, [Next]_vars PROVE LockHeld'
    OBVIOUS
  <1>1. CASE UNCHANGED vars \/ WorkerExits
    BY <1>1 DEF LockHeld, vars, decision, WorkerExits
  <1>2. CASE \/ \E d \in Docs : Write(d)
             \/ Arm \/ LoseWatch \/ ReadEvent \/ Emit \/ Receive
             \/ \E p \in Reloads : Load(p) \/ Seed(p)
    BY <1>2, SourceFacts DEF LockHeld, decision
  <1> QED
    BY <1>1, <1>2, HeldApply DEF Next

(* The apply lock is held by one path at a time, and by the one that is    *)
(* between validation and store (apply_reloaded_config): whoever refuses,  *)
(* rolls back or stores gives it back.                                     *)
THEOREM LockHeldCorrect == Spec => []LockHeld
  <1> QED
    BY TypeInit, TypeNext, HeldInit, HeldNext, PTL DEF Spec

-----------------------------------------------------------------------------
LEMMA StepInit == Init => InStep
  BY DEF Init, InStep

(* When nothing that a path at work relies on changes, and the other paths *)
(* are not at work, what the runtime runs is still told by that path.      *)
LEMMA OnlyOwner ==
  ASSUME LockHeld, NEW p \in Paths, NEW q \in Paths, q # p, apply[p].pc \in Holding
  PROVE  apply[q].pc \notin Holding
  BY DEF LockHeld

(* A path that is refused before its commit leaves the runtime, and what   *)
(* the others rely on, as they are.                                        *)
LEMMA RejectsStep ==
  ASSUME TypeOK, LockHeld, InStep, NEW p \in Paths, Rejects(p),
         apply[p].pc \in {"schema", "validate", "prepare", "unrestored"},
         UNCHANGED <<runtime, broken, coordinated>>
  PROVE  InStep'
  <1>1. /\ Moves(p, Ended(p)) /\ Ended(p) \in Applying \ Holding
        /\ lock' = (IF lock = p THEN Free ELSE lock) /\ UNCHANGED snapshot
    BY EndedIsLocation DEF Rejects, LockAfterReject
  <1>2. \A q \in Paths : apply'[q] = apply[q] \/ apply'[q].pc \notin Holding
    BY <1>1, MovesTo
  <1>3. lock = p => apply[p].pc \in {"validate", "prepare"}
    BY DEF LockHeld, Holding
  <1> SUFFICES ASSUME coordinated
               PROVE  /\ lock' = Free /\ ~broken => runtime = snapshot
                      /\ \A q \in Paths :
                            /\ apply'[q].pc \in {"validate", "prepare", "commit"} /\ ~broken
                                   => runtime = snapshot
                            /\ apply'[q].pc = "store" => runtime = apply'[q].doc
    BY <1>1 DEF InStep
  <1>4. lock' = Free /\ ~broken => runtime = snapshot
    BY <1>1, <1>3 DEF InStep
  <1> QED
    BY <1>2, <1>4 DEF InStep, Holding

(* A path that moves and changes nothing else: it must know that the       *)
(* runtime runs the live configuration when it goes on towards a commit.   *)
LEMMA MoveStep ==
  ASSUME TypeOK, InStep, NEW p \in Paths, NEW to \in Applying, Moves(p, to),
         UNCHANGED <<lock, snapshot, runtime, broken, coordinated>>,
         coordinated => to # "store",
         coordinated /\ ~broken /\ to \in {"validate", "prepare", "commit"}
             => runtime = snapshot
  PROVE  InStep'
  <1>1. \A q \in Paths : apply'[q] = apply[q] \/ (q = p /\ apply'[q].pc = to)
    BY MovesTo
  <1> QED
    BY <1>1 DEF InStep

LEMMA StepApply ==
  ASSUME TypeOK, LockHeld, InStep, NEW p \in Paths, ApplyStep(p)
  PROVE  InStep'
  <1>0. UNCHANGED coordinated
    BY DEF ApplyStep, CheckSchema, TakeLock, Validate, Prepare, Commit, Rollback, Store,
           Notify, ApplyFrame
  <1>1. CASE CheckSchema(p)
    <2>1. apply[p].pc = "schema" /\ UNCHANGED <<runtime, broken>>
      BY <1>1 DEF CheckSchema
    <2>2. CASE Rejects(p)
      BY <1>0, <2>1, <2>2, RejectsStep
    <2>3. CASE Moves(p, "lock") /\ UNCHANGED <<lock, snapshot>>
      BY <1>0, <2>1, <2>3, MoveStep DEF Applying
    <2> QED
      BY <1>1, <2>2, <2>3 DEF CheckSchema
  <1>2. CASE TakeLock(p)
    <2>1. /\ lock = Free /\ lock' = p /\ Moves(p, "validate")
          /\ "validate" \in Applying /\ UNCHANGED <<snapshot, runtime, broken>>
      BY <1>2 DEF TakeLock, Applying, Holding
    <2>2. \A q \in Paths : apply'[q] = apply[q] \/ apply'[q].pc = "validate"
      BY <2>1, MovesTo
    <2> QED
      BY <1>0, <2>1, <2>2, PathNames DEF InStep
  <1>3. CASE Validate(p)
    <2>1. apply[p].pc = "validate" /\ UNCHANGED <<runtime, broken>>
      BY <1>3 DEF Validate
    <2>2. CASE Rejects(p)
      BY <1>0, <2>1, <2>2, RejectsStep
    <2>3. CASE Moves(p, "prepare") /\ UNCHANGED <<lock, snapshot>>
      <3>1. coordinated /\ ~broken => runtime = snapshot
        BY <2>1 DEF InStep
      <3> QED
        BY <1>0, <2>1, <2>3, <3>1, MoveStep DEF Applying, Holding
    <2> QED
      BY <1>3, <2>2, <2>3 DEF Validate
  <1>4. CASE Prepare(p)
    <2>1. apply[p].pc = "prepare" /\ UNCHANGED <<runtime, broken>>
      BY <1>4 DEF Prepare
    <2>2. CASE Rejects(p)
      BY <1>0, <2>1, <2>2, RejectsStep
    <2>3. CASE /\ Moves(p, IF coordinated THEN "commit" ELSE "store")
               /\ UNCHANGED <<lock, snapshot>>
      <3>1. coordinated /\ ~broken => runtime = snapshot
        BY <2>1 DEF InStep
      <3>2. CASE coordinated
        BY <1>0, <2>1, <2>3, <3>1, <3>2, MoveStep DEF Applying, Holding
      <3>3. CASE ~coordinated
        BY <1>0, <3>3 DEF InStep
      <3> QED
        BY <3>2, <3>3
    <2> QED
      BY <1>4, <2>2, <2>3 DEF Prepare
  <1>5. CASE Commit(p)
    <2>1. /\ apply[p].pc = "commit" /\ apply[p].pc \in Holding
          /\ UNCHANGED <<lock, snapshot, broken>>
          /\ \/ Moves(p, "store") /\ runtime' = apply[p].doc
             \/ Moves(p, "rollback")
      BY <1>5 DEF Commit, AfterCommitFailed, Holding
    <2>2. lock' # Free
      BY <2>1, PathNames DEF LockHeld
    <2>3. {"store", "rollback"} \subseteq Applying
      BY DEF Applying, Holding
    <2>4. \A q \in Paths \ {p} : apply'[q].pc \notin Holding
      BY <2>1, <2>3, MovesTo, OnlyOwner
    <2>5. \/ apply'[p].pc = "store" /\ runtime' = apply'[p].doc
          \/ apply'[p].pc = "rollback"
      BY <2>1, <2>3, MovesTo
    <2> QED
      BY <2>2, <2>4, <2>5 DEF InStep, Holding
  <1>6. CASE Rollback(p)
    <2>1. CASE apply[p].pc = "unrestored"
      BY <1>0, <1>6, <2>1, RejectsStep DEF Rollback
    <2>2. CASE apply[p].pc = "rollback"
      <3>1. /\ apply[p].pc \in Holding /\ UNCHANGED snapshot
            /\ Moves(p, Ended(p)) /\ Ended(p) \in Applying \ Holding
            /\ runtime' = snapshot \/ broken'
        BY <1>6, <2>2, EndedIsLocation DEF Rollback, Rejects, Holding
      <3>2. \A q \in Paths : apply'[q].pc \notin Holding
        BY <3>1, MovesTo, OnlyOwner
      <3> QED
        BY <3>1, <3>2 DEF InStep, Holding
    <2> QED
      BY <1>6, <2>1, <2>2 DEF Rollback
  <1>7. CASE Store(p)
    <2>1. /\ apply[p].pc = "store" /\ apply[p].pc \in Holding
          /\ snapshot' = apply[p].doc /\ UNCHANGED runtime
          /\ Moves(p, "notify") /\ "notify" \in Applying \ Holding
      BY <1>7 DEF Store, Applying, Holding
    <2>2. \A q \in Paths : apply'[q].pc \notin Holding
      BY <2>1, MovesTo, OnlyOwner
    <2>3. coordinated => runtime' = snapshot'
      BY <2>1 DEF InStep
    <2> QED
      BY <1>0, <2>2, <2>3 DEF InStep, Holding
  <1>8. CASE Notify(p)
    <2>1. /\ Moves(p, Ended(p))
          /\ UNCHANGED <<lock, snapshot, runtime, broken>>
      BY <1>8 DEF Notify
    <2>2. Ended(p) \in Applying /\ Ended(p) \notin {"validate", "prepare", "commit", "store"}
      BY EndedIsLocation DEF Holding
    <2> QED
      BY <1>0, <2>1, <2>2, MoveStep
  <1> QED
    BY <1>1, <1>2, <1>3, <1>4, <1>5, <1>6, <1>7, <1>8 DEF ApplyStep

LEMMA StepNext == TypeOK /\ LockHeld /\ InStep /\ [Next]_vars => InStep'
  <1> SUFFICES ASSUME TypeOK, LockHeld, InStep, [Next]_vars PROVE InStep'
    OBVIOUS
  <1>1. CASE UNCHANGED vars \/ WorkerExits
    BY <1>1 DEF InStep, vars, decision, WorkerExits, ApplyFrame
  <1>2. CASE \/ \E d \in Docs : Write(d)
             \/ Arm \/ LoseWatch \/ ReadEvent \/ Emit \/ Receive
             \/ \E p \in Reloads : Load(p) \/ Seed(p)
    BY <1>2, SourceFacts DEF InStep, decision, Holding
  <1> QED
    BY <1>1, <1>2, StepApply DEF Next

(* The coordinator's runtime runs the live configuration whenever no       *)
(* candidate is being applied, whatever validators, commits and rollbacks  *)
(* did before, unless the last rollback itself failed.                     *)
THEOREM RuntimeFollowsCorrect == Spec => []RuntimeFollows
  <1>1. InStep => RuntimeFollows
    BY DEF InStep, RuntimeFollows
  <1> QED
    BY <1>1, TypeInit, TypeNext, HeldInit, HeldNext, StepInit, StepNext, PTL DEF Spec

-----------------------------------------------------------------------------
(***************************************************************************)
(* Everything comes to rest where it should.  As long as no reload-config  *)
(* crossed the watch path, one path at a time is at work; the file's       *)
(* document is on its way or is the baseline; the baseline is the last     *)
(* document to be decided, or it is decided already; and the listeners     *)
(* know what is live but for the path that is about to tell them.          *)
(***************************************************************************)
Active(p) == apply[p].pc \notin {"idle", "done"}
Deciding(p) == apply[p].pc \in {"schema", "lock", "unrestored"} \union Holding
Done(d) == errors = d \/ (errors = None /\ snapshot = d)

Turns ==
    /\ \A p, q \in Paths : Active(p) /\ Active(q) => p = q
    /\ \A p \in Reloads : Active(p) => WatchIdle
    /\ \A p \in Reloads : apply[p].pc = "seed" => apply[p].doc = file

Fresh == ~missed /\ ~event =>
    file \in Malformed \/ watcher = file \/ (watcher = None /\ baseline = file)

Decided ==
    /\ updates # <<>> => updates[Len(updates)] = baseline
    /\ updates = <<>> => \A p \in Paths : Deciding(p) => apply[p].doc = baseline
    /\ updates = <<>> /\ (\A p \in Paths : ~Deciding(p)) => Done(baseline)

Told ==
    /\ \A p \in Paths : apply[p].pc = "notify" => apply[p].doc = snapshot
    /\ (\A p \in Paths : apply[p].pc # "notify") => seen = snapshot

SettleInv == crossed \/ (Turns /\ Fresh /\ Decided /\ Told)

LEMMA SettleInit == Init => SettleInv
  <1> SUFFICES ASSUME Init PROVE SettleInv
    OBVIOUS
  <1>1. \A p \in Paths : apply[p].pc = "idle"
    BY DEF Init
  <1>2. Turns
    BY <1>1, PathNames DEF Turns, Active
  <1>3. Fresh /\ Decided /\ Told
    BY <1>1 DEF Init, Fresh, Decided, Done, Told
  <1> QED
    BY <1>2, <1>3 DEF SettleInv

(* A path that is at work has the turn, and no other becomes active. *)
LEMMA ApplyTurns ==
  ASSUME Turns, Fresh, NEW p \in Paths, Active(p), apply'[p].pc # "seed",
         \A q \in Paths : q # p => apply'[q] = apply[q],
         UNCHANGED <<file, event, missed, watcher, updates, baseline>>
  PROVE  Turns' /\ Fresh'
  <1>1. Fresh'
    BY DEF Fresh
  <1>2. \A q \in Paths : Active(q)' => q = p
    BY DEF Turns, Active
  <1>3. ASSUME NEW q \in Reloads, Active(q)' PROVE WatchIdle'
    <2>1. q = p /\ WatchIdle
      BY <1>2, <1>3, PathNames DEF Turns
    <2>2. p # "watch" /\ apply'["watch"] = apply["watch"]
      BY <1>3, <2>1, ConfigReloadAssumption, PathNames
    <2> QED
      BY <2>1, <2>2 DEF WatchIdle
  <1>4. \A q \in Reloads : apply'[q].pc = "seed" => apply'[q].doc = file'
    BY PathNames DEF Turns
  <1> QED
    BY <1>1, <1>2, <1>3, <1>4 DEF Turns

(* A candidate that is refused is decided: the errors are about it. *)
LEMMA RejectsSettles ==
  ASSUME TypeOK, ~crossed, SettleInv, NEW p \in Paths, Deciding(p), Rejects(p), ApplyFrame
  PROVE  SettleInv'
  <1>1. /\ Moves(p, Ended(p)) /\ Ended(p) \in Applying \ Holding
        /\ errors' = apply[p].doc /\ UNCHANGED <<snapshot, seen>>
    BY EndedIsLocation DEF Rejects
  <1>2. Ended(p) \in {"idle", "done"}
    BY DEF Ended
  <1>3. /\ apply'[p].pc \in {"idle", "done"}
        /\ \A q \in Paths : q # p => apply'[q] = apply[q]
    BY <1>1, <1>2, MovesTo
  <1>4. Turns /\ Fresh /\ Decided /\ Told /\ Active(p) /\ apply[p].pc # "notify"
    BY DEF SettleInv, Deciding, Active, Holding
  <1>5. UNCHANGED <<file, event, missed, watcher, updates, baseline, crossed>>
    BY DEF ApplyFrame, source
  <1>6. Turns' /\ Fresh'
    BY <1>3, <1>4, <1>5, ApplyTurns
  <1>7. \A q \in Paths : ~Deciding(q)' /\ apply'[q].pc # "notify" /\ (q # p => ~Active(q))
    BY <1>3, <1>4 DEF Turns, Active, Deciding, Holding
  <1>8. updates = <<>> => apply[p].doc = baseline
    BY <1>4 DEF Decided
  <1>9. Decided'
    BY <1>1, <1>4, <1>5, <1>7, <1>8 DEF Decided, Done
  <1>10. \A q \in Paths : apply[q].pc # "notify"
    BY <1>4, <1>7 DEF Active
  <1>11. Told'
    BY <1>1, <1>4, <1>7, <1>10 DEF Told
  <1> QED
    BY <1>6, <1>9, <1>11 DEF SettleInv

(* A candidate that goes on is still to be decided. *)
LEMMA MovesSettles ==
  ASSUME TypeOK, ~crossed, SettleInv, NEW p \in Paths, Deciding(p), NEW to \in Applying,
         Moves(p, to), to \in {"lock", "unrestored"} \union Holding,
         ApplyFrame, UNCHANGED <<snapshot, errors, seen>>
  PROVE  SettleInv'
  <1>1. /\ apply'[p].pc = to /\ apply'[p].doc = apply[p].doc
        /\ \A q \in Paths : q # p => apply'[q] = apply[q]
    BY MovesTo
  <1>2. Turns /\ Fresh /\ Decided /\ Told /\ Active(p) /\ apply[p].pc # "notify"
    BY DEF SettleInv, Deciding, Active, Holding
  <1>3. UNCHANGED <<file, event, missed, watcher, updates, baseline, crossed>>
    BY DEF ApplyFrame, source
  <1>4. Turns' /\ Fresh'
    BY <1>1, <1>2, <1>3, ApplyTurns DEF Holding
  <1>5. Deciding(p)' /\ apply'[p].pc # "notify"
    BY <1>1 DEF Deciding, Holding
  <1>6. \A q \in Paths : q # p => (Deciding(q)' <=> Deciding(q)) /\ apply'[q] = apply[q]
    BY <1>1 DEF Deciding
  <1>7. Decided'
    BY <1>1, <1>2, <1>3, <1>5, <1>6 DEF Decided
  <1>8. Told'
    BY <1>1, <1>2, <1>5 DEF Told
  <1> QED
    BY <1>4, <1>7, <1>8 DEF SettleInv

LEMMA SettleApply ==
  ASSUME TypeOK, ~crossed, SettleInv, NEW p \in Paths, ApplyStep(p)
  PROVE  SettleInv'
  <1>0. Turns /\ Fresh /\ Decided /\ Told
    BY DEF SettleInv
  <1>1. CASE CheckSchema(p)
    <2>1. Deciding(p) /\ ApplyFrame
      BY <1>1 DEF CheckSchema, Deciding
    <2>2. \/ Rejects(p)
          \/ Moves(p, "lock") /\ UNCHANGED <<snapshot, errors, seen>>
      BY <1>1 DEF CheckSchema
    <2> QED
      BY <2>1, <2>2, RejectsSettles, MovesSettles DEF Applying
  <1>2. CASE TakeLock(p)
    <2>1. /\ Deciding(p) /\ ApplyFrame /\ Moves(p, "validate")
          /\ UNCHANGED <<snapshot, errors, seen>>
      BY <1>2 DEF TakeLock, Deciding
    <2> QED
      BY <2>1, MovesSettles DEF Applying, Holding
  <1>3. CASE Validate(p)
    <2>1. Deciding(p) /\ ApplyFrame
      BY <1>3 DEF Validate, Deciding, Holding
    <2>2. \/ Rejects(p)
          \/ Moves(p, "prepare") /\ UNCHANGED <<snapshot, errors, seen>>
      BY <1>3 DEF Validate
    <2> QED
      BY <2>1, <2>2, RejectsSettles, MovesSettles DEF Applying, Holding
  <1>4. CASE Prepare(p)
    <2>1. Deciding(p) /\ ApplyFrame
      BY <1>4 DEF Prepare, Deciding, Holding
    <2>2. \/ Rejects(p)
          \/ \E to \in {"commit", "store"} :
                Moves(p, to) /\ UNCHANGED <<snapshot, errors, seen>>
      BY <1>4 DEF Prepare
    <2> QED
      BY <2>1, <2>2, RejectsSettles, MovesSettles DEF Applying, Holding
  <1>5. CASE Commit(p)
    <2>1. Deciding(p) /\ ApplyFrame /\ UNCHANGED <<snapshot, errors, seen>>
      BY <1>5 DEF Commit, Deciding, Holding
    <2>2. \E to \in {"store", "rollback"} : Moves(p, to)
      BY <1>5 DEF Commit, AfterCommitFailed
    <2> QED
      BY <2>1, <2>2, MovesSettles DEF Applying, Holding
  <1>6. CASE Rollback(p)
    <2>1. Deciding(p) /\ ApplyFrame /\ Rejects(p)
      BY <1>6 DEF Rollback, Deciding, Holding
    <2> QED
      BY <2>1, RejectsSettles
  <1>7. CASE Store(p)
    <2>1. /\ Deciding(p) /\ Active(p) /\ ApplyFrame /\ Moves(p, "notify")
          /\ snapshot' = apply[p].doc /\ errors' = None
      BY <1>7 DEF Store, Deciding, Active, Holding
    <2>2. /\ apply'[p].pc = "notify" /\ apply'[p].doc = apply[p].doc
          /\ \A q \in Paths : q # p => apply'[q] = apply[q]
      BY <2>1, MovesTo DEF Applying
    <2>3. UNCHANGED <<file, event, missed, watcher, updates, baseline, crossed>>
      BY <2>1 DEF ApplyFrame, source
    <2>4. Turns' /\ Fresh'
      BY <1>0, <2>1, <2>2, <2>3, ApplyTurns
    <2>5. \A q \in Paths : ~Deciding(q)' /\ (q # p => apply'[q].pc # "notify")
      BY <1>0, <2>1, <2>2 DEF Turns, Active, Deciding, Holding
    <2>6. updates = <<>> => apply[p].doc = baseline
      BY <1>0, <2>1 DEF Decided
    <2>7. Decided'
      BY <1>0, <2>1, <2>3, <2>5, <2>6 DEF Decided, Done
    <2>8. Told'
      BY <2>1, <2>2, <2>5 DEF Told
    <2> QED
      BY <2>4, <2>7, <2>8 DEF SettleInv
  <1>8. CASE Notify(p)
    <2>1. /\ Active(p) /\ ApplyFrame /\ Moves(p, Ended(p)) /\ apply[p].pc = "notify"
          /\ UNCHANGED <<snapshot, errors>> /\ seen' = apply[p].doc
      BY <1>8 DEF Notify, Active
    <2>2. Ended(p) \in {"idle", "done"} /\ Ended(p) \in Applying
      BY EndedIsLocation DEF Ended
    <2>3. /\ apply'[p].pc \in {"idle", "done"}
          /\ \A q \in Paths : q # p => apply'[q] = apply[q]
      BY <2>1, <2>2, MovesTo
    <2>4. UNCHANGED <<file, event, missed, watcher, updates, baseline, crossed>>
      BY <2>1 DEF ApplyFrame, source
    <2>5. Turns' /\ Fresh'
      BY <1>0, <2>1, <2>3, <2>4, ApplyTurns
    <2>6. \A q \in Paths : ~Deciding(q) /\ ~Deciding(q)' /\ apply'[q].pc # "notify"
      BY <1>0, <2>1, <2>3 DEF Turns, Active, Deciding, Holding
    <2>7. Decided'
      BY <1>0, <2>1, <2>4, <2>6 DEF Decided, Done
    <2>8. Told'
      BY <1>0, <2>1, <2>6 DEF Told
    <2> QED
      BY <2>5, <2>7, <2>8 DEF SettleInv
  <1> QED
    BY <1>1, <1>2, <1>3, <1>4, <1>5, <1>6, <1>7, <1>8 DEF ApplyStep

(* The file and the watcher. *)
LEMMA SettleWatcher ==
  ASSUME TypeOK, ~crossed, SettleInv, ~crossed',
         (\E d \in Docs : Write(d)) \/ Arm \/ LoseWatch \/ ReadEvent \/ Emit
  PROVE  SettleInv'
  <1>0. Turns /\ Fresh /\ Decided /\ Told /\ UNCHANGED <<apply, snapshot, errors, seen>>
    BY DEF SettleInv, Write, Arm, LoseWatch, ReadEvent, Emit, decision
  <1>1. Told'
    BY <1>0 DEF Told
  <1>2. ASSUME UNCHANGED <<baseline, updates>>
        PROVE  Decided'
    BY <1>0, <1>2 DEF Decided, Done, Deciding
  <1>3. \A p \in Paths : (Active(p)' <=> Active(p)) /\ (Deciding(p)' <=> Deciding(p))
    BY <1>0 DEF Active, Deciding
  <1>4. \A p \in Reloads : ~Active(p) => apply[p].pc # "seed"
    BY DEF Active
  <1>5. CASE \E d \in Docs : Write(d)
    <2>1. /\ UNCHANGED <<baseline, updates>> /\ event' = armed /\ missed' = ~armed
          /\ ~Reloading
      BY <1>5 DEF Write
    <2>2. \A p \in Reloads : ~Active(p)
      BY <2>1 DEF Reloading, Active
    <2>3. Turns'
      BY <1>0, <1>3, <1>4, <2>2, PathNames DEF Turns
    <2>4. Fresh'
      BY <2>1 DEF Fresh
    <2> QED
      BY <1>1, <1>2, <2>1, <2>3, <2>4 DEF SettleInv
  <1>6. CASE Arm
    <2>1. UNCHANGED <<file, event, missed, baseline, updates, watcher>>
      BY <1>6 DEF Arm
    <2>2. Turns' /\ Fresh'
      BY <1>0, <1>3, <2>1, PathNames DEF Turns, Fresh, WatchIdle
    <2> QED
      BY <1>1, <1>2, <2>1, <2>2 DEF SettleInv
  <1>7. CASE LoseWatch
    <2>1. UNCHANGED <<file, baseline, updates, watcher>> /\ event' = FALSE
          /\ missed' = (missed \/ event)
      BY <1>7 DEF LoseWatch
    <2>2. Turns'
      BY <1>0, <1>3, <2>1, PathNames DEF Turns, WatchIdle
    <2>3. Fresh'
      BY <1>0, <2>1 DEF Fresh
    <2> QED
      BY <1>1, <1>2, <2>1, <2>2, <2>3 DEF SettleInv
  <1>8. CASE ReadEvent
    <2>1. /\ UNCHANGED <<file, missed, baseline, updates>> /\ watcher = None /\ event
          /\ event' = FALSE /\ watcher' = IF file \in Malformed THEN None ELSE file
      BY <1>8 DEF ReadEvent
    <2>2. \A p \in Reloads : ~Active(p)
      BY <1>0, <2>1 DEF Turns, WatchIdle
    <2>3. Turns'
      BY <1>0, <1>3, <1>4, <2>2, PathNames DEF Turns
    <2>4. Fresh'
      BY <2>1 DEF Fresh
    <2> QED
      BY <1>1, <1>2, <2>1, <2>3, <2>4 DEF SettleInv
  <1>9. CASE Emit
    <2>1. /\ UNCHANGED <<file, event, missed>> /\ watcher # None /\ watcher' = None
          /\ IF watcher = baseline
             THEN UNCHANGED <<baseline, updates>>
             ELSE baseline' = watcher /\ updates' = Append(updates, watcher)
      BY <1>9 DEF Emit, source, NewBaseline
    <2>2. \A p \in Reloads : ~Active(p)
      BY <1>0, <2>1 DEF Turns, WatchIdle
    <2>3. Turns'
      BY <1>0, <1>3, <1>4, <2>2, PathNames DEF Turns
    <2>4. Fresh'
      BY <1>0, <2>1 DEF Fresh
    <2>5. Decided'
      <3>1. CASE watcher = baseline
        BY <1>2, <2>1, <3>1
      <3>2. CASE watcher # baseline
        <4>1. /\ updates' = Append(updates, watcher) /\ baseline' = watcher
              /\ updates \in Seq(Docs \ Malformed)
          BY <2>1, <3>2 DEF TypeOK
        <4>2. updates' # <<>> /\ updates'[Len(updates')] = watcher
          BY <4>1
        <4> QED
          BY <4>1, <4>2 DEF Decided
      <3> QED
        BY <3>1, <3>2
    <2> QED
      BY <1>1, <2>3, <2>4, <2>5 DEF SettleInv
  <1> QED
    BY <1>5, <1>6, <1>7, <1>8, <1>9

(* The watch task and reload-config take up a document. *)
LEMMA SettleTake ==
  ASSUME TypeOK, ~crossed, SettleInv, ~crossed', Receive \/ \E p \in Reloads : Load(p) \/ Seed(p)
  PROVE  SettleInv'
  <1>0. Turns /\ Fresh /\ Decided /\ Told
    BY DEF SettleInv
  <1>1. CASE Receive
    <2> DEFINE w == "watch"
    <2>1. /\ apply[w].pc = "idle" /\ updates # <<>> /\ updates' = Tail(updates)
          /\ apply' = [apply EXCEPT ![w] = [pc |-> "schema", doc |-> Head(updates)]]
          /\ UNCHANGED <<file, event, missed, baseline, watcher, snapshot, errors, seen>>
      BY <1>1 DEF Receive, source, decision
    <2>2. /\ apply'[w] = [pc |-> "schema", doc |-> Head(updates)] /\ w \in Paths
          /\ \A q \in Paths : q # w => apply'[q] = apply[q]
      BY <2>1, PathNames DEF TypeOK
    <2>3. \A p \in Reloads : ~Active(p)
      BY <1>0, <2>1 DEF Turns, WatchIdle
    <2>4. \A q \in Paths : q # w => q \in Reloads /\ ~Active(q)'
      BY <2>2, <2>3 DEF Paths, Active
    <2>5. \A p \in Reloads : p # w
      BY ConfigReloadAssumption
    <2>6. Turns'
      BY <2>4, <2>5, PathNames DEF Turns, Active
    <2>7. Fresh'
      BY <1>0, <2>1 DEF Fresh
    <2>8. /\ updates' # <<>> => updates'[Len(updates')] = updates[Len(updates)]
          /\ updates' = <<>> => Head(updates) = updates[Len(updates)]
      <3>1. updates \in Seq(Docs \ Malformed) /\ Len(updates) \in Nat \ {0}
        BY <2>1 DEF TypeOK
      <3>2. Len(updates') = Len(updates) - 1 /\ Head(updates) = updates[1]
        BY <2>1, <3>1
      <3>3. \A i \in 1..Len(updates') : updates'[i] = updates[i + 1]
        BY <2>1, <3>1, <3>2
      <3>4. updates' = <<>> <=> Len(updates) = 1
        <4>1. updates' \in Seq(Docs \ Malformed)
          BY <2>1, <3>1
        <4>2. updates' = <<>> <=> Len(updates') = 0
          BY <4>1
        <4> QED
          BY <3>1, <3>2, <4>2
      <3>5. ASSUME updates' # <<>> PROVE updates'[Len(updates')] = updates[Len(updates)]
        <4>1. Len(updates') \in 1..Len(updates')
          BY <3>1, <3>2, <3>4, <3>5
        <4> QED
          BY <3>1, <3>2, <3>3, <4>1
      <3> QED
        BY <3>2, <3>4, <3>5
    <2>9. Deciding(w)' /\ \A q \in Paths : q # w => ~Deciding(q)'
      BY <2>2, <2>4 DEF Deciding, Active, Holding
    <2>10. Decided'
      BY <1>0, <2>1, <2>2, <2>8, <2>9 DEF Decided
    <2>11. Told'
      BY <1>0, <2>1, <2>2 DEF Told
    <2> QED
      BY <2>6, <2>7, <2>10, <2>11 DEF SettleInv
  <1>2. ASSUME NEW p \in Reloads, Load(p)
        PROVE  SettleInv'
    <2>1. p \in Paths /\ p # "watch" /\ "watch" \in Paths
      BY <1>2, PathNames, ConfigReloadAssumption
    <2>2. /\ apply[p].pc = "idle" /\ WatchIdle /\ ~Reloading
          /\ apply' = [apply EXCEPT ![p] =
                [pc |-> IF file \in Malformed THEN "done" ELSE "seed", doc |-> file]]
          /\ UNCHANGED <<file, event, missed, baseline, watcher, updates, snapshot,
                         errors, seen>>
      BY <1>2 DEF Load, source, decision
    <2>3. /\ apply'[p].pc \in {"done", "seed"} /\ apply'[p].doc = file
          /\ \A q \in Paths : q # p => apply'[q] = apply[q]
      BY <2>1, <2>2 DEF TypeOK
    <2>4. \A q \in Paths : ~Active(q)
      BY <2>2 DEF Reloading, Active, WatchIdle, Paths
    <2>5. WatchIdle'
      BY <2>1, <2>2, <2>3 DEF WatchIdle
    <2>6. Turns'
      BY <2>2, <2>3, <2>4, <2>5, PathNames DEF Turns, Active
    <2>7. Fresh'
      BY <1>0, <2>2 DEF Fresh
    <2>8. \A q \in Paths : ~Deciding(q) /\ ~Deciding(q)'
                           /\ apply[q].pc # "notify" /\ apply'[q].pc # "notify"
      BY <2>3, <2>4 DEF Deciding, Active, Holding
    <2>9. Decided' /\ Told'
      BY <1>0, <2>2, <2>8 DEF Decided, Done, Told
    <2> QED
      BY <2>6, <2>7, <2>9 DEF SettleInv
  <1>3. ASSUME NEW p \in Reloads, Seed(p)
        PROVE  SettleInv'
    <2>1. p \in Paths /\ p # "watch" /\ "watch" \in Paths
      BY <1>3, PathNames, ConfigReloadAssumption
    <2>2. /\ apply[p].pc = "seed" /\ baseline' = apply[p].doc /\ Moves(p, "schema")
          /\ UNCHANGED <<file, event, missed, watcher, updates, snapshot, errors, seen>>
      BY <1>3 DEF Seed, source, decision
    <2>3. /\ apply'[p].pc = "schema" /\ apply'[p].doc = apply[p].doc
          /\ \A q \in Paths : q # p => apply'[q] = apply[q]
      BY <2>1, <2>2, MovesTo DEF Applying
    <2>4. Active(p) /\ WatchIdle /\ apply[p].doc = file
      BY <1>0, <1>3, <2>2 DEF Turns, Active
    <2>5. \A q \in Paths : q # p => ~Active(q)
      BY <1>0, <2>1, <2>4 DEF Turns
    <2>6. WatchIdle'
      BY <2>1, <2>2, <2>3, <2>4 DEF WatchIdle
    <2>7. Turns'
      BY <2>2, <2>3, <2>5, <2>6, PathNames DEF Turns, Active
    <2>8. Fresh'
      BY <2>2, <2>4 DEF Fresh, WatchIdle
    <2>9. updates' = <<>> /\ Deciding(p)' /\ \A q \in Paths : q # p => ~Deciding(q)'
      BY <2>2, <2>3, <2>4, <2>5 DEF WatchIdle, Deciding, Active, Holding
    <2>10. Decided'
      BY <2>1, <2>2, <2>3, <2>9 DEF Decided
    <2>11. \A q \in Paths : apply[q].pc # "notify" /\ apply'[q].pc # "notify"
      BY <2>2, <2>3, <2>5 DEF Active
    <2>12. Told'
      BY <1>0, <2>2, <2>11 DEF Told
    <2> QED
      BY <2>7, <2>8, <2>10, <2>12 DEF SettleInv
  <1> QED
    BY <1>1, <1>2, <1>3

LEMMA SettleNext == TypeOK /\ SettleInv /\ [Next]_vars => SettleInv'
  <1> SUFFICES ASSUME TypeOK, SettleInv, [Next]_vars PROVE SettleInv'
    OBVIOUS
  <1>1. CASE crossed \/ crossed'
    <2>1. crossed => crossed'
      BY DEF Next, Write, Arm, LoseWatch, ReadEvent, Emit, Receive, Load, Seed, ApplyStep,
             CheckSchema, TakeLock, Validate, Prepare, Commit, Rollback, Store, Notify,
             WorkerExits, ApplyFrame, vars
    <2> QED
      BY <1>1, <2>1 DEF SettleInv
  <1>2. CASE ~crossed /\ ~crossed'
    <2>1. CASE UNCHANGED vars \/ WorkerExits
      <3>1. UNCHANGED <<file, event, missed, watcher, updates, baseline, apply, snapshot,
                        errors, seen, crossed>>
        BY <2>1 DEF vars, source, decision, WorkerExits, ApplyFrame
      <3>2. Turns' /\ Fresh'
        BY <1>2, <3>1 DEF SettleInv, Turns, Fresh, Active, WatchIdle
      <3>3. Decided' /\ Told'
        BY <1>2, <3>1 DEF SettleInv, Decided, Told, Deciding, Done
      <3> QED
        BY <3>2, <3>3 DEF SettleInv
    <2> QED
      BY <1>2, <2>1, SettleApply, SettleWatcher, SettleTake DEF Next
  <1> QED
    BY <1>1, <1>2

(* When everything has come to rest, the document of the file was decided  *)
(* unless it cannot be parsed: it is live and the listeners know it, or    *)
(* the errors tell that it was refused; but for a change nobody watched    *)
(* and a reload-config that crossed the watch path (lib.rs, configmap.rs). *)
THEOREM UpToDateCorrect == Spec => []UpToDate
  <1>1. TypeOK /\ SettleInv => UpToDate
    <2> SUFFICES ASSUME TypeOK, SettleInv, Settled PROVE UpToDate
      BY DEF UpToDate
    <2>1. /\ Turns /\ Fresh /\ Decided /\ Told /\ ~event /\ ~missed /\ updates = <<>>
          /\ watcher = None
      BY DEF SettleInv, Settled, WatchIdle
    <2>2. \A p \in Paths : apply[p].pc \in {"idle", "done"}
      BY DEF Settled, WatchIdle, Reloading, Paths
    <2>3. file # None
      BY ConfigReloadAssumption DEF TypeOK
    <2>4. baseline = file \/ file \in Malformed
      BY <2>1, <2>3 DEF Fresh
    <2>5. Done(baseline)
      BY <2>1, <2>2 DEF Decided, Deciding, Holding
    <2>6. seen = snapshot
      BY <2>1, <2>2 DEF Told
    <2> QED
      BY <2>4, <2>5, <2>6 DEF UpToDate, Done
  <1> QED
    BY <1>1, TypeInit, TypeNext, SettleInit, SettleNext, PTL DEF Spec
=============================================================================
