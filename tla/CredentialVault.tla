-------------------------- MODULE CredentialVault --------------------------
(***************************************************************************)
(* The credential vault of the Rust library: one encrypted file shared by  *)
(* the component processes of a device (credentials/vault.rs), the service *)
(* every caller goes through (credentials/service.rs) and the engine that  *)
(* copies rotated secrets from a central store (credentials/sync.rs).      *)
(* A process keeps the secrets in memory behind a mutex, re-reads the file *)
(* when its stamp changed, and rewrites the whole file under a lock file   *)
(* held only for the write.  A thread is in the mutex in every pc but      *)
(* "idle" and "fetched".                                                   *)
(***************************************************************************)
EXTENDS Naturals, Sequences, FiniteSets, SequencesExt

CONSTANTS
    Users, Syncers,     \* caller threads; threads that run sync passes
    Refresher,          \* the syncer that is the engine's own thread
    Processes, ProcOf,  \* the process of each thread
    Names, Synced,      \* the secrets; the one the central store has
    Keep,               \* keep_versions
    None,
    MaxCentral,         \* bound: rotations of the central secret
    MaxPuts,            \* bound: put and delete calls
    MaxFaults           \* bound: failed saves and process crashes together

Threads == Users \cup Syncers

ASSUME VaultAssumption ==
    /\ Refresher \in Syncers /\ Synced \in Names
    /\ ProcOf \in [Threads -> Processes]
    /\ Keep \in Nat \ {0}
    /\ MaxCentral \in Nat \ {0} /\ {MaxPuts, MaxFaults} \subseteq Nat

VARIABLES
    file,     \* the vault file: its vault id, secrets and stamp (0: no file)
    vault,    \* per process: the open LocalVault
    task,     \* per thread: the call it is in
    central,  \* the current version id of the central secret
    used,     \* how much of each bound is used
    acked,    \* history: the versions put returns Ok for, not deleted
    late,     \* history: the processes that hold a stamp newer than their contents
    raced     \* history: two processes overlapped in the vault

vars == <<file, vault, task, central, used, acked, late, raced>>

Idle == [pc |-> "idle", name |-> None, got |-> 0, seen |-> 0, entry |-> None]
Empty == [n \in Names |-> <<>>]
Closed == [open |-> FALSE, id |-> None, secrets |-> Empty, stamp |-> 0,
           dirty |-> FALSE]

Init ==
    /\ file = [id |-> None, secrets |-> Empty, stamp |-> 0]
    /\ vault = [p \in Processes |-> Closed]
    /\ task = [t \in Threads |-> Idle]
    /\ central = 1
    /\ used = [puts |-> 0, faults |-> 0, entries |-> 0]
    /\ acked = {} /\ late = {}
    /\ raced = FALSE

At(t, pc) == task[t].pc = pc
InMutex(p) == \E t \in Threads : ProcOf[t] = p /\ task[t].pc \notin {"idle", "fetched"}
Leave(t) == task' = [task EXCEPT ![t] = Idle]

LatestCentral(versions) == IF versions = <<>> THEN 0 ELSE Last(versions).central

(***************************************************************************)
(* A process opens the vault: it reads the file and then takes its stamp,  *)
(* or saves a new vault with an id and key of its own when there is none.  *)
(***************************************************************************)
Open(t) ==
    LET p == ProcOf[t]
        new == file.stamp = 0
    IN  /\ ~vault[p].open /\ ~InMutex(p) /\ At(t, "idle")
        /\ vault' = [vault EXCEPT ![p] = [@ EXCEPT !.id = IF new THEN p ELSE file.id,
                                                  !.secrets = file.secrets]]
        /\ task' = [task EXCEPT ![t] = [Idle EXCEPT !.pc = IF new THEN "save" ELSE "stamp",
                                                   !.seen = file.stamp]]
        /\ UNCHANGED <<file, central, used, acked, late, raced>>

(* A sync pass asks the central store, outside the mutex. *)
Fetch(t) ==
    /\ t \in Syncers /\ At(t, "idle") /\ vault[ProcOf[t]].open
    /\ task' = [task EXCEPT ![t] = [Idle EXCEPT !.pc = "fetched", !.got = central]]
    /\ UNCHANGED <<file, vault, central, used, acked, late, raced>>

(* The central store rotates the secret. *)
Rotate ==
    /\ central < MaxCentral
    /\ central' = central + 1
    /\ UNCHANGED <<file, vault, task, used, acked, late, raced>>

----------------------------------------------------------------------------
(***************************************************************************)
(* Every call takes the mutex and first re-reads the file when its stamp   *)
(* changed: one step with the change in memory, as nothing others see      *)
(* happens before the save (a file renamed after its stamp was taken is    *)
(* only read once more later).  The mutex is held to the end of the save.  *)
(***************************************************************************)
Free(t, pc) == At(t, pc) /\ vault[ProcOf[t]].open /\ ~InMutex(ProcOf[t])

Changed_Never(p) == FALSE
Changed(p) == vault[p].stamp # file.stamp

(* A file of another vault fails the MAC check. *)
Foreign(p) == Changed(p) /\ file.id # vault[p].id
Reloads(p) == Changed(p) /\ ~Foreign(p)

Reloaded(p) ==
    IF Reloads(p)
    THEN [vault[p] EXCEPT !.secrets = file.secrets, !.stamp = file.stamp, !.dirty = FALSE]
    ELSE vault[p]

(* The call of t works on the reloaded vault and leaves it as v. *)
Runs(t, v) ==
    /\ vault' = [vault EXCEPT ![ProcOf[t]] = v]
    /\ late' = IF Reloads(ProcOf[t]) THEN late \ {ProcOf[t]} ELSE late
    /\ UNCHANGED <<file, central, raced>>

----------------------------------------------------------------------------
(* The calls.  A caller gets the error of the check and the vault is left   *)
(* alone (no step); a sync pass ignores it and goes on.                     *)

NextVersion_Count(versions) == Len(versions) + 1
NextVersion(versions) == IF versions = <<>> THEN 1 ELSE Last(versions).version + 1

Pruned_Late(versions) == IF Len(versions) > Keep + 1 THEN Tail(versions) ELSE versions
Pruned(versions) == IF Len(versions) > Keep THEN Tail(versions) ELSE versions

(* The vault v with other versions of n in memory. *)
With(v, n, versions, dirty) ==
    [v EXCEPT !.secrets = [@ EXCEPT ![n] = versions], !.dirty = dirty]

(* LocalVault::put: a new version in memory, then a save. *)
Push(t, n, source) ==
    LET v == Reloaded(ProcOf[t])
        s == v.secrets[n]
        entry == [version |-> NextVersion(s), central |-> source, id |-> used.entries + 1]
    IN  /\ Runs(t, With(v, n, Pruned(Append(s, entry)), TRUE))
        /\ task' = [task EXCEPT ![t] = [Idle EXCEPT !.pc = "save", !.name = n,
                                                   !.entry = entry]]
        /\ UNCHANGED acked

Put(t, n) ==
    /\ t \in Users /\ Free(t, "idle") /\ ~Foreign(ProcOf[t])
    /\ used.puts < MaxPuts
    /\ Push(t, n, 0)
    /\ used' = [used EXCEPT !.entries = @ + 1, !.puts = @ + 1]

Get(t) ==
    /\ t \in Users /\ Free(t, "idle") /\ ~Foreign(ProcOf[t])
    /\ Runs(t, Reloaded(ProcOf[t]))
    /\ UNCHANGED <<task, used, acked>>

(* sync_once: nothing to do when the latest version is the one fetched. *)
UpToDate_Any(t) == LatestCentral(Reloaded(ProcOf[t]).secrets[Synced]) # 0
UpToDate(t) == LatestCentral(Reloaded(ProcOf[t]).secrets[Synced]) = task[t].got

SyncSkips(t) ==
    /\ Free(t, "fetched") /\ UpToDate(t)
    /\ Runs(t, Reloaded(ProcOf[t]))
    /\ Leave(t)
    /\ UNCHANGED <<used, acked>>

SyncPuts(t) ==
    /\ Free(t, "fetched") /\ ~UpToDate(t)
    /\ Push(t, Synced, task[t].got)
    /\ used' = [used EXCEPT !.entries = @ + 1]

(* delete removes every version; it saves when there was one. *)
SavesDelete_Absent(versions) == versions = <<>>
SavesDelete(versions) == versions # <<>>

Delete(t, n) ==
    LET v == Reloaded(ProcOf[t])
        saves == SavesDelete(v.secrets[n])
    IN  /\ t \in Users /\ Free(t, "idle") /\ ~Foreign(ProcOf[t])
        /\ used.puts < MaxPuts
        /\ used' = [used EXCEPT !.puts = @ + 1]
        /\ Runs(t, With(v, n, <<>>, v.dirty \/ saves))
        /\ acked' = {e \in acked : e.name # n}
        /\ IF saves THEN task' = [task EXCEPT ![t] = [Idle EXCEPT !.pc = "save"]]
                    ELSE UNCHANGED task

----------------------------------------------------------------------------
(***************************************************************************)
(* save: the file is written and renamed under the lock file, in one step, *)
(* since every writer takes the lock and readers see whole files; the      *)
(* stamp is taken after the lock is released.  From the rename on the put  *)
(* returns Ok, unless the process dies.                                    *)
(***************************************************************************)
Rename(t) ==
    LET p == ProcOf[t]
        e == task[t].entry
    IN  /\ At(t, "save")
        /\ file' = [id |-> vault[p].id, secrets |-> vault[p].secrets,
                    stamp |-> file.stamp + 1]
        /\ acked' = IF e = None THEN acked
                    ELSE acked \cup {[name |-> task[t].name, entry |-> e]}
        /\ raced' = (raced \/ \E q \in Processes \ {p} : InMutex(q))
        /\ task' = [task EXCEPT ![t] = [Idle EXCEPT !.pc = "stamp",
                                                   !.seen = file.stamp + 1]]
        /\ UNCHANGED <<vault, central, used, late>>

(* Any step of the save up to the rename fails: the secrets in memory stay. *)
SaveFails(t) ==
    /\ At(t, "save")
    /\ used.faults < MaxFaults
    /\ used' = [used EXCEPT !.faults = @ + 1]
    /\ Leave(t)
    /\ UNCHANGED <<file, vault, central, acked, late, raced>>

Stamp(t) ==
    LET p == ProcOf[t] IN
    /\ At(t, "stamp")
    /\ vault' = [vault EXCEPT ![p] = [@ EXCEPT !.stamp = file.stamp, !.open = TRUE,
                                              !.dirty = FALSE]]
    /\ late' = IF file.stamp = task[t].seen THEN late \ {p} ELSE late \cup {p}
    /\ Leave(t)
    /\ UNCHANGED <<file, central, used, acked, raced>>

(* A process dies and will be started again; the system drops its lock. *)
Crash(p) ==
    /\ used.faults < MaxFaults
    /\ vault[p].open \/ InMutex(p)
    /\ used' = [used EXCEPT !.faults = @ + 1]
    /\ vault' = [vault EXCEPT ![p] = Closed]
    /\ late' = late \ {p}
    /\ task' = [t \in Threads |-> IF ProcOf[t] = p THEN Idle ELSE task[t]]
    /\ UNCHANGED <<file, central, acked, raced>>

----------------------------------------------------------------------------
Syncs(t) == SyncSkips(t) \/ SyncPuts(t)

Next ==
    \/ \E t \in Threads : Open(t) \/ Fetch(t) \/ Syncs(t) \/ Get(t)
                          \/ Rename(t) \/ Stamp(t) \/ SaveFails(t)
    \/ \E t \in Users, n \in Names : Put(t, n) \/ Delete(t, n)
    \/ \E p \in Processes : Crash(p)
    \/ Rotate

Spec == Init /\ [][Next]_vars

(***************************************************************************)
(* A call that holds the mutex ends (it waits for the lock file only, whose *)
(* holders do not wait), a process is opened, the engine's thread keeps    *)
(* making passes and gets the mutex it asks for in the end.                *)
(* Calls, refreshes, rotations, failures and crashes need never happen.    *)
(***************************************************************************)
FairSpec ==
    /\ Spec
    /\ \A t \in Threads : WF_vars(Rename(t) \/ Stamp(t))
    /\ WF_vars(Open(Refresher)) /\ WF_vars(Fetch(Refresher))
    /\ SF_vars(Syncs(Refresher))

----------------------------------------------------------------------------
(* Properties *)

Entries == [version : Nat \ {0}, central : 0..MaxCentral, id : Nat \ {0}]
AllSecrets(s) == \A n \in Names : Len(s[n]) <= Keep /\ Range(s[n]) \subseteq Entries

(* Types; no name ever has more than keep_versions versions. *)
TypeOK ==
    /\ file.id \in Processes \cup {None} /\ file.stamp \in Nat /\ AllSecrets(file.secrets)
    /\ \A p \in Processes : AllSecrets(vault[p].secrets) /\ vault[p].stamp <= file.stamp
    /\ \A t \in Threads : task[t].pc \in {"idle", "fetched", "save", "stamp"}
    /\ central \in 1..MaxCentral

(***************************************************************************)
(* A version whose put returned Ok is in the file until Keep newer ones    *)
(* pushed it out or its name was deleted: through restarts, failed saves,  *)
(* and the saves of other processes, each of which rewrites every secret,  *)
(* as long as no process renames the file while another is in a call (the  *)
(* lock does not cover the read a save starts from).                       *)
(***************************************************************************)
AcksSurvive ==
    raced \/ \A a \in acked :
        LET s == file.secrets[a.name] IN
        a.entry \in Range(s) \/ (Len(s) = Keep /\ Head(s).version > a.entry.version)

(***************************************************************************)
(* A version number returned by put names one value until its secret is    *)
(* deleted (numbering then restarts): no later put returns it again for    *)
(* the same secret, after pruning, a failed save, a restart or a reload,   *)
(* unless processes raced.                                                 *)
(***************************************************************************)
VersionsNameOne ==
    raced \/ \A a, b \in acked :
        a.name = b.name /\ a.entry.version = b.entry.version
            => a = b

(***************************************************************************)
(* What a process serves outside a call, when it takes its memory for the  *)
(* file's contents, is what the file has: the exceptions are a save that   *)
(* failed and a stamp taken after another process renamed the file, which  *)
(* save and open allow.                                                    *)
(***************************************************************************)
ServedIsStored ==
    \A p \in Processes :
        vault[p].open /\ ~InMutex(p) /\ vault[p].stamp = file.stamp /\ ~vault[p].dirty
            => vault[p].secrets = file.secrets \/ p \in late

(***************************************************************************)
(* Once rotations, calls and failures stop, the component serves the last  *)
(* central version and keeps it in the file, whatever older value a slower *)
(* pass stored over a newer one and whatever another process overwrote;    *)
(* the file may lack it only after a failed save or a late stamp, which no *)
(* later pass repairs, or when two processes each created the vault.       *)
(***************************************************************************)
SyncSettles ==
    LET p == ProcOf[Refresher] IN
    <>[](/\ LatestCentral(vault[p].secrets[Synced]) = central
         /\ \/ LatestCentral(file.secrets[Synced]) = central
            \/ vault[p].dirty \/ p \in late
            \/ vault[p].id # file.id)
=============================================================================
