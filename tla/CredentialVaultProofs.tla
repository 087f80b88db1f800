----------------------- MODULE CredentialVaultProofs -----------------------
(***************************************************************************)
(* Proofs about the credential vault, for any processes, threads, secrets, *)
(* number of kept versions, rotations, calls and faults.                   *)
(***************************************************************************)
EXTENDS CredentialVault, TLAPS

Kept == Seq(Entries)
Pcs == {"idle", "fetched", "save", "stamp"}
Files == [id : Processes \cup {None}, secrets : [Names -> Kept], stamp : Nat]
Vaults == [open : BOOLEAN, id : Processes \cup {None}, secrets : [Names -> Kept],
           stamp : Nat, dirty : BOOLEAN]
Tasks == [pc : Pcs, name : Names \cup {None}, got : 0..MaxCentral, seen : Nat,
          entry : Entries \cup {None}]
Uses == [puts : Nat, faults : Nat, entries : Nat]

(* What every list of versions is: at most Keep, oldest first. *)
Sorted(s) == \A i, j \in 1..Len(s) : i < j => s[i].version < s[j].version
Listed(s) == Len(s) <= Keep /\ Sorted(s)
Tidy(secrets) == \A n \in Names : Listed(secrets[n])

VaultTypes ==
    /\ file \in Files /\ vault \in [Processes -> Vaults] /\ task \in [Threads -> Tasks]
    /\ central \in 1..MaxCentral /\ used \in Uses
    /\ acked \subseteq [name : Names, entry : Entries]
    /\ \A t \in Threads : task[t].entry # None => task[t].name \in Names

Inside(t) == task[t].pc \notin {"idle", "fetched"}

(* One thread of a process is in its mutex. *)
Exclusive == \A t, u \in Threads : Inside(t) /\ Inside(u) /\ ProcOf[t] = ProcOf[u] => t = u

Ordered ==
    /\ Tidy(file.secrets)
    /\ \A p \in Processes : Tidy(vault[p].secrets) /\ vault[p].stamp <= file.stamp

(* A thread about to take the stamp has in memory what it saw in the file; *)
(* a vault that is open is dirty during a save.                            *)
Stamping(t) ==
    At(t, "stamp") => /\ task[t].seen <= file.stamp
                      /\ task[t].seen = file.stamp => vault[ProcOf[t]].secrets = file.secrets
Saving(t) == At(t, "save") => vault[ProcOf[t]].dirty \/ ~vault[ProcOf[t]].open
Served(p) ==
    vault[p].open /\ ~InMutex(p) /\ vault[p].stamp = file.stamp /\ ~vault[p].dirty
        => vault[p].secrets = file.secrets \/ p \in late

StoreInv ==
    /\ VaultTypes /\ Exclusive /\ Ordered
    /\ \A t \in Threads : Stamping(t) /\ Saving(t)
    /\ \A p \in Processes : Served(p)

(* What holds while no two processes overlapped.  Every memory that a save *)
(* may write has the versions that were acknowledged.                      *)
Holds(s, e) == e \in Range(s) \/ (Len(s) = Keep /\ Head(s).version > e.version)
Covers(secrets) == \A a \in acked : Holds(secrets[a.name], a.entry)

OneVault(p) == vault[p].open => vault[p].id = file.id /\ file.stamp > 0
OneOpens(t) ==
    LET v == vault[ProcOf[t]] IN
    /\ At(t, "save") /\ ~v.open => file.stamp = 0
    /\ At(t, "stamp") => task[t].seen = file.stamp /\ v.id = file.id /\ file.stamp > 0

Basis(p) == InMutex(p) \/ (vault[p].open /\ vault[p].stamp = file.stamp)
Covered(p) == Basis(p) => Covers(vault[p].secrets)

(* The version about to be saved is in memory, and newer than every        *)
(* acknowledged version of its name.                                       *)
Newest(t) ==
    LET e == task[t].entry
        n == task[t].name
    IN  At(t, "save") /\ e # None =>
            /\ e \in Range(vault[ProcOf[t]].secrets[n])
            /\ \A a \in acked : a.name = n => a.entry.version < e.version

AckInv ==
    \/ raced
    \/ /\ Covers(file.secrets) /\ VersionsNameOne
       /\ \A p \in Processes : OneVault(p) /\ Covered(p)
       /\ \A t \in Threads : OneOpens(t) /\ Newest(t)

VaultInv == StoreInv /\ AckInv

----------------------------------------------------------------------------
(* Lists of versions. *)

LEMMA NextNewer ==
    ASSUME NEW s \in Kept, Listed(s), NEW x \in Entries, Holds(s, x)
    PROVE  x.version < NextVersion(s)
<1>1. s # <<>> /\ Len(s) \in Nat /\ Len(s) >= 1 /\ s[Len(s)] \in Entries
    BY VaultAssumption DEF Holds, Range, Kept
<1>2. \A i \in 1..Len(s) : s[i] \in Entries /\ s[i].version <= s[Len(s)].version
    <2>1. TAKE i \in 1..Len(s)
    <2>2. s[i] \in Entries BY DEF Kept
    <2>3. CASE i = Len(s) BY <2>2, <2>3 DEF Entries
    <2>4. CASE i < Len(s) BY <1>1, <2>2, <2>4 DEF Listed, Sorted, Entries
    <2> QED BY <1>1, <2>2, <2>3, <2>4
<1>3. NextVersion(s) = s[Len(s)].version + 1 BY <1>1 DEF NextVersion, Last
<1>4. CASE x \in Range(s)
    <2>1. PICK i \in 1..Len(s) : x = s[i] BY <1>4 DEF Range, Kept
    <2> QED BY <1>1, <1>2, <1>3, <2>1 DEF Entries
<1>5. CASE Len(s) = Keep /\ Head(s).version > x.version
    <2>1. Head(s) = s[1] BY <1>1
    <2> QED BY <1>1, <1>2, <1>3, <1>5, <2>1 DEF Entries
<1> QED BY <1>4, <1>5 DEF Holds

LEMMA Pushed ==
    ASSUME NEW s \in Kept, Listed(s), NEW e \in Entries, e.version = NextVersion(s)
    PROVE  LET r == Pruned(Append(s, e)) IN
           /\ r \in Kept /\ Listed(r) /\ e \in Range(r)
           /\ \A x \in Entries : Holds(s, x) => Holds(r, x)
<1> DEFINE a == Append(s, e)
           r == Pruned(a)
<1>1. /\ a \in Kept /\ Len(s) \in Nat /\ Len(a) = Len(s) + 1 /\ a[Len(a)] = e
      /\ \A i \in 1..Len(s) : a[i] = s[i] /\ s[i] \in Entries
    BY DEF Kept
<1>2. Sorted(a)
    <2>1. SUFFICES ASSUME NEW i \in 1..Len(a), NEW j \in 1..Len(a), i < j
                   PROVE  a[i].version < a[j].version
        BY DEF Sorted
    <2>2. i \in 1..Len(s) /\ a[i] = s[i] BY <1>1, <2>1
    <2>3. CASE j = Len(a)
        <3>1. Holds(s, s[i]) BY <2>2 DEF Holds, Range, Kept
        <3> QED BY <1>1, <2>2, <2>3, <3>1, NextNewer
    <2>4. CASE j # Len(a) BY <1>1, <2>1, <2>2, <2>4 DEF Listed, Sorted
    <2> QED BY <2>3, <2>4
<1>3. CASE Len(a) <= Keep
    <2>1. r = a BY <1>1, <1>3, VaultAssumption DEF Pruned
    <2>2. e \in Range(r) BY <1>1, <2>1 DEF Range, Kept
    <2>3. ASSUME NEW x \in Entries, Holds(s, x) PROVE Holds(r, x)
        <3>1. x \in Range(s) BY <1>1, <1>3, <2>3, VaultAssumption DEF Holds
        <3>2. PICK i \in 1..Len(s) : x = s[i] BY <3>1 DEF Range, Kept
        <3>3. i \in DOMAIN a /\ a[i] = x BY <1>1, <3>2 DEF Kept
        <3> QED BY <2>1, <3>3 DEF Holds, Range
    <2> QED BY <1>1, <1>2, <1>3, <2>1, <2>2, <2>3 DEF Listed
<1>4. CASE Len(a) > Keep
    <2>1. r = Tail(a) /\ Len(s) = Keep /\ Len(a) = Keep + 1 /\ Keep \in Nat \ {0}
        BY <1>1, <1>4, VaultAssumption DEF Pruned, Listed
    <2>2. /\ r \in Kept /\ Len(r) = Keep
          /\ \A i \in 1..Keep : r[i] = a[i + 1]
        BY <1>1, <2>1 DEF Kept
    <2>3. e \in Range(r) BY <1>1, <2>1, <2>2 DEF Range, Kept
    <2>4. Listed(r)
        <3>1. SUFFICES ASSUME NEW i \in 1..Keep, NEW j \in 1..Keep, i < j
                       PROVE  r[i].version < r[j].version
            BY <2>1, <2>2 DEF Listed, Sorted
        <3>2. i + 1 \in 1..Len(a) /\ j + 1 \in 1..Len(a) /\ i + 1 < j + 1
            BY <2>1, <3>1
        <3> QED BY <1>2, <2>2, <3>2 DEF Sorted
    <2>5. Head(r) = a[2] /\ a[1] = s[1] /\ Head(s) = s[1] /\ s[1] \in Entries
        BY <1>1, <2>1, <2>2 DEF Kept
    <2>6. a[1].version < a[2].version /\ a[2] \in Entries
        BY <1>1, <1>2, <2>1 DEF Sorted, Kept
    <2>7. ASSUME NEW x \in Entries, Holds(s, x) PROVE Holds(r, x)
        <3>1. CASE Head(s).version > x.version
            <4>1. /\ s[1].version > x.version /\ s[1].version < a[2].version
                BY <2>5, <2>6, <3>1
            <4>2. s[1].version \in Nat /\ x.version \in Nat /\ a[2].version \in Nat
                BY <2>5, <2>6, <2>7 DEF Entries
            <4> DEFINE u == a[2].version
                       v == x.version
                       w == s[1].version
            <4>5. u \in Nat /\ v \in Nat /\ w \in Nat /\ w > v /\ w < u
                BY <4>1, <4>2
            <4> HIDE DEF u, v, w
            <4>6. u > v BY <4>5
            <4>3. a[2].version > x.version
                BY <4>6 DEF u, v
            <4>4. Head(r).version > x.version /\ Len(r) = Keep
                BY <2>2, <2>5, <4>3
            <4> HIDE DEF r, a
            <4> QED BY <4>4 DEF Holds
        <3>2. CASE x \in Range(s)
            <4>1. PICK i \in 1..Len(s) : x = s[i] BY <3>2 DEF Range, Kept
            <4>2. CASE i = 1 BY <2>1, <2>2, <2>5, <2>6, <4>1, <4>2 DEF Holds, Entries
            <4>3. CASE i # 1
                <5>1. i - 1 \in 1..Keep /\ r[i - 1] = x
                    BY <1>1, <2>1, <2>2, <4>1, <4>3
                <5> QED BY <2>2, <5>1 DEF Holds, Range, Kept
            <4> QED BY <4>2, <4>3
        <3> QED BY <2>7, <3>1, <3>2 DEF Holds
    <2> QED BY <2>2, <2>3, <2>4, <2>7
<1> QED BY <1>1, <1>3, <1>4, VaultAssumption

----------------------------------------------------------------------------
(* Steps of one process that leave the file alone.  Threads outside the    *)
(* mutex carry no part of the invariant.                                   *)

Carries(t) == Stamping(t) /\ Saving(t) /\ (raced \/ (OneOpens(t) /\ Newest(t)))

LEMMA OutsideCarries ==
    ASSUME VaultTypes', NEW t \in Threads, ~Inside(t)'
    PROVE  Carries(t)'
<1>1. task'[t].pc \in {"idle", "fetched"} BY DEF Inside
<1> QED BY <1>1 DEF Carries, Stamping, Saving, OneOpens, Newest, At

LEMMA ProcessStep ==
    ASSUME VaultInv, VaultTypes', NEW p \in Processes,
           file' = file, raced' = raced, acked' \subseteq acked,
           \A q \in Processes : q # p => vault'[q] = vault[q] /\ (q \in late => q \in late'),
           \A u \in Threads : ProcOf[u] # p => task'[u] = task[u],
           \A u \in Threads : ProcOf[u] = p => Carries(u)',
           Exclusive', Tidy(vault[p].secrets)', vault'[p].stamp <= file.stamp, Served(p)',
           raced \/ (OneVault(p) /\ Covered(p))'
    PROVE  VaultInv'
<1> USE DEF VaultInv
<1>1. Ordered' BY DEF StoreInv, Ordered, Tidy
<1>2. ASSUME NEW u \in Threads, ProcOf[u] # p PROVE Carries(u)'
    <2>1. task'[u] = task[u] /\ vault'[ProcOf[u]] = vault[ProcOf[u]] BY <1>2, VaultAssumption
    <2>2. Stamping(u)' /\ Saving(u)' BY <2>1 DEF StoreInv, Stamping, Saving, At
    <2>3. ASSUME ~raced PROVE (OneOpens(u) /\ Newest(u))'
        <3>1. OneOpens(u) /\ Newest(u) BY <2>3 DEF AckInv
        <3> QED BY <2>1, <3>1 DEF OneOpens, Newest, At
    <2> QED BY <2>2, <2>3 DEF Carries
<1>3. \A u \in Threads : Carries(u)' BY <1>2
<1>4. \A q \in Processes : q # p => (InMutex(q)' <=> InMutex(q)) BY DEF InMutex
<1>5. \A q \in Processes : q # p => Served(q)' BY <1>4 DEF StoreInv, Served
<1>6. StoreInv' BY <1>1, <1>3, <1>5 DEF StoreInv, Carries
<1>7. ASSUME ~raced PROVE AckInv'
    <2>1. /\ Covers(file.secrets)' /\ VersionsNameOne'
        BY <1>7 DEF AckInv, Covers, VersionsNameOne
    <2>2. ASSUME NEW q \in Processes, q # p PROVE (OneVault(q) /\ Covered(q))'
        <3>1. vault'[q] = vault[q] /\ OneVault(q) /\ Covered(q) BY <1>7, <2>2 DEF AckInv
        <3>2. Basis(q)' => Basis(q) BY <1>4, <2>2, <3>1 DEF Basis
        <3> QED BY <3>1, <3>2 DEF OneVault, Covered, Covers
    <2> QED BY <1>3, <1>7, <2>1, <2>2 DEF AckInv, Carries
<1>8. raced => AckInv' BY DEF AckInv
<1> QED BY <1>6, <1>7, <1>8

LEMMA LocalStep ==
    ASSUME VaultInv, VaultTypes', NEW t \in Threads, NEW p \in Processes, p = ProcOf[t],
           file' = file, raced' = raced, acked' \subseteq acked,
           \A q \in Processes : q # p => vault'[q] = vault[q] /\ (q \in late => q \in late'),
           \A u \in Threads : u # t => task'[u] = task[u],
           \A u \in Threads : u # t /\ ProcOf[u] = p => ~Inside(u),
           Tidy(vault[p].secrets)', vault'[p].stamp <= file.stamp,
           Stamping(t)', Saving(t)', Served(p)',
           raced \/ (OneVault(p) /\ Covered(p) /\ OneOpens(t) /\ Newest(t))'
    PROVE  VaultInv'
<1>1. \A u \in Threads : u # t => (Inside(u)' <=> Inside(u)) BY DEF Inside
<1>2. Exclusive' BY <1>1 DEF VaultInv, StoreInv, Exclusive
<1>3. Carries(t)' BY DEF Carries
<1>4. \A u \in Threads : ProcOf[u] = p => Carries(u)' BY <1>1, <1>3, OutsideCarries
<1>5. \A u \in Threads : ProcOf[u] # p => task'[u] = task[u] OBVIOUS
<1> QED BY <1>2, <1>4, <1>5, ProcessStep

(* Steps outside the mutex. *)
LEMMA QuietStep ==
    ASSUME VaultInv, VaultTypes', UNCHANGED <<file, vault, acked, late, raced>>,
           \A u \in Threads : (Inside(u)' <=> Inside(u)) /\ (Inside(u) => task'[u] = task[u])
    PROVE  VaultInv'
<1> USE DEF VaultInv
<1>1. \A u \in Threads : Carries(u)'
    <2>1. TAKE u \in Threads
    <2>2. CASE ~Inside(u) BY <2>2, OutsideCarries
    <2>3. CASE Inside(u)
        <3>1. task'[u] = task[u] BY <2>3
        <3>2. Stamping(u)' /\ Saving(u)' BY <3>1 DEF StoreInv, Stamping, Saving, At
        <3>3. ASSUME ~raced PROVE (OneOpens(u) /\ Newest(u))'
            <4>1. OneOpens(u) /\ Newest(u) BY <2>1, <3>3 DEF AckInv
            <4> QED BY <3>1, <4>1 DEF OneOpens, Newest, At
        <3> QED BY <3>2, <3>3 DEF Carries
    <2> QED BY <2>2, <2>3
<1>2. \A q \in Processes : InMutex(q)' <=> InMutex(q) BY DEF InMutex, Inside
<1>3. StoreInv' BY <1>1, <1>2 DEF StoreInv, Exclusive, Ordered, Tidy, Served, Carries
<1>4. \A q \in Processes : raced \/ (OneVault(q) /\ Covered(q))'
    BY <1>2 DEF AckInv, OneVault, Covered, Basis, Covers
<1>5. raced \/ (Covers(file.secrets) /\ VersionsNameOne)'
    BY DEF AckInv, Covers, VersionsNameOne
<1>6. AckInv' BY <1>1, <1>4, <1>5 DEF AckInv, Carries
<1> QED BY <1>3, <1>6

(***************************************************************************)
(* The memory a call works on after the check of the file's stamp.         *)
(***************************************************************************)
LEMMA ReloadedMemory ==
    ASSUME VaultInv, NEW p \in Processes, vault[p].open, ~InMutex(p)
    PROVE  LET v == Reloaded(p) IN
           /\ v \in Vaults /\ v.open /\ v.id = vault[p].id /\ Tidy(v.secrets)
           /\ v.stamp <= file.stamp
           /\ v.stamp = file.stamp /\ ~v.dirty
                => v.secrets = file.secrets \/ (p \in late /\ ~Reloads(p))
           /\ ~raced => v.stamp = file.stamp /\ Covers(v.secrets)
<1> DEFINE x == vault[p]
           v == Reloaded(p)
<1>1. /\ x \in Vaults /\ Tidy(x.secrets) /\ x.stamp <= file.stamp
      /\ file.secrets \in [Names -> Kept] /\ file.stamp \in Nat /\ Tidy(file.secrets)
    BY DEF VaultInv, StoreInv, VaultTypes, Ordered, Files
<1>2. Served(p) BY DEF VaultInv, StoreInv
<1>3. ~raced => Covers(file.secrets) /\ OneVault(p) /\ Covered(p)
    BY DEF VaultInv, AckInv
<1>4. CASE Reloads(p)
    <2>1. /\ v = [x EXCEPT !.secrets = file.secrets, !.stamp = file.stamp, !.dirty = FALSE]
        BY <1>4 DEF Reloaded
    <2>2. /\ v \in Vaults /\ v.open = x.open /\ v.id = x.id /\ v.secrets = file.secrets
          /\ v.stamp = file.stamp
        <3> HIDE DEF x
        <3> QED BY <1>1, <2>1 DEF Vaults
    <2> QED BY <1>1, <1>3, <2>2
<1>5. CASE ~Reloads(p)
    <2>1. v = x BY <1>5 DEF Reloaded
    <2>2. ~raced => x.stamp = file.stamp
        BY <1>3, <1>5 DEF OneVault, Reloads, Foreign, Changed
    <2> QED BY <1>1, <1>2, <1>3, <1>5, <2>1, <2>2 DEF Served, Covered, Basis
<1> QED BY <1>4, <1>5

LEMMA RunsStep ==
    ASSUME VaultInv, VaultTypes', NEW t \in Threads, NEW p \in Processes, p = ProcOf[t],
           vault[p].open, ~InMutex(p), NEW w, Runs(t, w),
           w.open, w.id = vault[p].id, w.stamp = Reloaded(p).stamp, Tidy(w.secrets),
           \/ ~Inside(t)' /\ w.secrets = Reloaded(p).secrets /\ w.dirty = Reloaded(p).dirty
           \/ At(t, "save")' /\ w.dirty,
           acked' \subseteq acked, \A u \in Threads : u # t => task'[u] = task[u],
           raced \/ ((\A a \in acked' : Holds(w.secrets[a.name], a.entry)) /\ Newest(t)')
    PROVE  VaultInv'
<1> DEFINE v == Reloaded(p)
<1>1. /\ v.stamp <= file.stamp
      /\ v.stamp = file.stamp /\ ~v.dirty
           => v.secrets = file.secrets \/ (p \in late /\ ~Reloads(p))
    BY ReloadedMemory
<1>2. /\ vault' = [vault EXCEPT ![p] = w] /\ file' = file /\ raced' = raced
      /\ late' = IF Reloads(p) THEN late \ {p} ELSE late
    BY DEF Runs
<1>3. vault'[p] = w /\ \A q \in Processes : q # p => vault'[q] = vault[q]
    BY <1>2 DEF VaultInv, StoreInv, VaultTypes
<1>4. \A u \in Threads : ProcOf[u] = p => ~Inside(u) BY DEF InMutex, Inside
<1>5. Served(p)'
    <2>1. CASE ~Inside(t)' /\ w.secrets = v.secrets /\ w.dirty = v.dirty
        BY <1>1, <1>2, <1>3, <2>1 DEF Served
    <2>2. CASE At(t, "save")'
        <3>1. InMutex(p)' BY <2>2 DEF InMutex, At
        <3> QED BY <3>1 DEF Served
    <2> QED BY <2>1, <2>2
<1>6. Stamping(t)' /\ Saving(t)'
    BY <1>3 DEF Stamping, Saving, At, Inside
<1>7. ASSUME ~raced PROVE (OneVault(p) /\ Covered(p) /\ OneOpens(t) /\ Newest(t))'
    <2>1. OneVault(p) BY <1>7 DEF VaultInv, AckInv
    <2>2. OneVault(p)' BY <1>2, <1>3, <2>1 DEF OneVault
    <2>3. Covered(p)' BY <1>3, <1>7 DEF Covered, Covers
    <2>4. OneOpens(t)' BY <1>3 DEF OneOpens, At, Inside
    <2> QED BY <1>7, <2>2, <2>3, <2>4
<1>8. Tidy(vault[p].secrets)' /\ vault'[p].stamp <= file.stamp
    BY <1>1, <1>3 DEF Tidy
<1>9. \A q \in Processes : q # p => vault'[q] = vault[q] /\ (q \in late => q \in late')
    BY <1>2, <1>3
<1> HIDE DEF v
<1> QED BY <1>2, <1>4, <1>5, <1>6, <1>7, <1>8, <1>9, LocalStep

----------------------------------------------------------------------------
(* Records.  What the steps assign has the right type. *)

LEMMA IdleTask == Idle \in Tasks
BY VaultAssumption DEF Idle, Tasks, Pcs

LEMMA SaveTask ==
    ASSUME NEW n \in Names, NEW e \in Entries,
           NEW k, k = [Idle EXCEPT !.pc = "save", !.name = n, !.entry = e]
    PROVE  /\ k \in Tasks
           /\ k = [pc |-> "save", name |-> n, got |-> 0, seen |-> 0, entry |-> e]
<1>1. k = [pc |-> "save", name |-> n, got |-> 0, seen |-> 0, entry |-> e]
    BY DEF Idle
<1>2. /\ "save" \in Pcs /\ n \in Names \cup {None} /\ e \in Entries \cup {None}
      /\ 0 \in 0..MaxCentral /\ 0 \in Nat
    BY VaultAssumption DEF Pcs
<1>3. [pc |-> "save", name |-> n, got |-> 0, seen |-> 0, entry |-> e] \in Tasks
    BY <1>2 DEF Tasks
<1> QED BY <1>1, <1>3

LEMMA FetchTask ==
    ASSUME NEW g \in 0..MaxCentral
    PROVE  LET k == [Idle EXCEPT !.pc = "fetched", !.got = g] IN
           k \in Tasks /\ k.pc = "fetched" /\ k.entry = None
<1> DEFINE k == [Idle EXCEPT !.pc = "fetched", !.got = g]
<1>k. k = [Idle EXCEPT !.pc = "fetched", !.got = g] OBVIOUS
<1> HIDE DEF k
<1>1. k = [pc |-> "fetched", name |-> None, got |-> g, seen |-> 0, entry |-> None]
    BY <1>k DEF Idle
<1>2. "fetched" \in Pcs /\ 0 \in Nat BY DEF Pcs
<1>3. [pc |-> "fetched", name |-> None, got |-> g, seen |-> 0, entry |-> None] \in Tasks
    BY <1>2 DEF Tasks
<1> QED BY <1>1, <1>3 DEF k

Seeing(pc, s) == [Idle EXCEPT !.pc = pc, !.seen = s]

LEMMA SeenTask ==
    ASSUME NEW pc \in Pcs, NEW s \in Nat
    PROVE  LET k == Seeing(pc, s) IN
           k \in Tasks /\ k.pc = pc /\ k.seen = s /\ k.entry = None
<1> DEFINE k == Seeing(pc, s)
<1>1. k = [Idle EXCEPT !.pc = pc, !.seen = s] BY DEF Seeing
<1> HIDE DEF k
<1>2. k = [pc |-> pc, name |-> None, got |-> 0, seen |-> s, entry |-> None]
    BY <1>1 DEF Idle
<1>3. 0 \in 0..MaxCentral BY VaultAssumption
<1>4. [pc |-> pc, name |-> None, got |-> 0, seen |-> s, entry |-> None] \in Tasks
    BY <1>3 DEF Tasks
<1> QED BY <1>2, <1>4 DEF k

LEMMA NewTask ==
    ASSUME NEW t \in Threads, NEW k \in Tasks, task \in [Threads -> Tasks],
           task' = [task EXCEPT ![t] = k]
    PROVE  /\ task' \in [Threads -> Tasks] /\ task'[t] = k
           /\ \A u \in Threads : u # t => task'[u] = task[u]
OBVIOUS

LEMMA NewVault ==
    ASSUME NEW p \in Processes, NEW x \in Vaults, vault \in [Processes -> Vaults],
           vault' = [vault EXCEPT ![p] = x]
    PROVE  /\ vault' \in [Processes -> Vaults] /\ vault'[p] = x
           /\ \A q \in Processes : q # p => vault'[q] = vault[q]
OBVIOUS

LEMMA NewVersions ==
    ASSUME NEW v \in Vaults, NEW n \in Names, NEW r \in Kept, NEW d \in BOOLEAN
    PROVE  LET w == With(v, n, r, d) IN
           /\ w \in Vaults /\ w.open = v.open /\ w.id = v.id /\ w.stamp = v.stamp
           /\ w.dirty = d /\ w.secrets[n] = r
           /\ \A m \in Names : m # n => w.secrets[m] = v.secrets[m]
           /\ w.secrets \in [Names -> Kept] /\ v.secrets \in [Names -> Kept]
<1> DEFINE f == [v.secrets EXCEPT ![n] = r]
           w == With(v, n, r, d)
<1>1. /\ f \in [Names -> Kept] /\ f[n] = r /\ v.secrets \in [Names -> Kept]
      /\ \A m \in Names : m # n => f[m] = v.secrets[m]
    BY DEF Vaults
<1>2. w = [v EXCEPT !.secrets = f, !.dirty = d] BY DEF With
<1> HIDE DEF f, w
<1>3. w = [open |-> v.open, id |-> v.id, secrets |-> f, stamp |-> v.stamp, dirty |-> d]
    BY <1>2 DEF Vaults
<1>4. /\ w \in Vaults /\ w.open = v.open /\ w.id = v.id /\ w.stamp = v.stamp
      /\ w.dirty = d /\ w.secrets = f
    BY <1>1, <1>3 DEF Vaults
<1> QED BY <1>1, <1>4 DEF w

LEMMA FirstVersion ==
    ASSUME NEW s \in Kept
    PROVE  NextVersion(s) \in Nat \ {0}
<1>1. CASE s = <<>> BY <1>1 DEF NextVersion
<1>2. CASE s # <<>>
    <2>1. s[Len(s)] \in Entries BY <1>2 DEF Kept
    <2> QED BY <1>2, <2>1 DEF NextVersion, Last, Entries
<1> QED BY <1>1, <1>2

(* The steps of VaultTypes that say nothing new. *)
LEMMA TypesOf ==
    ASSUME VaultTypes, file' \in Files, vault' \in [Processes -> Vaults],
           task' \in [Threads -> Tasks], central' \in 1..MaxCentral, used' \in Uses,
           acked' \subseteq acked,
           \A t \in Threads : \/ task'[t] = task[t] \/ task'[t].entry = None
                              \/ task'[t].name \in Names
    PROVE  VaultTypes'
BY DEF VaultTypes

LEMMA UsesMore ==
    ASSUME NEW u \in Uses
    PROVE  /\ [u EXCEPT !.entries = @ + 1, !.puts = @ + 1] \in Uses
           /\ [u EXCEPT !.entries = @ + 1] \in Uses
           /\ [u EXCEPT !.puts = @ + 1] \in Uses
           /\ [u EXCEPT !.faults = @ + 1] \in Uses
<1>1. \A a, b \in Nat : [u EXCEPT !.entries = a, !.puts = b] \in Uses BY DEF Uses
<1>2. u.entries + 1 \in Nat /\ u.puts + 1 \in Nat BY DEF Uses
<1>3. [u EXCEPT !.entries = @ + 1, !.puts = @ + 1] \in Uses BY <1>1, <1>2
<1>4. [u EXCEPT !.entries = @ + 1] \in Uses BY DEF Uses
<1>5. [u EXCEPT !.puts = @ + 1] \in Uses BY DEF Uses
<1>6. [u EXCEPT !.faults = @ + 1] \in Uses BY DEF Uses
<1> QED BY <1>3, <1>4, <1>5, <1>6

----------------------------------------------------------------------------
(* The calls. *)

LEMMA PushStep ==
    ASSUME VaultInv, NEW t \in Threads, NEW n \in Names, NEW source \in 0..MaxCentral,
           vault[ProcOf[t]].open, ~InMutex(ProcOf[t]), Push(t, n, source), used' \in Uses
    PROVE  VaultInv'
<1> DEFINE p == ProcOf[t]
           v == Reloaded(p)
           s == v.secrets[n]
           e == [version |-> NextVersion(s), central |-> source, id |-> used.entries + 1]
           r == Pruned(Append(s, e))
           w == With(v, n, r, TRUE)
           k == [Idle EXCEPT !.pc = "save", !.name = n, !.entry = e]
<1>1. p \in Processes BY VaultAssumption
<1>2. VaultTypes BY DEF VaultInv, StoreInv
<1>3. /\ v \in Vaults /\ v.open /\ v.id = vault[p].id /\ Tidy(v.secrets)
      /\ raced \/ Covers(v.secrets)
    BY <1>1, ReloadedMemory
<1>4. s \in Kept /\ Listed(s) BY <1>3 DEF Vaults, Tidy
<1>5. e \in Entries /\ e.version = NextVersion(s)
    BY <1>2, <1>4, FirstVersion DEF VaultTypes, Uses, Entries
<1>6. /\ Runs(t, w) /\ task' = [task EXCEPT ![t] = k] /\ acked' = acked
    BY DEF Push
<1> HIDE DEF e
<1>7. k = [pc |-> "save", name |-> n, got |-> 0, seen |-> 0, entry |-> e]
    BY <1>5, SaveTask
<1>8. k \in Tasks BY <1>5, SaveTask
<1>9. /\ r \in Kept /\ Listed(r) /\ e \in Range(r)
      /\ \A x \in Entries : Holds(s, x) => Holds(r, x)
    BY <1>4, <1>5, Pushed
<1>10. /\ w \in Vaults /\ w.open = v.open /\ w.id = v.id /\ w.stamp = v.stamp
       /\ w.dirty = TRUE /\ w.secrets[n] = r
       /\ \A m \in Names : m # n => w.secrets[m] = v.secrets[m]
    <2> HIDE DEF v, r
    <2>1. TRUE \in BOOLEAN OBVIOUS
    <2>2. v \in Vaults /\ r \in Kept BY <1>3, <1>9
    <2>3. \A d \in BOOLEAN :
            LET x == With(v, n, r, d) IN
            /\ x \in Vaults /\ x.open = v.open /\ x.id = v.id /\ x.stamp = v.stamp
            /\ x.dirty = d /\ x.secrets[n] = r
            /\ \A m \in Names : m # n => x.secrets[m] = v.secrets[m]
        BY <2>2, NewVersions
    <2> QED BY <2>1, <2>3, Zenon
<1> HIDE DEF r, w, v, k
<1>11. /\ task' \in [Threads -> Tasks] /\ task'[t] = k
       /\ \A u \in Threads : u # t => task'[u] = task[u]
    BY <1>2, <1>6, <1>8, NewTask DEF VaultTypes
<1>12. /\ vault' \in [Processes -> Vaults] /\ vault'[p] = w /\ file' = file
       /\ central' = central
    BY <1>1, <1>2, <1>6, <1>10, NewVault DEF VaultTypes, Runs
<1>13. VaultTypes'
    BY <1>2, <1>6, <1>7, <1>11, <1>12, TypesOf DEF VaultTypes
<1>14. Tidy(w.secrets) BY <1>3, <1>9, <1>10 DEF Tidy
<1>15. At(t, "save")' BY <1>7, <1>11 DEF At
<1>16. ASSUME ~raced
       PROVE  (\A a \in acked' : Holds(w.secrets[a.name], a.entry)) /\ Newest(t)'
    <2>1. \A a \in acked : a.name \in Names /\ a.entry \in Entries
        BY <1>2 DEF VaultTypes
    <2>2. \A a \in acked : Holds(v.secrets[a.name], a.entry) BY <1>3, <1>16 DEF Covers
    <2>3. \A a \in acked : Holds(w.secrets[a.name], a.entry)
        BY <1>9, <1>10, <2>1, <2>2
    <2>4. \A a \in acked : a.name = n => a.entry.version < e.version
        BY <1>4, <1>5, <2>1, <2>2, NextNewer
    <2>5. Newest(t)' BY <1>6, <1>7, <1>9, <1>10, <1>11, <1>12, <2>4 DEF Newest
    <2> QED BY <1>6, <2>3, <2>5
<1>17. /\ w.open /\ w.id = vault[p].id /\ w.stamp = Reloaded(p).stamp
       /\ At(t, "save")' /\ w.dirty
    BY <1>3, <1>10, <1>15 DEF v
<1>18. raced \/ ((\A a \in acked' : Holds(w.secrets[a.name], a.entry)) /\ Newest(t)')
    BY <1>16
<1> QED BY <1>1, <1>6, <1>11, <1>13, <1>14, <1>17, <1>18, RunsStep

(* A call that only looks: get, and a sync pass that is up to date. *)
LEMMA LookStep ==
    ASSUME VaultInv, NEW t \in Threads, vault[ProcOf[t]].open, ~InMutex(ProcOf[t]),
           Runs(t, Reloaded(ProcOf[t])), UNCHANGED <<used, acked>>,
           UNCHANGED task \/ Leave(t)
    PROVE  VaultInv'
<1> DEFINE p == ProcOf[t]
           v == Reloaded(p)
<1>1. p \in Processes BY VaultAssumption
<1>2. VaultTypes BY DEF VaultInv, StoreInv
<1>3. /\ v \in Vaults /\ v.open /\ v.id = vault[p].id /\ Tidy(v.secrets)
      /\ raced \/ Covers(v.secrets)
    BY <1>1, ReloadedMemory
<1>4. ~Inside(t) BY DEF InMutex, Inside
<1>5. /\ task' \in [Threads -> Tasks] /\ task'[t] \in {task[t], Idle}
      /\ \A u \in Threads : u # t => task'[u] = task[u]
    BY <1>2, IdleTask, NewTask DEF Leave, VaultTypes
<1> HIDE DEF v
<1>6. /\ vault' \in [Processes -> Vaults] /\ vault'[p] = v /\ file' = file
      /\ central' = central
    BY <1>1, <1>2, <1>3, NewVault DEF VaultTypes, Runs, v
<1>7. VaultTypes'
    <2>1. \A u \in Threads : task'[u] = task[u] \/ task'[u].entry = None
        BY <1>5 DEF Idle
    <2> QED BY <1>2, <1>5, <1>6, <2>1, TypesOf DEF VaultTypes
<1>8. ~Inside(t)' BY <1>4, <1>5 DEF Inside, Idle
<1>9. raced \/ ((\A a \in acked' : Holds(v.secrets[a.name], a.entry)) /\ Newest(t)')
    <2>1. Newest(t)' BY <1>7, <1>8, OutsideCarries DEF Newest, Inside, At
    <2> QED BY <1>3, <2>1 DEF Covers
<1> QED BY <1>1, <1>3, <1>5, <1>7, <1>8, <1>9, RunsStep DEF v

LEMMA DeleteStep ==
    ASSUME VaultInv, NEW t \in Threads, NEW n \in Names, Delete(t, n)
    PROVE  VaultInv'
<1> DEFINE p == ProcOf[t]
           v == Reloaded(p)
           saves == SavesDelete(v.secrets[n])
           w == With(v, n, <<>>, v.dirty \/ saves)
           k == [Idle EXCEPT !.pc = "save"]
<1>1. p \in Processes /\ vault[p].open /\ ~InMutex(p)
    BY VaultAssumption DEF Delete, Free
<1>2. VaultTypes BY DEF VaultInv, StoreInv
<1>3. /\ v \in Vaults /\ v.open /\ v.id = vault[p].id /\ Tidy(v.secrets)
      /\ raced \/ Covers(v.secrets)
    BY <1>1, ReloadedMemory
<1>4. /\ Runs(t, w) /\ acked' = {a \in acked : a.name # n}
      /\ used' = [used EXCEPT !.puts = @ + 1]
      /\ IF saves THEN task' = [task EXCEPT ![t] = k] ELSE task' = task
      /\ ~Inside(t)
    BY DEF Delete, Free, At, Inside
<1>5. used' \in Uses BY <1>2, <1>4, UsesMore DEF VaultTypes
<1>6. k \in Tasks /\ k.pc = "save" /\ k.entry = None
    BY VaultAssumption DEF Tasks, Pcs, Idle
<1> HIDE DEF v, k, saves
<1>7. <<>> \in Kept /\ Listed(<<>>) BY VaultAssumption DEF Kept, Listed, Sorted
<1>8. \A d \in BOOLEAN :
        LET x == With(v, n, <<>>, d) IN
        /\ x \in Vaults /\ x.open = v.open /\ x.id = v.id /\ x.stamp = v.stamp
        /\ x.dirty = d /\ x.secrets[n] = <<>>
        /\ \A m \in Names : m # n => x.secrets[m] = v.secrets[m]
        /\ x.secrets \in [Names -> Kept] /\ v.secrets \in [Names -> Kept]
    BY <1>3, <1>7, NewVersions
<1>9. (v.dirty \/ saves) \in BOOLEAN BY Zenon
<1>10. /\ w \in Vaults /\ w.open = v.open /\ w.id = v.id /\ w.stamp = v.stamp
       /\ w.dirty = (v.dirty \/ saves) /\ w.secrets[n] = <<>>
       /\ \A m \in Names : m # n => w.secrets[m] = v.secrets[m]
       /\ w.secrets \in [Names -> Kept] /\ v.secrets \in [Names -> Kept]
    BY <1>8, <1>9, Zenon
<1> HIDE DEF w
<1>11. Tidy(w.secrets) BY <1>3, <1>7, <1>10 DEF Tidy
<1>12. /\ vault' \in [Processes -> Vaults] /\ vault'[p] = w /\ file' = file
       /\ central' = central
    BY <1>1, <1>2, <1>4, <1>10, NewVault DEF VaultTypes, Runs
<1>13. /\ task' \in [Threads -> Tasks] /\ task'[t] \in {task[t], k}
       /\ \A u \in Threads : u # t => task'[u] = task[u]
    BY <1>2, <1>4, <1>6, NewTask DEF VaultTypes
<1>14. VaultTypes'
    <2>1. \A u \in Threads : task'[u] = task[u] \/ task'[u].entry = None
        BY <1>6, <1>13
    <2>2. acked' \subseteq acked BY <1>4
    <2> QED BY <1>2, <1>5, <1>12, <1>13, <2>1, <2>2, TypesOf DEF VaultTypes
<1>15. \/ ~Inside(t)' /\ w.secrets = v.secrets /\ w.dirty = v.dirty
       \/ At(t, "save")' /\ w.dirty
    <2>1. CASE saves
        <3>1. task'[t] = k BY <1>2, <1>4, <1>6, <2>1, NewTask DEF VaultTypes
        <3>2. w.dirty BY <1>10, <2>1, Zenon
        <3> QED BY <1>6, <3>1, <3>2 DEF At
    <2>2. CASE ~saves
        <3>1. v.secrets[n] = <<>> BY <2>2 DEF saves, SavesDelete
        <3>2. w.secrets = v.secrets BY <1>10, <3>1
        <3>3. w.dirty = v.dirty
            <4>1. v.dirty \in BOOLEAN BY <1>3 DEF Vaults
            <4> QED BY <1>10, <2>2, <4>1, Zenon
        <3>4. ~Inside(t)' BY <1>4, <2>2 DEF Inside
        <3> QED BY <3>2, <3>3, <3>4
    <2> QED BY <2>1, <2>2
<1>16. raced \/ ((\A a \in acked' : Holds(w.secrets[a.name], a.entry)) /\ Newest(t)')
    <2>1. Newest(t)' BY <1>4, <1>6, <1>13 DEF Newest, Inside, At
    <2>2. \A a \in acked : a.name \in Names BY <1>2 DEF VaultTypes
    <2> QED BY <1>3, <1>4, <1>10, <2>1, <2>2 DEF Covers
<1>17. acked' \subseteq acked BY <1>4
<1>18. w.open /\ w.id = vault[p].id /\ w.stamp = Reloaded(p).stamp
    BY <1>3, <1>10 DEF v
<1>19. \/ /\ ~Inside(t)' /\ w.secrets = Reloaded(p).secrets
          /\ w.dirty = Reloaded(p).dirty
       \/ At(t, "save")' /\ w.dirty
    BY <1>15 DEF v
<1> QED
    BY <1>1, <1>4, <1>11, <1>13, <1>14, <1>16, <1>17, <1>18, <1>19, RunsStep

----------------------------------------------------------------------------
(* The other steps. *)

LEMMA OpenStep ==
    ASSUME VaultInv, NEW t \in Threads, Open(t)
    PROVE  VaultInv'
<1> DEFINE p == ProcOf[t]
           new == file.stamp = 0
           id == IF new THEN p ELSE file.id
           x == [vault[p] EXCEPT !.id = id, !.secrets = file.secrets]
           k == Seeing(IF new THEN "save" ELSE "stamp", file.stamp)
<1>1. p \in Processes /\ ~vault[p].open /\ ~InMutex(p)
    BY VaultAssumption DEF Open
<1>2. /\ VaultTypes /\ Tidy(file.secrets) /\ vault[p].stamp <= file.stamp
      /\ raced \/ Covers(file.secrets)
    BY <1>1 DEF VaultInv, StoreInv, Ordered, AckInv
<1>3. /\ vault' = [vault EXCEPT ![p] = x] /\ task' = [task EXCEPT ![t] = k]
      /\ UNCHANGED <<file, central, used, acked, late, raced>>
    BY DEF Open, Seeing
<1>4. /\ file.secrets \in [Names -> Kept] /\ file.stamp \in Nat /\ vault[p] \in Vaults
      /\ id \in Processes \cup {None}
    BY <1>1, <1>2 DEF VaultTypes, Files
<1>5. /\ x \in Vaults /\ ~x.open /\ x.id = id /\ x.secrets = file.secrets
      /\ x.stamp = vault[p].stamp
    <2> DEFINE y == vault[p]
    <2>1. y \in Vaults /\ ~y.open BY <1>1, <1>4
    <2>2. x = [y EXCEPT !.id = id, !.secrets = file.secrets] OBVIOUS
    <2> HIDE DEF y, x, id
    <2>3. x = [open |-> y.open, id |-> id, secrets |-> file.secrets, stamp |-> y.stamp,
               dirty |-> y.dirty]
        BY <2>1, <2>2 DEF Vaults
    <2>4. x \in Vaults BY <1>4, <2>1, <2>3 DEF Vaults
    <2> QED BY <2>1, <2>3, <2>4 DEF y
<1>6. (IF new THEN "save" ELSE "stamp") \in Pcs BY DEF Pcs
<1>7. /\ k \in Tasks /\ k.pc = (IF new THEN "save" ELSE "stamp")
      /\ k.seen = file.stamp /\ k.entry = None
    BY <1>4, <1>6, SeenTask
<1> HIDE DEF x, k
<1>8. /\ vault' \in [Processes -> Vaults] /\ vault'[p] = x
      /\ \A q \in Processes : q # p => vault'[q] = vault[q]
    BY <1>1, <1>2, <1>3, <1>5, NewVault DEF VaultTypes
<1>9. /\ task' \in [Threads -> Tasks] /\ task'[t] = k
      /\ \A u \in Threads : u # t => task'[u] = task[u]
    BY <1>2, <1>3, <1>7, NewTask DEF VaultTypes
<1>10. VaultTypes'
    <2>1. \A u \in Threads : task'[u] = task[u] \/ task'[u].entry = None
        BY <1>7, <1>9
    <2> QED BY <1>2, <1>3, <1>8, <1>9, <2>1, TypesOf DEF VaultTypes
<1>11. Stamping(t)' /\ Saving(t)' /\ Served(p)'
    BY <1>3, <1>4, <1>5, <1>7, <1>8, <1>9 DEF Stamping, Saving, Served, At
<1>12. OneVault(p)' /\ OneOpens(t)' /\ Newest(t)'
    BY <1>3, <1>4, <1>5, <1>7, <1>8, <1>9 DEF OneVault, OneOpens, Newest, At
<1>13. raced \/ Covered(p)' BY <1>2, <1>3, <1>5, <1>8 DEF Covered, Covers
<1>14. Tidy(vault[p].secrets)' /\ vault'[p].stamp <= file.stamp
    BY <1>2, <1>5, <1>8 DEF Tidy
<1>15. \A u \in Threads : u # t /\ ProcOf[u] = p => ~Inside(u)
    BY <1>1 DEF InMutex, Inside
<1>16. acked' \subseteq acked /\ \A q \in Processes : q \in late => q \in late' BY <1>3
<1>17. raced \/ (OneVault(p) /\ Covered(p) /\ OneOpens(t) /\ Newest(t))'
    BY <1>12, <1>13
<1> QED
    BY <1>1, <1>3, <1>8, <1>9, <1>10, <1>11, <1>14, <1>15, <1>16, <1>17, LocalStep

LEMMA FetchStep ==
    ASSUME VaultInv, NEW t \in Threads, Fetch(t)
    PROVE  VaultInv'
<1> DEFINE k == [Idle EXCEPT !.pc = "fetched", !.got = central]
<1>1. VaultTypes /\ central \in 1..MaxCentral BY DEF VaultInv, StoreInv, VaultTypes
<1>2. /\ UNCHANGED <<file, vault, central, used, acked, late, raced>>
      /\ task' = [task EXCEPT ![t] = k] /\ ~Inside(t)
    BY DEF Fetch, At, Inside
<1>3. central \in 0..MaxCentral BY <1>1
<1>4. k \in Tasks /\ k.pc = "fetched" /\ k.entry = None BY <1>3, FetchTask
<1> HIDE DEF k
<1>5. /\ task' \in [Threads -> Tasks] /\ task'[t] = k
      /\ \A u \in Threads : u # t => task'[u] = task[u]
    BY <1>1, <1>2, <1>4, NewTask DEF VaultTypes
<1>6. VaultTypes'
    <2>1. \A u \in Threads : task'[u] = task[u] \/ task'[u].entry = None
        BY <1>4, <1>5
    <2> QED BY <1>1, <1>2, <1>5, <2>1, TypesOf DEF VaultTypes
<1>7. \A u \in Threads : (Inside(u)' <=> Inside(u)) /\ (Inside(u) => task'[u] = task[u])
    BY <1>2, <1>4, <1>5 DEF Inside
<1> QED BY <1>2, <1>6, <1>7, QuietStep

LEMMA RotateStep ==
    ASSUME VaultInv, Rotate
    PROVE  VaultInv'
<1>1. VaultTypes'
    <2>1. central' \in 1..MaxCentral
        BY VaultAssumption DEF VaultInv, StoreInv, VaultTypes, Rotate
    <2> QED BY <2>1 DEF VaultInv, StoreInv, VaultTypes, Rotate
<1>2. \A u \in Threads : (Inside(u)' <=> Inside(u)) /\ task'[u] = task[u]
    BY DEF Rotate, Inside
<1> QED BY <1>1, <1>2, QuietStep DEF Rotate

LEMMA SaveFailsStep ==
    ASSUME VaultInv, NEW t \in Threads, SaveFails(t)
    PROVE  VaultInv'
<1> DEFINE p == ProcOf[t]
<1>1. p \in Processes BY VaultAssumption
<1>2. /\ VaultTypes /\ Exclusive /\ Saving(t) /\ Tidy(vault[p].secrets)
      /\ vault[p].stamp <= file.stamp
      /\ raced \/ (OneVault(p) /\ Covered(p))
    BY <1>1 DEF VaultInv, StoreInv, Ordered, AckInv
<1>3. /\ UNCHANGED <<file, vault, central, acked, late, raced>>
      /\ used' = [used EXCEPT !.faults = @ + 1]
      /\ task' = [task EXCEPT ![t] = Idle] /\ At(t, "save")
    BY DEF SaveFails, Leave
<1>4. /\ task' \in [Threads -> Tasks] /\ task'[t] = Idle
      /\ \A u \in Threads : u # t => task'[u] = task[u]
    BY <1>2, <1>3, IdleTask, NewTask DEF VaultTypes
<1>5. VaultTypes'
    <2>1. \A u \in Threads : task'[u] = task[u] \/ task'[u].entry = None
        BY <1>4 DEF Idle
    <2>2. used' \in Uses BY <1>2, <1>3, UsesMore DEF VaultTypes
    <2> QED BY <1>2, <1>3, <1>4, <2>1, <2>2, TypesOf DEF VaultTypes
<1>6. Inside(t) /\ ~Inside(t)' /\ InMutex(p) BY <1>3, <1>4 DEF Inside, At, Idle, InMutex
<1>7. \A u \in Threads : u # t /\ ProcOf[u] = p => ~Inside(u)
    BY <1>2, <1>6 DEF Exclusive
<1>8. Served(p)' BY <1>2, <1>3 DEF Served, Saving
<1>9. Stamping(t)' /\ Saving(t)' /\ OneOpens(t)' /\ Newest(t)'
    BY <1>4 DEF Stamping, Saving, OneOpens, Newest, At, Idle
<1>10. raced \/ (OneVault(p) /\ Covered(p))'
    BY <1>2, <1>3, <1>6 DEF OneVault, Covered, Basis, Covers
<1>11. raced \/ (OneVault(p) /\ Covered(p) /\ OneOpens(t) /\ Newest(t))'
    BY <1>9, <1>10
<1>12. Tidy(vault[p].secrets)' BY <1>2, <1>3 DEF Tidy
<1>13. /\ acked' \subseteq acked /\ vault'[p].stamp <= file.stamp
       /\ \A q \in Processes : q # p => vault'[q] = vault[q] /\ (q \in late => q \in late')
    BY <1>2, <1>3
<1> QED
    BY <1>1, <1>3, <1>4, <1>5, <1>7, <1>8, <1>9, <1>11, <1>12, <1>13, LocalStep

LEMMA StampStep ==
    ASSUME VaultInv, NEW t \in Threads, Stamp(t)
    PROVE  VaultInv'
<1> DEFINE p == ProcOf[t]
           y == vault[p]
           x == [y EXCEPT !.stamp = file.stamp, !.open = TRUE, !.dirty = FALSE]
<1>1. p \in Processes BY VaultAssumption
<1>2. /\ VaultTypes /\ Exclusive /\ Stamping(t) /\ Tidy(y.secrets)
      /\ raced \/ (OneOpens(t) /\ Covered(p))
    BY <1>1 DEF VaultInv, StoreInv, Ordered, AckInv
<1>3. /\ UNCHANGED <<file, central, used, acked, raced>>
      /\ late' = IF file.stamp = task[t].seen THEN late \ {p} ELSE late \cup {p}
      /\ vault' = [vault EXCEPT ![p] = x]
      /\ task' = [task EXCEPT ![t] = Idle] /\ At(t, "stamp")
    BY DEF Stamp, Leave
<1>4. y \in Vaults /\ file.stamp \in Nat BY <1>1, <1>2 DEF VaultTypes, Files
<1>5. /\ x \in Vaults /\ x.open = TRUE /\ x.stamp = file.stamp
      /\ x.id = y.id /\ x.secrets = y.secrets
    <2> HIDE DEF y
    <2>x. x = [y EXCEPT !.stamp = file.stamp, !.open = TRUE, !.dirty = FALSE] OBVIOUS
    <2> HIDE DEF x
    <2>1. x = [open |-> TRUE, id |-> y.id, secrets |-> y.secrets, stamp |-> file.stamp,
               dirty |-> FALSE]
        BY <1>4, <2>x DEF Vaults
    <2> QED BY <1>4, <2>1 DEF Vaults
<1> HIDE DEF x
<1>6. /\ vault' \in [Processes -> Vaults] /\ vault'[p] = x
      /\ \A q \in Processes : q # p => vault'[q] = vault[q]
    BY <1>1, <1>2, <1>3, <1>5, NewVault DEF VaultTypes
<1>7. /\ task' \in [Threads -> Tasks] /\ task'[t] = Idle
      /\ \A u \in Threads : u # t => task'[u] = task[u]
    BY <1>2, <1>3, IdleTask, NewTask DEF VaultTypes
<1>8. VaultTypes'
    <2>1. \A u \in Threads : task'[u] = task[u] \/ task'[u].entry = None
        BY <1>7 DEF Idle
    <2> QED BY <1>2, <1>3, <1>6, <1>7, <2>1, TypesOf DEF VaultTypes
<1>9. Inside(t) /\ ~Inside(t)' /\ InMutex(p) BY <1>3, <1>7 DEF Inside, At, Idle, InMutex
<1>10. \A u \in Threads : u # t /\ ProcOf[u] = p => ~Inside(u)
    BY <1>2, <1>9 DEF Exclusive
<1>11. Stamping(t)' /\ Saving(t)' /\ OneOpens(t)' /\ Newest(t)'
    BY <1>7 DEF Stamping, Saving, OneOpens, Newest, At, Idle
<1>12. Served(p)'
    <2>1. CASE file.stamp = task[t].seen
        BY <1>2, <1>3, <1>5, <1>6, <2>1 DEF Stamping, Served
    <2>2. CASE file.stamp # task[t].seen BY <1>3, <2>2 DEF Served
    <2> QED BY <2>1, <2>2
<1>13. raced \/ (OneVault(p) /\ Covered(p))'
    BY <1>2, <1>3, <1>5, <1>6, <1>9 DEF OneVault, OneOpens, Covered, Basis, Covers
<1>14. raced \/ (OneVault(p) /\ Covered(p) /\ OneOpens(t) /\ Newest(t))'
    BY <1>11, <1>13
<1>15. Tidy(vault[p].secrets)' /\ vault'[p].stamp <= file.stamp
    BY <1>2, <1>4, <1>5, <1>6 DEF Tidy
<1>16. /\ acked' \subseteq acked
       /\ \A q \in Processes : q # p => vault'[q] = vault[q] /\ (q \in late => q \in late')
    BY <1>3, <1>6
<1> QED
    BY <1>1, <1>3, <1>7, <1>8, <1>10, <1>11, <1>12, <1>14, <1>15, <1>16, LocalStep

(* After the rename every other process has an old stamp, and none is in a  *)
(* call unless processes raced.                                             *)
LEMMA RenameStep ==
    ASSUME VaultInv, NEW t \in Threads, Rename(t)
    PROVE  VaultInv'
<1> DEFINE p == ProcOf[t]
           e == task[t].entry
           n == task[t].name
           y == vault[p]
           k == Seeing("stamp", file.stamp + 1)
           g == [id |-> y.id, secrets |-> y.secrets, stamp |-> file.stamp + 1]
<1>1. p \in Processes BY VaultAssumption
<1>2. /\ VaultTypes /\ Exclusive /\ Ordered /\ y \in Vaults /\ file.stamp \in Nat
    BY <1>1 DEF VaultInv, StoreInv, VaultTypes, Files
<1>3. /\ UNCHANGED <<vault, central, used, late>> /\ file' = g
      /\ acked' = IF e = None THEN acked ELSE acked \cup {[name |-> n, entry |-> e]}
      /\ raced' = (raced \/ \E q \in Processes \ {p} : InMutex(q))
      /\ task' = [task EXCEPT ![t] = k] /\ At(t, "save")
    BY DEF Rename, Seeing
<1>4. g \in Files BY <1>2 DEF Files, Vaults
<1>5. /\ k \in Tasks /\ k.pc = "stamp" /\ k.seen = file.stamp + 1 /\ k.entry = None
    BY <1>2, SeenTask DEF Pcs
<1> HIDE DEF k
<1>6. /\ task' \in [Threads -> Tasks] /\ task'[t] = k
      /\ \A u \in Threads : u # t => task'[u] = task[u]
    BY <1>2, <1>3, <1>5, NewTask DEF VaultTypes
<1>7. file'.stamp = file.stamp + 1 /\ file'.secrets = y.secrets /\ file'.id = y.id
    BY <1>3
<1>8. e # None => n \in Names /\ e \in Entries
    <2>1. task[t] \in Tasks /\ (e # None => n \in Names) BY <1>2 DEF VaultTypes
    <2> QED BY <2>1 DEF Tasks
<1>9. VaultTypes'
    <2>1. acked' \subseteq [name : Names, entry : Entries]
        BY <1>2, <1>3, <1>8 DEF VaultTypes
    <2>2. \A u \in Threads : task'[u].entry # None => task'[u].name \in Names
        BY <1>2, <1>5, <1>6 DEF VaultTypes
    <2> QED BY <1>2, <1>3, <1>4, <1>6, <2>1, <2>2 DEF VaultTypes
<1>10. Inside(t) /\ Inside(t)' BY <1>3, <1>5, <1>6 DEF Inside, At
<1>11. \A u \in Threads : (Inside(u)' <=> Inside(u)) BY <1>6, <1>10 DEF Inside
<1>12. Exclusive' BY <1>2, <1>11 DEF Exclusive
<1>13. Ordered'
    <2>1. \A q \in Processes : vault[q].stamp \in Nat BY <1>2 DEF VaultTypes, Vaults
    <2> QED BY <1>1, <1>2, <1>3, <1>7, <2>1 DEF Ordered, Tidy
<1>14. ASSUME NEW u \in Threads PROVE Stamping(u)' /\ Saving(u)'
    <2>1. CASE u = t BY <1>2, <1>3, <1>5, <1>6, <1>7, <2>1 DEF Stamping, Saving, At
    <2>2. CASE u # t
        <3>1. task'[u] = task[u] /\ task[u].seen \in Nat
            BY <1>2, <1>6, <2>2 DEF VaultTypes, Tasks
        <3>2. Stamping(u) /\ Saving(u) BY DEF VaultInv, StoreInv
        <3> QED BY <1>2, <1>3, <1>7, <3>1, <3>2 DEF Stamping, Saving, At
    <2> QED BY <2>1, <2>2
<1>15. \A q \in Processes : vault'[q].stamp < file'.stamp
    <2>1. \A q \in Processes : vault[q].stamp \in Nat BY <1>2 DEF VaultTypes, Vaults
    <2> QED BY <1>2, <1>3, <1>7, <2>1 DEF Ordered
<1>16. \A q \in Processes : Served(q)'
    <2>1. \A q \in Processes : vault'[q].stamp \in Nat BY <1>2, <1>3 DEF VaultTypes, Vaults
    <2>2. file'.stamp \in Nat BY <1>2, <1>7
    <2> QED BY <1>15, <2>1, <2>2 DEF Served
<1>17. StoreInv' BY <1>9, <1>12, <1>13, <1>14, <1>16 DEF StoreInv
<1>18. ASSUME ~raced' PROVE AckInv'
    <2>1. ~raced /\ \A q \in Processes : q # p => ~InMutex(q) BY <1>3, <1>18
    <2>2. \A u \in Threads : u # t => ~Inside(u)
        <3>1. \A u \in Threads : ProcOf[u] \in Processes BY VaultAssumption
        <3> QED BY <1>2, <1>10, <2>1, <3>1 DEF Exclusive, InMutex, Inside
    <2>3. /\ VersionsNameOne /\ Newest(t) /\ OneOpens(t) /\ Covered(p)
          /\ \A q \in Processes : OneVault(q)
        BY <1>1, <2>1 DEF VaultInv, AckInv
    <2>4. \A a \in acked : Holds(y.secrets[a.name], a.entry)
        <3>1. InMutex(p) BY <1>10 DEF InMutex, Inside
        <3> QED BY <2>3, <3>1 DEF Covered, Basis, Covers
    <2>5. \A a \in acked' : a \in acked \/ (e # None /\ a = [name |-> n, entry |-> e])
        BY <1>3
    <2>6. e # None => /\ Holds(y.secrets[n], e)
                      /\ \A a \in acked : a.name = n => a.entry.version < e.version
        BY <1>3, <2>3 DEF Newest, Holds
    <2>7. \A a \in acked' : Holds(y.secrets[a.name], a.entry)
        BY <2>4, <2>5, <2>6
    <2>8. VersionsNameOne'
        <3>1. \A a, b \in acked : a.name = b.name /\ a.entry.version = b.entry.version => a = b
            BY <2>1, <2>3 DEF VersionsNameOne
        <3>2. \A a \in acked : a.entry.version \in Nat
            BY <1>2 DEF VaultTypes, Entries
        <3>3. e # None => e.version \in Nat BY <1>8 DEF Entries
        <3>4. SUFFICES ASSUME NEW a \in acked', NEW b \in acked', a.name = b.name,
                              a.entry.version = b.entry.version
                       PROVE  a = b
            BY DEF VersionsNameOne
        <3>5. CASE a \in acked /\ b \in acked BY <3>1, <3>4, <3>5
        <3>6. CASE a \notin acked BY <2>5, <2>6, <3>2, <3>3, <3>4, <3>6
        <3>7. CASE b \notin acked BY <2>5, <2>6, <3>2, <3>3, <3>4, <3>7
        <3> QED BY <3>5, <3>6, <3>7
    <2>9. Covers(file.secrets)' BY <1>7, <2>7 DEF Covers
    <2>10. ASSUME NEW q \in Processes PROVE (OneVault(q) /\ Covered(q))'
        <3>1. vault'[q] = vault[q] /\ OneVault(q) BY <1>3, <2>3
        <3>2. vault[q].open => y.id = file.id
            BY <1>3, <1>1, <2>3, <3>1 DEF OneVault, OneOpens, At
        <3>3. OneVault(q)' BY <1>2, <1>7, <3>1, <3>2 DEF OneVault
        <3>4. Covered(q)'
            <4>1. CASE q = p BY <1>3, <2>7, <4>1 DEF Covered, Covers
            <4>2. CASE q # p
                <5>1. ~InMutex(q)' BY <1>11, <2>1, <4>2 DEF InMutex, Inside
                <5>2. vault'[q].stamp \in Nat /\ file'.stamp \in Nat
                    BY <1>2, <1>7, <3>1 DEF VaultTypes, Vaults
                <5>3. ~Basis(q)' BY <1>15, <5>1, <5>2 DEF Basis
                <5> QED BY <5>3 DEF Covered
            <4> QED BY <4>1, <4>2
        <3> QED BY <3>3, <3>4
    <2>11. ASSUME NEW u \in Threads PROVE (OneOpens(u) /\ Newest(u))'
        <3>1. CASE u = t
            BY <1>2, <1>3, <1>5, <1>6, <1>7, <3>1 DEF OneOpens, Newest, At
        <3>2. CASE u # t
            <4>1. task'[u].pc \in {"idle", "fetched"} BY <1>6, <2>2, <3>2 DEF Inside
            <4> QED BY <4>1 DEF OneOpens, Newest, At
        <3> QED BY <3>1, <3>2
    <2> QED BY <2>8, <2>9, <2>10, <2>11 DEF AckInv
<1>19. raced' => AckInv' BY DEF AckInv
<1> QED BY <1>17, <1>18, <1>19 DEF VaultInv

LEMMA ClosedVault == Closed \in Vaults /\ Tidy(Empty) /\ Empty \in [Names -> Kept]
<1>1. <<>> \in Kept /\ Listed(<<>>) BY VaultAssumption DEF Kept, Listed, Sorted
<1>2. Empty \in [Names -> Kept] /\ Tidy(Empty) BY <1>1 DEF Empty, Tidy
<1> QED BY <1>2 DEF Closed, Vaults

LEMMA CrashStep ==
    ASSUME VaultInv, NEW p \in Processes, Crash(p)
    PROVE  VaultInv'
<1>1. VaultTypes /\ file.stamp \in Nat BY DEF VaultInv, StoreInv, VaultTypes, Files
<1>2. /\ UNCHANGED <<file, central, acked, raced>> /\ late' = late \ {p}
      /\ used' = [used EXCEPT !.faults = @ + 1]
      /\ vault' = [vault EXCEPT ![p] = Closed]
      /\ task' = [t \in Threads |-> IF ProcOf[t] = p THEN Idle ELSE task[t]]
    BY DEF Crash
<1>3. /\ vault' \in [Processes -> Vaults] /\ vault'[p] = Closed
      /\ \A q \in Processes : q # p => vault'[q] = vault[q]
    BY <1>1, <1>2, ClosedVault, NewVault DEF VaultTypes
<1>4. \A u \in Threads : task'[u] = IF ProcOf[u] = p THEN Idle ELSE task[u] BY <1>2
<1>5. VaultTypes'
    <2>1. task' \in [Threads -> Tasks] BY <1>1, <1>2, IdleTask DEF VaultTypes
    <2>2. \A u \in Threads : task'[u] = task[u] \/ task'[u].entry = None
        BY <1>4 DEF Idle
    <2>3. used' \in Uses BY <1>1, <1>2, UsesMore DEF VaultTypes
    <2> QED BY <1>1, <1>2, <1>3, <2>1, <2>2, <2>3, TypesOf DEF VaultTypes
<1>6. \A u \in Threads : ProcOf[u] = p => ~Inside(u)' BY <1>4 DEF Inside, Idle
<1>7. \A u \in Threads : ProcOf[u] = p => Carries(u)' BY <1>5, <1>6, OutsideCarries
<1>8. Exclusive'
    <2>1. \A u \in Threads : Inside(u)' => Inside(u) BY <1>4, <1>6 DEF Inside
    <2> QED BY <2>1 DEF Exclusive, VaultInv, StoreInv
<1>9. ~InMutex(p)' BY <1>6 DEF InMutex, Inside
<1>10. ~vault'[p].open /\ vault'[p].secrets = Empty /\ vault'[p].stamp = 0
    BY <1>3 DEF Closed
<1>11. (Served(p) /\ OneVault(p) /\ Covered(p))'
    BY <1>9, <1>10 DEF Served, OneVault, Covered, Basis
<1>12. Tidy(vault[p].secrets)' /\ vault'[p].stamp <= file.stamp
    BY <1>1, <1>10, ClosedVault DEF Tidy
<1>13. \A q \in Processes : q # p => vault'[q] = vault[q] /\ (q \in late => q \in late')
    BY <1>2, <1>3
<1>14. \A u \in Threads : ProcOf[u] # p => task'[u] = task[u] BY <1>4
<1>15. (raced \/ (OneVault(p) /\ Covered(p)))' /\ Served(p)' /\ acked' \subseteq acked
    BY <1>2, <1>11
<1> QED
    BY <1>2, <1>5, <1>7, <1>8, <1>12, <1>13, <1>14, <1>15, ProcessStep

LEMMA InitVault == Init => VaultInv
<1> SUFFICES ASSUME Init PROVE VaultInv OBVIOUS
<1>1. /\ file = [id |-> None, secrets |-> Empty, stamp |-> 0] /\ acked = {}
      /\ \A p \in Processes : vault[p] = Closed
      /\ \A t \in Threads : task[t] = Idle
    BY DEF Init
<1>2. VaultTypes
    <2>1. file \in Files BY <1>1, ClosedVault DEF Files
    <2>2. vault \in [Processes -> Vaults] BY ClosedVault DEF Init
    <2>3. task \in [Threads -> Tasks] BY IdleTask DEF Init
    <2>4. central \in 1..MaxCentral /\ used \in Uses BY VaultAssumption DEF Init, Uses
    <2>5. \A t \in Threads : task[t].entry = None BY <1>1 DEF Idle
    <2> QED BY <1>1, <2>1, <2>2, <2>3, <2>4, <2>5 DEF VaultTypes
<1>3. \A t \in Threads : task[t].pc = "idle" BY <1>1 DEF Idle
<1>4. \A p \in Processes : ~vault[p].open /\ vault[p].stamp = 0 /\ vault[p].secrets = Empty
    BY <1>1 DEF Closed
<1>5. Exclusive /\ \A p \in Processes : ~InMutex(p) BY <1>3 DEF Exclusive, Inside, InMutex
<1>6. Ordered BY <1>1, <1>4, ClosedVault DEF Ordered
<1>7. \A t \in Threads : Stamping(t) /\ Saving(t) /\ OneOpens(t) /\ Newest(t)
    BY <1>3 DEF Stamping, Saving, OneOpens, Newest, At
<1>8. \A p \in Processes : Served(p) /\ OneVault(p) /\ Covered(p)
    BY <1>4, <1>5 DEF Served, OneVault, Covered, Basis
<1>9. Covers(file.secrets) /\ VersionsNameOne BY <1>1 DEF Covers, VersionsNameOne
<1> QED BY <1>2, <1>5, <1>6, <1>7, <1>8, <1>9 DEF VaultInv, StoreInv, AckInv

LEMMA SyncStep ==
    ASSUME VaultInv, NEW t \in Threads, Syncs(t)
    PROVE  VaultInv'
<1>1. VaultTypes /\ vault[ProcOf[t]].open /\ ~InMutex(ProcOf[t])
    BY DEF VaultInv, StoreInv, Syncs, SyncSkips, SyncPuts, Free
<1>2. CASE SyncSkips(t) BY <1>1, <1>2, LookStep DEF SyncSkips
<1>3. CASE SyncPuts(t)
    <2>1. task[t].got \in 0..MaxCentral BY <1>1 DEF VaultTypes, Tasks
    <2>2. used' \in Uses BY <1>1, <1>3, UsesMore DEF SyncPuts, VaultTypes
    <2> QED BY <1>1, <1>3, <2>1, <2>2, PushStep, VaultAssumption DEF SyncPuts
<1> QED BY <1>2, <1>3 DEF Syncs

LEMMA PutStep ==
    ASSUME VaultInv, NEW t \in Threads, NEW n \in Names, Put(t, n)
    PROVE  VaultInv'
<1>1. VaultTypes /\ vault[ProcOf[t]].open /\ ~InMutex(ProcOf[t])
    BY DEF VaultInv, StoreInv, Put, Free
<1>2. used \in Uses /\ used' = [used EXCEPT !.entries = @ + 1, !.puts = @ + 1]
    BY <1>1 DEF Put, VaultTypes
<1>3. used' \in Uses BY <1>2, UsesMore, Zenon
<1>4. 0 \in 0..MaxCentral BY VaultAssumption
<1> QED BY <1>1, <1>3, <1>4, PushStep DEF Put

LEMMA VaultStep ==
    ASSUME VaultInv, [Next]_vars
    PROVE  VaultInv'
<1>1. ASSUME NEW t \in Threads, Open(t) PROVE VaultInv' BY <1>1, OpenStep
<1>2. ASSUME NEW t \in Threads, Fetch(t) PROVE VaultInv' BY <1>2, FetchStep
<1>3. ASSUME NEW t \in Threads, Syncs(t) PROVE VaultInv' BY <1>3, SyncStep
<1>4. ASSUME NEW t \in Threads, Get(t) PROVE VaultInv'
    BY <1>4, LookStep DEF Get, Free
<1>5. ASSUME NEW t \in Threads, Rename(t) PROVE VaultInv' BY <1>5, RenameStep
<1>6. ASSUME NEW t \in Threads, Stamp(t) PROVE VaultInv' BY <1>6, StampStep
<1>7. ASSUME NEW t \in Threads, SaveFails(t) PROVE VaultInv' BY <1>7, SaveFailsStep
<1>8. ASSUME NEW t \in Users, NEW n \in Names, Put(t, n) PROVE VaultInv'
    <2>1. t \in Threads BY <1>8 DEF Threads
    <2> QED BY <1>8, <2>1, PutStep
<1>9. ASSUME NEW t \in Users, NEW n \in Names, Delete(t, n) PROVE VaultInv'
    <2>1. t \in Threads BY <1>9 DEF Threads
    <2> QED BY <1>9, <2>1, DeleteStep
<1>10. ASSUME NEW p \in Processes, Crash(p) PROVE VaultInv' BY <1>10, CrashStep
<1>11. CASE Rotate BY <1>11, RotateStep
<1>12. CASE UNCHANGED vars
    <2>1. VaultTypes' BY <1>12 DEF VaultInv, StoreInv, VaultTypes, vars
    <2>2. UNCHANGED <<file, vault, acked, late, raced>> /\ task' = task
        BY <1>12 DEF vars
    <2>3. \A u \in Threads : (Inside(u)' <=> Inside(u)) /\ task'[u] = task[u]
        BY <2>2 DEF Inside
    <2> QED BY <2>1, <2>2, <2>3, QuietStep
<1> QED
    BY <1>1, <1>2, <1>3, <1>4, <1>5, <1>6, <1>7, <1>8, <1>9, <1>10, <1>11, <1>12 DEF Next

(***************************************************************************)
(* The invariant of the vault: the versions of each secret are in order,   *)
(* one thread of a process is in its mutex, and, while no two processes    *)
(* overlapped, every memory a save may write has the versions whose put    *)
(* returned Ok.                                                            *)
(***************************************************************************)
THEOREM VaultCorrect == Spec => []VaultInv
<1>1. Init => VaultInv BY InitVault
<1>2. VaultInv /\ [Next]_vars => VaultInv' BY VaultStep
<1> QED BY <1>1, <1>2, PTL DEF Spec

(* Types; no name has more than keep_versions versions, in the file and in *)
(* every process (credentials/vault.rs, LocalVault::put).                  *)
THEOREM TypeCorrect == Spec => []TypeOK
<1>1. VaultInv => TypeOK
    <2> SUFFICES ASSUME VaultInv PROVE TypeOK OBVIOUS
    <2>1. VaultTypes /\ Ordered BY DEF VaultInv, StoreInv
    <2>2. ASSUME NEW f \in [Names -> Kept], Tidy(f) PROVE AllSecrets(f)
        <3>1. \A n \in Names : f[n] \in Kept /\ Len(f[n]) <= Keep
            BY <2>2 DEF Tidy, Listed
        <3>2. \A s \in Kept : Range(s) \subseteq Entries BY DEF Kept, Range
        <3> QED BY <3>1, <3>2 DEF AllSecrets
    <2>3. /\ file.id \in Processes \cup {None} /\ file.stamp \in Nat
          /\ file.secrets \in [Names -> Kept]
        BY <2>1 DEF VaultTypes, Files
    <2>4. \A p \in Processes : vault[p].secrets \in [Names -> Kept]
        BY <2>1 DEF VaultTypes, Vaults
    <2>5. \A t \in Threads : task[t].pc \in Pcs BY <2>1 DEF VaultTypes, Tasks
    <2>6. AllSecrets(file.secrets) /\ \A p \in Processes : AllSecrets(vault[p].secrets)
        BY <2>1, <2>2, <2>3, <2>4 DEF Ordered
    <2> QED BY <2>1, <2>3, <2>5, <2>6 DEF TypeOK, VaultTypes, Ordered, Pcs
<1> QED BY <1>1, VaultCorrect, PTL

(* A version whose put returned Ok stays in the file until Keep newer ones *)
(* push it out or its secret is deleted, through restarts, failed saves    *)
(* and the saves of other processes, unless two processes overlapped.      *)
THEOREM AcksSurviveCorrect == Spec => []AcksSurvive
<1>1. VaultInv => AcksSurvive
    BY DEF VaultInv, AckInv, AcksSurvive, Covers, Holds
<1> QED BY <1>1, VaultCorrect, PTL

(* No put returns a version number that an acknowledged version of the     *)
(* same secret has, unless the secret was deleted or processes overlapped. *)
THEOREM VersionsNameOneCorrect == Spec => []VersionsNameOne
<1>1. VaultInv => VersionsNameOne BY DEF VaultInv, AckInv, VersionsNameOne
<1> QED BY <1>1, VaultCorrect, PTL

(* Outside a call, a process that takes its memory for the file's contents *)
(* has the file's contents, unless a save failed or the stamp was late.    *)
THEOREM ServedIsStoredCorrect == Spec => []ServedIsStored
<1>1. VaultInv => ServedIsStored BY DEF VaultInv, StoreInv, Served, ServedIsStored
<1> QED BY <1>1, VaultCorrect, PTL
=============================================================================
