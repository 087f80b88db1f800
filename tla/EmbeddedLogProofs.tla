------------------------- MODULE EmbeddedLogProofs -------------------------
(***************************************************************************)
(* Proofs about SegmentLog and EmbeddedLog, for every size of segments,    *)
(* batches and the disk, and any number of records, flushes and restarts.  *)
(***************************************************************************)
EXTENDS EmbeddedLog, FiniteSetTheorems, WellFoundedInduction, TLAPS

-----------------------------------------------------------------------------
(* The smallest and the largest of some numbers. *)

LEMMA MinIs ==
  ASSUME NEW S \in SUBSET Nat, S # {}
  PROVE  Min(S) \in S /\ \A x \in S : Min(S) <= x
  <1> DEFINE R == OpToRel(<, Nat)
  <1>1. \E x \in S : \A y \in S : ~(<<y, x>> \in R)
    BY NatLessThanWellFounded, WFMin
  <1>2. \A x, y \in Nat : <<y, x>> \in R <=> y < x
    BY DEF OpToRel
  <1> HIDE DEF R
  <1>3. PICK x \in S : \A y \in S : ~(<<y, x>> \in R)
    BY <1>1
  <1>4. \A y \in S : y \in Nat
    OBVIOUS
  <1>5. \A y \in S : ~(y < x)
    BY <1>2, <1>3, <1>4
  <1>6. \A y \in S : x <= y
    BY <1>4, <1>5
  <1> QED
    BY <1>6 DEF Min

LEMMA MaxIs ==
  ASSUME NEW n \in Nat, NEW S \in SUBSET (0..n), S # {}
  PROVE  Max(S) \in S /\ \A x \in S : x <= Max(S)
  <1> DEFINE T == {n - x : x \in S}
  <1>0. \A x \in S : x \in Int /\ 0 <= x /\ x <= n
    OBVIOUS
  <1>1. T \in SUBSET Nat /\ T # {}
    <2>1. T \in SUBSET Nat
      BY <1>0
    <2>2. T # {}
      OBVIOUS
    <2> QED
      BY <2>1, <2>2
  <1>2. Min(T) \in T /\ \A x \in T : Min(T) <= x
    BY <1>1, MinIs
  <1>3. PICK x \in S : Min(T) = n - x
    BY <1>2
  <1>4. \A y \in S : n - y \in T
    OBVIOUS
  <1>5. \A y \in S : y <= x
    <2> HIDE DEF T
    <2>1. ASSUME NEW y \in S PROVE n - x <= n - y
      BY <1>2, <1>3, <1>4
    <2> QED
      BY <1>0, <2>1
  <1> QED
    BY <1>5 DEF Max

LEMMA IsASeq ==
  ASSUME NEW S, NEW n \in Nat, NEW T, T = [i \in 1..n |-> T[i]],
         \A i \in 1..n : T[i] \in S
  PROVE  T \in Seq(S) /\ Len(T) = n
  <1>1. T \in [1..n -> S]
    OBVIOUS
  <1>2. T \in Seq(S)
    BY <1>1
  <1>3. DOMAIN T = 1..n
    OBVIOUS
  <1> QED
    BY <1>2, <1>3

LEMMA AppendIs ==
  ASSUME NEW S, NEW s \in Seq(S), NEW x \in S
  PROVE  /\ Append(s, x) \in Seq(S) /\ Len(Append(s, x)) = Len(s) + 1
         /\ \A i \in 1..Len(s) : Append(s, x)[i] = s[i]
         /\ Append(s, x)[Len(s) + 1] = x
  OBVIOUS

-----------------------------------------------------------------------------
(* Segment files. *)

FrameType == [off : Nat, id : Nat]

SegmentType ==
    [base : Nat, end : Nat, recs : Seq(FrameType), os : Nat, synced : Nat]

Frames(S, i) == Len(S[i].recs)

(* Frames have the offsets that follow the base of their file, and files   *)
(* do not overlap.                                                         *)
Laid(S) ==
    /\ \A i \in 1..Len(S) : \A j \in 1..Frames(S, i) :
          S[i].recs[j].off = S[i].base + j - 1
    /\ \A i, j \in 1..Len(S) : i < j => S[i].base + Frames(S, i) <= S[j].base

(* Only the active file has frames that the operating system does not.     *)
Marked(S) ==
    /\ \A i \in 1..Len(S) : S[i].synced <= S[i].os /\ S[i].os <= Frames(S, i)
    /\ \A i \in 1..Len(S) : i < Len(S) => S[i].os = Frames(S, i)

FilesOk(S) == S \in Seq(SegmentType) /\ Laid(S) /\ Marked(S)

(* What the running process believes: each file ends where the next one    *)
(* begins, the active one where its frames end.                            *)
Believed(S) ==
    \A i \in 1..Len(S) : S[i].end = IF i < Len(S) THEN S[i + 1].base
                                    ELSE S[i].base + Frames(S, i)

(* One past the last frame, and one past the last one the operating system *)
(* has.                                                                    *)
Reach(S) == IF S = <<>> THEN 0 ELSE S[Len(S)].base + Frames(S, Len(S))
Flushed(S) == IF S = <<>> THEN 0 ELSE S[Len(S)].base + S[Len(S)].os

LEMMA FileTypes ==
  ASSUME NEW S \in Seq(SegmentType)
  PROVE  /\ Len(S) \in Nat /\ DOMAIN S = 1..Len(S)
         /\ S # <<>> => Len(S) \in 1..Len(S)
         /\ \A i \in 1..Len(S) :
               /\ S[i] \in SegmentType /\ S[i].base \in Nat /\ S[i].end \in Nat
               /\ S[i].os \in Nat /\ S[i].synced \in Nat
               /\ S[i].recs \in Seq(FrameType) /\ Frames(S, i) \in Nat
               /\ DOMAIN S[i].recs = 1..Frames(S, i)
               /\ \A j \in 1..Frames(S, i) :
                     /\ S[i].recs[j] \in FrameType
                     /\ S[i].recs[j].off \in Nat /\ S[i].recs[j].id \in Nat
  <1>1. ASSUME NEW i \in 1..Len(S)
        PROVE  /\ S[i] \in SegmentType /\ S[i].base \in Nat /\ S[i].end \in Nat
               /\ S[i].os \in Nat /\ S[i].synced \in Nat
               /\ S[i].recs \in Seq(FrameType)
    <2>1. S[i] \in SegmentType
      OBVIOUS
    <2> QED
      BY <2>1 DEF SegmentType
  <1>2. ASSUME NEW i \in 1..Len(S)
        PROVE  /\ Frames(S, i) \in Nat /\ DOMAIN S[i].recs = 1..Frames(S, i)
               /\ \A j \in 1..Frames(S, i) : S[i].recs[j] \in FrameType
    <2> DEFINE r == S[i].recs
    <2>1. r \in Seq(FrameType)
      BY <1>1
    <2> HIDE DEF r
    <2>2. Len(r) \in Nat /\ DOMAIN r = 1..Len(r) /\ \A j \in 1..Len(r) : r[j] \in FrameType
      BY <2>1
    <2> QED
      BY <2>2 DEF r, Frames
  <1>3. \A x \in FrameType : x.off \in Nat /\ x.id \in Nat
    BY DEF FrameType
  <1> QED
    BY <1>1, <1>2, <1>3

(* A frame is stored at one place of one file. *)
LEMMA StoredIs ==
  ASSUME NEW S \in Seq(SegmentType), NEW f
  PROVE  f \in Stored(S) <=>
            \E i \in 1..Len(S) : \E j \in 1..Frames(S, i) : f = S[i].recs[j]
  <1>1. \A i \in 1..Len(S) : Range(S[i].recs) = {S[i].recs[j] : j \in 1..Frames(S, i)}
    BY FileTypes DEF Range
  <1>2. f \in Stored(S) <=> \E i \in 1..Len(S) : f \in Range(S[i].recs)
    BY DEF Stored
  <1> QED
    BY <1>1, <1>2

LEMMA StoredOffsets ==
  ASSUME NEW S, FilesOk(S)
  PROVE  /\ Reach(S) \in Nat /\ Flushed(S) \in Nat /\ Flushed(S) <= Reach(S)
         /\ \A f \in Stored(S) : f \in FrameType /\ f.off < Reach(S)
         /\ \A f, g \in Stored(S) : f.off = g.off => f = g
  <1> USE DEF FilesOk, Laid, Marked
  <1>1. Reach(S) \in Nat /\ Flushed(S) \in Nat /\ Flushed(S) <= Reach(S)
    BY FileTypes DEF Reach, Flushed
  <1>2. ASSUME NEW f \in Stored(S) PROVE f \in FrameType /\ f.off < Reach(S)
    <2>1. PICK i \in 1..Len(S) : \E j \in 1..Frames(S, i) : f = S[i].recs[j]
      BY StoredIs
    <2>2. PICK j \in 1..Frames(S, i) : f = S[i].recs[j]
      BY <2>1
    <2>3. f \in FrameType /\ f.off = S[i].base + j - 1 /\ S # <<>>
          /\ S[i].base \in Nat /\ Frames(S, i) \in Nat
      BY <2>2, FileTypes
    <2>4. i = Len(S) \/ S[i].base + Frames(S, i) <= S[Len(S)].base
      BY FileTypes
    <2>5. /\ Reach(S) = S[Len(S)].base + Frames(S, Len(S))
          /\ S[Len(S)].base \in Nat /\ Frames(S, Len(S)) \in Nat
      BY <2>3, FileTypes DEF Reach
    <2> HIDE DEF FilesOk, Laid, Marked
    <2> QED
      BY <2>3, <2>4, <2>5
  <1>3. ASSUME NEW f \in Stored(S), NEW g \in Stored(S), f.off = g.off PROVE f = g
    <2>1. PICK i \in 1..Len(S) : \E j \in 1..Frames(S, i) : f = S[i].recs[j]
      BY StoredIs
    <2>2. PICK j \in 1..Frames(S, i) : f = S[i].recs[j]
      BY <2>1
    <2>3. PICK k \in 1..Len(S) : \E l \in 1..Frames(S, k) : g = S[k].recs[l]
      BY StoredIs
    <2>4. PICK l \in 1..Frames(S, k) : g = S[k].recs[l]
      BY <2>3
    <2>5. f.off = S[i].base + j - 1 /\ g.off = S[k].base + l - 1
      BY <2>2, <2>4
    <2>6. i = k
      <3>1. /\ S[i].base \in Nat /\ Frames(S, i) \in Nat
            /\ S[k].base \in Nat /\ Frames(S, k) \in Nat /\ Len(S) \in Nat
        BY FileTypes
      <3>2. /\ i < k => S[i].base + Frames(S, i) <= S[k].base
            /\ k < i => S[k].base + Frames(S, k) <= S[i].base
        OBVIOUS
      <3> HIDE DEF FilesOk, Laid, Marked
      <3>3. /\ j \in Int /\ 1 <= j /\ j <= Frames(S, i)
            /\ l \in Int /\ 1 <= l /\ l <= Frames(S, k)
        BY <3>1
      <3>4. S[i].base + j - 1 = S[k].base + l - 1
        BY <1>3, <2>5
      <3> DEFINE b == S[i].base
                 m == Frames(S, i)
                 c == S[k].base
                 n == Frames(S, k)
      <3>8. b \in Nat /\ m \in Nat /\ c \in Nat /\ n \in Nat
        BY <3>1
      <3>9. (i < k => b + m <= c) /\ (k < i => c + n <= b)
        BY <3>2
      <3>10. /\ j \in Int /\ 1 <= j /\ j <= m /\ l \in Int /\ 1 <= l /\ l <= n
             /\ b + j - 1 = c + l - 1
        BY <3>3, <3>4
      <3> HIDE DEF b, m, c, n
      <3>5. ~(i < k)
        BY <3>8, <3>9, <3>10
      <3>6. ~(k < i)
        BY <3>8, <3>9, <3>10
      <3>7. i \in Int /\ k \in Int
        OBVIOUS
      <3> QED
        BY <3>5, <3>6, <3>7
    <2>7. S[i].base \in Nat /\ Frames(S, i) \in Nat
      BY FileTypes
    <2>8. j \in Int /\ l \in Int
      BY <2>6, <2>7
    <2> DEFINE b == S[i].base
    <2>9. b \in Nat /\ b + j - 1 = b + l - 1
      BY <1>3, <2>5, <2>6, <2>7
    <2> HIDE DEF b
    <2>10. j = l
      BY <2>8, <2>9
    <2> QED
      BY <2>2, <2>4, <2>6, <2>10
  <1> QED
    BY <1>1, <1>2, <1>3

(* How many frames there are. *)
LEMMA SlotsFinite ==
  ASSUME NEW S \in Seq(SegmentType)
  PROVE  IsFiniteSet(Slots(S)) /\ DiskRecords(S) \in Nat
  <1> DEFINE Of(i) == {i} \X (1..Frames(S, i))
             All == {Of(i) : i \in 1..Len(S)}
  <1>1. ASSUME NEW i \in 1..Len(S) PROVE IsFiniteSet(Of(i))
    <2> DEFINE n == Frames(S, i)
    <2>0. n \in Int
      BY FileTypes
    <2> HIDE DEF n
    <2>1. IsFiniteSet({i}) /\ IsFiniteSet(1..n)
      <3>1. IsFiniteSet({i})
        BY FS_Singleton
      <3>2. IsFiniteSet(1..n)
        BY <2>0, FS_Interval
      <3> QED
        BY <3>1, <3>2
    <2> QED
      BY <2>1, FS_Product DEF n
  <1>2. IsFiniteSet(All)
    <2>1. IsFiniteSet(1..Len(S))
      BY FS_Interval, FileTypes
    <2> DEFINE g == [i \in 1..Len(S) |-> Of(i)]
    <2>2. g \in Surjection(1..Len(S), All)
      BY DEF Surjection
    <2> QED
      BY <2>1, <2>2, FS_Surjection
  <1>3. IsFiniteSet(UNION All)
    BY <1>1, <1>2, FS_UNION
  <1>4. Slots(S) = UNION All
    BY DEF Slots, Frames
  <1> QED
    BY <1>3, <1>4, FS_CardinalityType DEF DiskRecords

LEMMA SlotsAre ==
  ASSUME NEW S
  PROVE  \A x : x \in Slots(S) <=>
            \E i \in 1..Len(S) : \E j \in 1..Frames(S, i) : x = <<i, j>>
  BY DEF Slots, Frames

-----------------------------------------------------------------------------
(* What the operations on files do. *)

(* The same frames in the same files. *)
Same(S, T) ==
    /\ Len(T) = Len(S)
    /\ \A i \in 1..Len(S) :
          T[i].base = S[i].base /\ T[i].recs = S[i].recs

LEMMA SameFiles ==
  ASSUME NEW S \in Seq(SegmentType), NEW T \in Seq(SegmentType), Same(S, T)
  PROVE  /\ \A i \in 1..Len(S) : Frames(T, i) = Frames(S, i)
         /\ S = <<>> <=> T = <<>>
         /\ Stored(T) = Stored(S) /\ Slots(T) = Slots(S)
         /\ DiskRecords(T) = DiskRecords(S) /\ Reach(T) = Reach(S)
         /\ Laid(S) => Laid(T)
         /\ Believed(S) /\ (\A i \in 1..Len(S) : T[i].end = S[i].end) => Believed(T)
  <1>1. \A i \in 1..Len(S) : Frames(T, i) = Frames(S, i)
    BY DEF Same, Frames
  <1>2. S = <<>> <=> T = <<>>
    BY DEF Same
  <1>3. \A f : f \in Stored(T) <=> f \in Stored(S)
    BY <1>1, StoredIs DEF Same
  <1>4. \A x : x \in Slots(T) <=> x \in Slots(S)
    BY <1>1, SlotsAre DEF Same
  <1>5. Slots(T) = Slots(S)
    BY <1>4
  <1>6. Reach(T) = Reach(S)
    BY <1>1, <1>2, FileTypes DEF Same, Reach
  <1>7. Laid(S) => Laid(T)
    BY <1>1 DEF Same, Laid
  <1>8. ASSUME Believed(S), \A i \in 1..Len(S) : T[i].end = S[i].end
        PROVE  Believed(T)
    <2>1. \A i \in 1..Len(S) : i < Len(S) => i + 1 \in 1..Len(S)
      BY FileTypes
    <2> QED
      BY <1>1, <1>8, <2>1 DEF Same, Believed
  <1> QED
    BY <1>1, <1>2, <1>3, <1>5, <1>6, <1>7, <1>8 DEF DiskRecords

LEMMA FlushOsIs ==
  ASSUME NEW S, FilesOk(S)
  PROVE  LET T == FlushOs(S) IN
         /\ FilesOk(T) /\ Same(S, T) /\ Flushed(T) = Reach(S)
         /\ Believed(S) => Believed(T)
         /\ \A i \in 1..Len(S) : T[i].synced = S[i].synced /\ T[i].end = S[i].end
         /\ S # <<>> => T[Len(S)].os = Frames(S, Len(S))
  <1> DEFINE T == FlushOs(S)
             n == Len(S)
  <1>1. S \in Seq(SegmentType) /\ Laid(S) /\ Marked(S)
    BY DEF FilesOk
  <1>2. CASE S = <<>>
    BY <1>1, <1>2 DEF FlushOs, Same, FilesOk, Flushed, Reach
  <1>3. CASE S # <<>>
    <2>1. T = [S EXCEPT ![n].os = Frames(S, n)] /\ n \in 1..n /\ DOMAIN S = 1..n
      BY <1>1, <1>3, FileTypes DEF FlushOs, Last, Frames
    <2>2. ASSUME NEW i \in 1..n
          PROVE  /\ T[i] \in SegmentType
                 /\ T[i].base = S[i].base /\ T[i].recs = S[i].recs
                 /\ T[i].end = S[i].end /\ T[i].synced = S[i].synced
                 /\ T[i].os = IF i = n THEN Frames(S, n) ELSE S[i].os
      <3>1. S[i] \in SegmentType /\ Frames(S, n) \in Nat
        BY <1>1, <2>1, FileTypes
      <3>2. T[i] = IF i = n THEN [S[i] EXCEPT !.os = Frames(S, n)] ELSE S[i]
        BY <2>1
      <3> HIDE DEF T
      <3> QED
        BY <3>1, <3>2 DEF SegmentType
    <2>3. T = [i \in 1..n |-> T[i]] /\ n \in Nat
      <3>1. T = [i \in DOMAIN S |-> T[i]]
        BY <2>1
      <3> HIDE DEF T
      <3> QED
        BY <1>1, <2>1, <3>1, FileTypes
    <2> HIDE DEF T, n
    <2>4. T \in Seq(SegmentType) /\ Len(T) = n
      BY <2>2, <2>3, IsASeq
    <2>5. Same(S, T)
      BY <2>2, <2>4 DEF Same, n
    <2>6. Laid(T) /\ (Believed(S) => Believed(T)) /\ T # <<>>
          /\ \A i \in 1..n : Frames(T, i) = Frames(S, i)
      BY <1>1, <1>3, <2>2, <2>4, <2>5, SameFiles DEF n
    <2>7. Marked(T)
      <3>1. ASSUME NEW i \in 1..n
            PROVE  /\ T[i].synced <= T[i].os /\ T[i].os <= Frames(T, i)
                   /\ i < n => T[i].os = Frames(T, i)
        <4>1. /\ S[i].synced <= S[i].os /\ S[i].os <= Frames(S, i)
              /\ i < n => S[i].os = Frames(S, i)
          BY <1>1 DEF Marked, n
        <4>2. /\ S[i].synced \in Nat /\ S[i].os \in Nat /\ Frames(S, i) \in Nat
              /\ Frames(T, i) = Frames(S, i)
          BY <1>1, <2>6, FileTypes DEF n
        <4> QED
          BY <2>2, <2>3, <4>1, <4>2
      <3> QED
        BY <2>4, <3>1 DEF Marked
    <2>8. Flushed(T) = Reach(S)
      BY <1>3, <2>1, <2>2, <2>4, <2>6 DEF Flushed, Reach, n
    <2> QED
      BY <2>1, <2>2, <2>4, <2>5, <2>6, <2>7, <2>8 DEF FilesOk, n, T
  <1> QED
    BY <1>2, <1>3

LEMMA SyncIs ==
  ASSUME NEW S, FilesOk(S)
  PROVE  LET T == Sync(S) IN
         /\ FilesOk(T) /\ Same(S, T) /\ Flushed(T) = Reach(S)
         /\ Believed(S) => Believed(T)
         /\ S # <<>> => T[Len(S)].os = Frames(S, Len(S))
  <1> DEFINE F == FlushOs(S)
             T == Sync(S)
             n == Len(S)
  <1>1. /\ S \in Seq(SegmentType) /\ F \in Seq(SegmentType) /\ Laid(S) /\ Marked(S)
        /\ FilesOk(F) /\ Same(S, F) /\ Flushed(F) = Reach(S)
        /\ Believed(S) => Believed(F)
        /\ S # <<>> => F[Len(S)].os = Frames(S, Len(S))
    BY FlushOsIs DEF FilesOk
  <1>2. CASE S = <<>>
    <2>1. T = S /\ F = S
      BY <1>2 DEF Sync, FlushOs
    <2> QED
      BY <1>1, <2>1, <1>2
  <1>3. CASE S # <<>>
    <2>1. /\ T = [F EXCEPT ![n].synced = Frames(S, n)] /\ n \in 1..n
          /\ Len(F) = n /\ DOMAIN F = 1..n /\ n \in Nat
      BY <1>1, <1>3, FileTypes DEF Sync, Last, Frames, Same
    <2> HIDE DEF F
    <2>2. ASSUME NEW i \in 1..n
          PROVE  /\ T[i] \in SegmentType
                 /\ T[i].base = F[i].base /\ T[i].recs = F[i].recs
                 /\ T[i].end = F[i].end /\ T[i].os = F[i].os
                 /\ T[i].synced = IF i = n THEN Frames(S, n) ELSE F[i].synced
      <3>1. F[i] \in SegmentType /\ Frames(S, n) \in Nat
        BY <1>1, <2>1, FileTypes
      <3>2. T[i] = IF i = n THEN [F[i] EXCEPT !.synced = Frames(S, n)] ELSE F[i]
        BY <2>1
      <3> HIDE DEF T
      <3> QED
        BY <3>1, <3>2 DEF SegmentType
    <2>3. T = [i \in 1..n |-> T[i]]
      <3>1. T = [i \in DOMAIN F |-> T[i]]
        BY <2>1
      <3> HIDE DEF T
      <3> QED
        BY <2>1, <3>1
    <2> HIDE DEF T, n
    <2>4. T \in Seq(SegmentType) /\ Len(T) = n
      <3>1. n \in Nat /\ \A i \in 1..n : T[i] \in SegmentType
        BY <2>1, <2>2
      <3> QED
        BY <2>3, <3>1, IsASeq
    <2>5. Same(F, T) /\ Same(S, T)
      BY <1>1, <2>1, <2>2, <2>4 DEF Same, n
    <2>6. Laid(F) /\ Marked(F)
      BY <1>1 DEF FilesOk
    <2>7. Laid(T) /\ (Believed(F) => Believed(T)) /\ T # <<>>
          /\ \A i \in 1..n : Frames(T, i) = Frames(F, i) /\ Frames(F, i) = Frames(S, i)
      <3>1. F # <<>> /\ \A i \in 1..n : Frames(F, i) = Frames(S, i)
        BY <1>1, <1>3, SameFiles DEF n
      <3>2. \A i \in 1..Len(F) : T[i].end = F[i].end
        BY <2>1, <2>2
      <3>3. /\ Laid(T) /\ (Believed(F) => Believed(T)) /\ T # <<>>
            /\ \A i \in 1..n : Frames(T, i) = Frames(F, i)
        <4>1. F \in Seq(SegmentType) /\ T \in Seq(SegmentType) /\ Same(F, T)
          BY <1>1, <2>4, <2>5
        <4>2. /\ \A i \in 1..Len(F) : Frames(T, i) = Frames(F, i)
              /\ F = <<>> <=> T = <<>>
              /\ Laid(F) => Laid(T)
          BY <4>1, SameFiles
        <4>3. Believed(F) => Believed(T)
          BY <3>2, <4>1, SameFiles
        <4> QED
          BY <2>1, <2>6, <3>1, <4>2, <4>3
      <3> QED
        BY <3>1, <3>3
    <2>8. Marked(T)
      <3>1. ASSUME NEW i \in 1..n
            PROVE  /\ T[i].synced <= T[i].os /\ T[i].os <= Frames(T, i)
                   /\ i < n => T[i].os = Frames(T, i)
        <4>1. /\ F[i].synced <= F[i].os /\ F[i].os <= Frames(F, i)
              /\ i < n => F[i].os = Frames(F, i)
          BY <2>1, <2>6 DEF Marked
        <4>2. /\ F[i].synced \in Nat /\ F[i].os \in Nat /\ Frames(F, i) \in Nat
              /\ Frames(T, i) = Frames(F, i) /\ Frames(F, i) = Frames(S, i)
          BY <1>1, <2>1, <2>7, FileTypes
        <4>3. i = n => F[i].os = Frames(S, n)
          BY <1>1, <1>3 DEF n
        <4> QED
          BY <2>2, <4>1, <4>2, <4>3
      <3> QED
        BY <2>4, <3>1 DEF Marked
    <2>9. Flushed(T) = Reach(S)
      <3>1. T[n].os = Frames(S, n) /\ T[n].base = S[n].base
        BY <1>1, <1>3, <2>1, <2>2, <2>5 DEF n, Same
      <3> QED
        BY <1>3, <2>4, <2>7, <3>1 DEF Flushed, Reach, n
    <2>10. T[n].os = Frames(S, n)
      BY <1>1, <1>3, <2>1, <2>2 DEF n
    <2> QED
      BY <1>1, <2>4, <2>5, <2>7, <2>8, <2>9, <2>10 DEF FilesOk, n, T
  <1> QED
    BY <1>2, <1>3

(* The last files, all but the first k. *)
LEMMA SuffixIs ==
  ASSUME NEW S \in Seq(SegmentType), NEW k \in 0..Len(S) - 1
  PROVE  LET T == SubSeq(S, k + 1, Len(S)) IN
         /\ T \in Seq(SegmentType) /\ Len(T) = Len(S) - k
         /\ \A i \in 1..Len(T) : T[i] = S[i + k] /\ i + k \in 1..Len(S)
         /\ T # <<>> /\ S # <<>> /\ T[Len(T)] = S[Len(S)]
  <1> DEFINE T == SubSeq(S, k + 1, Len(S))
  <1>1. Len(S) \in Nat /\ k \in Nat /\ k < Len(S)
    OBVIOUS
  <1>2. T \in Seq(SegmentType) /\ Len(T) = Len(S) - k
    BY <1>1
  <1>3. \A i \in 1..Len(S) - k : T[i] = S[i + k]
    BY <1>1
  <1> HIDE DEF T
  <1>4. \A i \in 1..Len(S) - k : i + k \in 1..Len(S)
    BY <1>1
  <1>5. T # <<>> /\ S # <<>> /\ Len(T) \in 1..Len(S) - k /\ Len(T) + k = Len(S)
    BY <1>1, <1>2
  <1> QED
    BY <1>1, <1>2, <1>3, <1>4, <1>5 DEF T

(* Files go from the front: what remains is in shape, and the frames that  *)
(* went lie below the end of a file that went.                             *)
LEMMA CutIs ==
  ASSUME NEW S, FilesOk(S), NEW k \in 0..Len(S) - 1
  PROVE  LET T == SubSeq(S, k + 1, Len(S)) IN
         /\ FilesOk(T) /\ (Believed(S) => Believed(T)) /\ T # <<>>
         /\ T[Len(T)] = S[Len(S)]
         /\ Reach(T) = Reach(S) /\ Flushed(T) = Flushed(S)
         /\ Stored(T) \subseteq Stored(S)
         /\ DiskRecords(T) <= DiskRecords(S)
  <1> DEFINE T == SubSeq(S, k + 1, Len(S))
             n == Len(S)
             m == Len(T)
  <1>1. S \in Seq(SegmentType) /\ Laid(S) /\ Marked(S) /\ n \in Nat /\ k \in Nat
    BY FileTypes DEF FilesOk
  <1>2. /\ T \in Seq(SegmentType) /\ m = n - k
        /\ \A i \in 1..m : T[i] = S[i + k] /\ i + k \in 1..n
        /\ T # <<>> /\ S # <<>> /\ T[m] = S[n]
    BY <1>1, SuffixIs
  <1> HIDE DEF T, n, m
  <1>3. m \in Nat /\ m \in 1..m /\ n \in 1..n /\ \A i \in 1..m : i \in Int /\ (i < m <=> i + k < n)
    BY <1>1, <1>2, FileTypes DEF m, n
  <1>4. \A i \in 1..m : Frames(T, i) = Frames(S, i + k)
    BY <1>2 DEF Frames
  <1>5. Laid(T)
    <2>1. ASSUME NEW i \in 1..m, NEW j \in 1..Frames(T, i)
          PROVE  T[i].recs[j].off = T[i].base + j - 1
      BY <1>1, <1>2, <1>4 DEF Laid, n
    <2>2. ASSUME NEW i \in 1..m, NEW j \in 1..m, i < j
          PROVE  T[i].base + Frames(T, i) <= T[j].base
      <3>1. i + k < j + k /\ i + k \in 1..n /\ j + k \in 1..n
        BY <1>1, <1>2, <2>2
      <3>2. S[i + k].base + Frames(S, i + k) <= S[j + k].base
        BY <1>1, <3>1 DEF Laid, n
      <3> QED
        BY <1>2, <1>4, <3>2
    <2> QED
      BY <2>1, <2>2 DEF Laid, m
  <1>6. Marked(T)
    <2>1. ASSUME NEW i \in 1..m
          PROVE  /\ T[i].synced <= T[i].os /\ T[i].os <= Frames(T, i)
                 /\ i < m => T[i].os = Frames(T, i)
      BY <1>1, <1>2, <1>3, <1>4 DEF Marked, n
    <2> QED
      BY <2>1 DEF Marked, m
  <1>7. ASSUME Believed(S) PROVE Believed(T)
    <2>1. ASSUME NEW i \in 1..m
          PROVE  T[i].end = IF i < m THEN T[i + 1].base ELSE T[i].base + Frames(T, i)
      <3>1. i + k \in 1..n /\ T[i] = S[i + k] /\ (i < m <=> i + k < n)
        BY <1>2, <1>3
      <3>2. S[i + k].end = IF i + k < n THEN S[(i + k) + 1].base
                           ELSE S[i + k].base + Frames(S, i + k)
        BY <1>7, <3>1 DEF Believed, n
      <3>3. CASE i < m
        <4>1. i + 1 \in 1..m /\ (i + 1) + k = (i + k) + 1
          BY <1>1, <1>3, <3>3
        <4>2. T[i + 1] = S[(i + k) + 1]
          BY <1>2, <4>1
        <4> QED
          BY <3>1, <3>2, <3>3, <4>2
      <3>4. CASE ~(i < m)
        BY <1>4, <3>1, <3>2, <3>4
      <3> QED
        BY <3>3, <3>4
    <2> QED
      BY <2>1 DEF Believed, m
  <1>8. Reach(T) = Reach(S) /\ Flushed(T) = Flushed(S)
    <2>1. Frames(T, m) = Frames(S, n)
      BY <1>2 DEF Frames
    <2> QED
      BY <1>2, <2>1 DEF Reach, Flushed, m, n
  <1>9. ASSUME NEW f \in Stored(T) PROVE f \in Stored(S)
    <2>1. PICK i \in 1..m : \E j \in 1..Frames(T, i) : f = T[i].recs[j]
      BY <1>2, StoredIs DEF m
    <2>2. i + k \in 1..n /\ \E j \in 1..Frames(S, i + k) : f = S[i + k].recs[j]
      BY <1>2, <1>4, <2>1
    <2> QED
      BY <1>1, <2>2, StoredIs DEF n
  <1>10. DiskRecords(T) <= DiskRecords(S)
    <2> DEFINE g == [x \in Slots(T) |-> <<x[1] + k, x[2]>>]
    <2>1. \A x \in Slots(T) : x = <<x[1], x[2]>> /\ x[1] \in 1..m /\ x[2] \in 1..Frames(T, x[1])
      BY SlotsAre DEF m
    <2>2. ASSUME NEW x \in Slots(T) PROVE g[x] \in Slots(S)
      <3>1. x[1] + k \in 1..n /\ x[2] \in 1..Frames(S, x[1] + k) /\ g[x] = <<x[1] + k, x[2]>>
        BY <1>2, <1>4, <2>1
      <3> HIDE DEF g
      <3> QED
        BY <3>1, SlotsAre DEF n
    <2>3. ASSUME NEW x \in Slots(T), NEW y \in Slots(T), g[x] = g[y] PROVE x = y
      <3>1. x[1] + k = y[1] + k /\ x[2] = y[2]
        BY <2>3
      <3>2. x[1] \in Int /\ y[1] \in Int
        BY <1>3, <2>1
      <3>3. x[1] = y[1]
        BY <1>1, <3>1, <3>2
      <3> QED
        BY <2>1, <3>1, <3>3
    <2>4. g \in [Slots(T) -> Slots(S)]
      BY <2>2
    <2> HIDE DEF g
    <2>5. g \in Injection(Slots(T), Slots(S))
      BY <2>3, <2>4 DEF Injection, IsInjective
    <2> QED
      BY <1>1, <2>5, SlotsFinite, FS_Injection DEF DiskRecords
  <1> QED
    BY <1>2, <1>5, <1>6, <1>7, <1>8, <1>9, <1>10 DEF FilesOk, T, m, n

(* A frame that went was in one of the files that went. *)
LEMMA CutAway ==
  ASSUME NEW S, FilesOk(S), NEW k \in 0..Len(S) - 1,
         NEW f \in Stored(S), f \notin Stored(SubSeq(S, k + 1, Len(S)))
  PROVE  /\ f \in Stored(SubSeq(S, 1, k))
         /\ k # 0 /\ k \in 1..Len(S)
         /\ Believed(S) => f.off < S[k].end
  <1> DEFINE T == SubSeq(S, k + 1, Len(S))
             n == Len(S)
             A == SubSeq(S, 1, k)
  <1>1. S \in Seq(SegmentType) /\ Laid(S) /\ n \in Nat /\ k \in Nat
    BY FileTypes DEF FilesOk
  <1>2. /\ T \in Seq(SegmentType) /\ Len(T) = n - k
        /\ \A i \in 1..Len(T) : T[i] = S[i + k]
    BY <1>1, SuffixIs
  <1>3. PICK i \in 1..n : \E j \in 1..Frames(S, i) : f = S[i].recs[j]
    BY <1>1, StoredIs
  <1>4. PICK j \in 1..Frames(S, i) : f = S[i].recs[j]
    BY <1>3
  <1>5. i <= k
    <2>1. SUFFICES ASSUME i > k PROVE FALSE
      BY <1>1
    <2> DEFINE l == i - k
    <2>2. l \in 1..Len(T) /\ l + k = i
      BY <1>1, <1>2, <2>1
    <2> HIDE DEF l, T
    <2>3. T[l] = S[i]
      BY <1>2, <2>2
    <2>4. Frames(T, l) = Frames(S, i)
      BY <2>3 DEF Frames
    <2>5. f \in Stored(T)
      BY <1>2, <1>4, <2>2, <2>3, <2>4, StoredIs
    <2> QED
      BY <2>5 DEF T
  <1>6. A \in Seq(SegmentType) /\ Len(A) = k /\ \A l \in 1..k : A[l] = S[l]
    BY <1>1
  <1> HIDE DEF A, T
  <1>7. f \in Stored(A)
    <2>1. i \in 1..Len(A) /\ A[i] = S[i]
      BY <1>1, <1>5, <1>6
    <2>2. Frames(A, i) = Frames(S, i)
      BY <2>1 DEF Frames
    <2> QED
      BY <1>4, <1>6, <2>1, <2>2, StoredIs
  <1>8. ASSUME Believed(S) PROVE f.off < S[k].end
    <2>1. k \in 1..n /\ k < n /\ k + 1 \in 1..n /\ S[k].end = S[k + 1].base
      BY <1>1, <1>5, <1>8 DEF Believed
    <2>2. i < k + 1
      BY <1>1, <1>5
    <2>3. S[i].base + Frames(S, i) <= S[k + 1].base
      BY <1>1, <2>1, <2>2 DEF Laid
    <2>4. f.off = S[i].base + j - 1
      BY <1>1, <1>4 DEF Laid
    <2>5. S[i].base \in Nat /\ Frames(S, i) \in Nat /\ S[k + 1].base \in Nat
      BY <1>1, <2>1, FileTypes
    <2>6. j \in Int /\ j <= Frames(S, i)
      BY <2>5
    <2> QED
      BY <2>1, <2>3, <2>4, <2>5, <2>6
  <1> QED
    BY <1>1, <1>5, <1>7, <1>8 DEF A

LEMMA FirstFiles ==
  ASSUME NEW S \in Seq(SegmentType), NEW k \in 0..Len(S)
  PROVE  Stored(SubSeq(S, 1, k)) \subseteq Stored(S)
  <1> DEFINE A == SubSeq(S, 1, k)
  <1>1. A \in Seq(SegmentType) /\ Len(A) = k /\ \A l \in 1..k : A[l] = S[l] /\ l \in 1..Len(S)
    OBVIOUS
  <1> HIDE DEF A
  <1>2. \A l \in 1..k : Frames(A, l) = Frames(S, l)
    BY <1>1 DEF Frames
  <1>3. ASSUME NEW f \in Stored(A) PROVE f \in Stored(S)
    <2>1. PICK l \in 1..k : \E j \in 1..Frames(A, l) : f = A[l].recs[j]
      BY <1>1, StoredIs
    <2> QED
      BY <1>1, <1>2, <2>1, StoredIs
  <1> QED
    BY <1>3 DEF A

LEMMA NextIsReach ==
  ASSUME NEW S, FilesOk(S), Believed(S)
  PROVE  NextOffset(S) = Reach(S)
  <1>1. S # <<>> => Len(S) \in 1..Len(S)
    BY FileTypes DEF FilesOk
  <1> QED
    BY <1>1 DEF NextOffset, Reach, Believed, Last

(* Reclaiming gives up whole files below the offset.                       *)
LEMMA TruncateIs ==
  ASSUME NEW S, FilesOk(S), NEW offset \in Nat
  PROVE  LET T == TruncateBelow(S, offset) IN
         \/ S = <<>> /\ T = S
         \/ \E k \in 0..Len(S) - 1 :
               /\ T = SubSeq(S, k + 1, Len(S))
               /\ k # 0 => S[k].end <= offset
  <1> DEFINE F == {i \in 1..Len(S) : i = Len(S) \/ S[i].end > offset}
             first == Min(F)
  <1>1. S \in Seq(SegmentType) /\ Len(S) \in Nat
    BY FileTypes DEF FilesOk
  <1>2. CASE S = <<>>
    BY <1>2 DEF TruncateBelow, FilesFrom
  <1>3. CASE S # <<>>
    <2>1. Len(S) \in F
      BY <1>1, <1>3, FileTypes
    <2>2. F \in SUBSET Nat
      BY <1>1
    <2>3. first \in F /\ \A x \in F : first <= x
      BY <2>1, <2>2, MinIs
    <2>4. TruncateBelow(S, offset) = SubSeq(S, first, Len(S))
      BY <1>3 DEF TruncateBelow, FilesFrom
    <2> HIDE DEF first
    <2>5. first \in 1..Len(S)
      BY <2>3
    <2> DEFINE k == first - 1
    <2>6. k \in 0..Len(S) - 1 /\ k + 1 = first
      BY <1>1, <2>5
    <2>7. ASSUME k # 0 PROVE S[k].end <= offset
      <3>1. k \in 1..Len(S) /\ k < first /\ k # Len(S)
        BY <1>1, <2>6, <2>7
      <3>2. k \notin F
        BY <1>1, <2>3, <2>6, <3>1
      <3>3. ~(S[k].end > offset) /\ S[k].end \in Nat
        BY <1>1, <3>1, <3>2, FileTypes
      <3> QED
        BY <3>3
    <2> QED
      BY <2>4, <2>6, <2>7
  <1> QED
    BY <1>2, <1>3

(* What everybody relies on after files went. *)
Shorter(S, T) ==
    /\ FilesOk(T) /\ (Believed(S) => Believed(T))
    /\ S = <<>> <=> T = <<>>
    /\ S # <<>> => T[Len(T)] = S[Len(S)]
    /\ Reach(T) = Reach(S) /\ Flushed(T) = Flushed(S)
    /\ Stored(T) \subseteq Stored(S)
    /\ DiskRecords(T) <= DiskRecords(S)

LEMMA SuffixShorter ==
  ASSUME NEW S, FilesOk(S), NEW k \in 0..Len(S) - 1
  PROVE  Shorter(S, SubSeq(S, k + 1, Len(S)))
  <1>1. S \in Seq(SegmentType)
    BY DEF FilesOk
  <1>2. S # <<>>
    BY <1>1, SuffixIs
  <1> QED
    BY <1>2, CutIs DEF Shorter

LEMMA TruncateShorter ==
  ASSUME NEW S, FilesOk(S), Believed(S), NEW offset \in Nat
  PROVE  LET T == TruncateBelow(S, offset) IN
         /\ Shorter(S, T)
         /\ \A f \in Stored(S) : f \in Stored(T) \/ f.off < offset
  <1> DEFINE T == TruncateBelow(S, offset)
  <1>1. S \in Seq(SegmentType) /\ DiskRecords(S) \in Nat
    BY SlotsFinite DEF FilesOk
  <1>2. CASE S = <<>> /\ T = S
    BY <1>1, <1>2 DEF Shorter
  <1>3. CASE \E k \in 0..Len(S) - 1 :
               /\ T = SubSeq(S, k + 1, Len(S))
               /\ k # 0 => S[k].end <= offset
    <2>1. PICK k \in 0..Len(S) - 1 :
               /\ T = SubSeq(S, k + 1, Len(S))
               /\ k # 0 => S[k].end <= offset
      BY <1>3
    <2>2. Shorter(S, T)
      BY <2>1, SuffixShorter
    <2>3. ASSUME NEW f \in Stored(S), f \notin Stored(T) PROVE f.off < offset
      <3>1. k \in 1..Len(S) /\ k # 0 /\ f.off < S[k].end
        BY <2>1, <2>3, CutAway
      <3>2. f.off \in Nat /\ S[k].end \in Nat
        <4>1. f \in FrameType
          BY <2>3, StoredOffsets
        <4> QED
          BY <1>1, <3>1, <4>1, FileTypes DEF FrameType
      <3> QED
        BY <2>1, <3>1, <3>2
    <2> QED
      BY <2>2, <2>3
  <1> QED
    BY <1>2, <1>3, TruncateIs

(* dropOldest stops when there is room, or at the active file. *)
LEMMA DropIs ==
  ASSUME NEW S, FilesOk(S), NEW max \in Nat
  PROVE  LET k == FilesToDrop(S, max) IN
         /\ k \in 0..Len(S)
         /\ S = <<>> => k = 0
         /\ S # <<>> => k \in 0..Len(S) - 1
         /\ \/ DiskRecords(SubSeq(S, k + 1, Len(S))) + 1 <= max
            \/ k + 1 >= Len(S)
  <1> DEFINE D == {k \in 0..Len(S) :
                     \/ DiskRecords(SubSeq(S, k + 1, Len(S))) + 1 <= max
                     \/ k + 1 >= Len(S)}
             k == FilesToDrop(S, max)
  <1>1. Len(S) \in Nat /\ (S # <<>> => Len(S) # 0)
    BY FileTypes DEF FilesOk
  <1>2. Len(S) \in D
    BY <1>1
  <1>3. D \in SUBSET Nat
    BY <1>1
  <1>4. k = Min(D)
    BY DEF FilesToDrop
  <1>5. k \in D /\ \A x \in D : k <= x
    BY <1>2, <1>3, <1>4, MinIs
  <1>6. Len(S) # 0 => Len(S) - 1 \in D
    BY <1>1
  <1>7. /\ k \in 0..Len(S)
        /\ \/ DiskRecords(SubSeq(S, k + 1, Len(S))) + 1 <= max
           \/ k + 1 >= Len(S)
    BY <1>5
  <1>8. Len(S) # 0 => k <= Len(S) - 1
    BY <1>5, <1>6
  <1>9. S = <<>> => k = 0
    BY <1>7
  <1> HIDE DEF k, D
  <1>10. S # <<>> => k \in 0..Len(S) - 1
    BY <1>1, <1>7, <1>8
  <1> QED
    BY <1>7, <1>9, <1>10 DEF k

(* A new active file begins where the log ends. *)
LEMMA RolledIs ==
  ASSUME NEW S, FilesOk(S), Believed(S)
  PROVE  LET R == Append(FlushOs(S), SegmentFile(Reach(S), <<>>, 0)) IN
         /\ FilesOk(R) /\ Believed(R) /\ R # <<>>
         /\ Stored(R) = Stored(S) /\ Slots(R) = Slots(S)
         /\ Reach(R) = Reach(S) /\ Flushed(R) = Reach(S)
         /\ Frames(R, Len(R)) = 0
  <1> DEFINE F == FlushOs(S)
             new == SegmentFile(Reach(S), <<>>, 0)
             R == Append(F, new)
             n == Len(S)
  <1>1. /\ S \in Seq(SegmentType) /\ F \in Seq(SegmentType) /\ n \in Nat
        /\ FilesOk(F) /\ Same(S, F) /\ Flushed(F) = Reach(S) /\ Believed(F)
        /\ Laid(F) /\ Marked(F) /\ Len(F) = n
        /\ S # <<>> => F[n].os = Frames(S, n)
    BY FlushOsIs, FileTypes DEF FilesOk, Same
  <1>2. Reach(S) \in Nat
    BY StoredOffsets
  <1>3. /\ new.base = Reach(S) /\ new.end = Reach(S) /\ new.recs = <<>>
        /\ new.os = 0 /\ new.synced = 0 /\ new \in SegmentType
    BY <1>2 DEF SegmentFile, SegmentType
  <1> HIDE DEF F, new
  <1>4. /\ R \in Seq(SegmentType) /\ Len(R) = n + 1 /\ R # <<>>
        /\ \A i \in 1..n : R[i] = F[i]
        /\ R[n + 1] = new
    <2> HIDE DEF n
    <2>1. /\ R \in Seq(SegmentType) /\ Len(R) = n + 1
          /\ \A i \in 1..n : R[i] = F[i]
          /\ R[n + 1] = new
      BY <1>1, <1>3, AppendIs
    <2> HIDE DEF R
    <2> QED
      BY <1>1, <2>1
  <1> HIDE DEF R, n
  <1>5. Frames(R, n + 1) = 0 /\ \A i \in 1..n : Frames(R, i) = Frames(F, i)
    BY <1>3, <1>4 DEF Frames
  <1>6. /\ \A i \in 1..n : /\ F[i].base \in Nat /\ Frames(F, i) \in Nat
                           /\ F[i].os \in Nat /\ F[i].synced \in Nat
        /\ Reach(F) = Reach(S)
    BY <1>1, FileTypes, SameFiles
  <1>7. \A i \in 1..n : F[i].base + Frames(F, i) <= Reach(S)
    <2>1. ASSUME NEW i \in 1..n PROVE F[i].base + Frames(F, i) <= Reach(S)
      <3>1. F # <<>> /\ n \in 1..n /\ Reach(F) = F[n].base + Frames(F, n)
        BY <1>1 DEF Reach
      <3>2. i # n => F[i].base + Frames(F, i) <= F[n].base
        BY <1>1, <3>1 DEF Laid
      <3> QED
        BY <1>6, <3>1, <3>2
    <2> QED
      BY <2>1
  <1>8. Laid(R)
    <2>1. ASSUME NEW i \in 1..n + 1, NEW j \in 1..Frames(R, i)
          PROVE  R[i].recs[j].off = R[i].base + j - 1
      <3>1. i # n + 1
        BY <1>5
      <3>2. i \in 1..n
        BY <1>1, <3>1
      <3> QED
        BY <1>1, <1>4, <1>5, <3>2 DEF Laid
    <2>2. ASSUME NEW i \in 1..n + 1, NEW j \in 1..n + 1, i < j
          PROVE  R[i].base + Frames(R, i) <= R[j].base
      <3>1. i \in 1..n
        BY <1>1, <2>2
      <3>2. CASE j = n + 1
        BY <1>3, <1>4, <1>5, <1>7, <3>1, <3>2
      <3>3. CASE j # n + 1
        <4>1. j \in 1..n
          BY <1>1, <3>3
        <4> QED
          BY <1>1, <1>4, <1>5, <2>2, <3>1, <4>1 DEF Laid
      <3> QED
        BY <3>2, <3>3
    <2> QED
      BY <1>4, <2>1, <2>2 DEF Laid
  <1>9. Marked(R)
    <2>1. ASSUME NEW i \in 1..n + 1
          PROVE  /\ R[i].synced <= R[i].os /\ R[i].os <= Frames(R, i)
                 /\ i < n + 1 => R[i].os = Frames(R, i)
      <3>1. CASE i = n + 1
        BY <1>1, <1>3, <1>4, <1>5, <3>1
      <3>2. CASE i # n + 1
        <4>1. i \in 1..n
          BY <1>1, <3>2
        <4>2. /\ F[i].synced <= F[i].os /\ F[i].os <= Frames(F, i)
              /\ i < n => F[i].os = Frames(F, i)
          BY <1>1, <4>1 DEF Marked
        <4>3. i = n => F[i].os = Frames(F, i)
          <5>1. n \in 1..n => S # <<>> /\ Frames(F, n) = Frames(S, n)
            BY <1>1, SameFiles DEF n
          <5> QED
            BY <1>1, <4>1, <5>1
        <4>4. F[i].os = Frames(F, i)
          BY <1>1, <4>1, <4>2, <4>3
        <4> QED
          BY <1>4, <1>5, <4>1, <4>2, <4>4
      <3> QED
        BY <3>1, <3>2
    <2> QED
      BY <1>4, <2>1 DEF Marked
  <1>10. Believed(R)
    <2>1. ASSUME NEW i \in 1..n + 1
          PROVE  R[i].end = IF i < n + 1 THEN R[i + 1].base ELSE R[i].base + Frames(R, i)
      <3>1. CASE i = n + 1
        BY <1>1, <1>2, <1>3, <1>4, <1>5, <3>1
      <3>2. CASE i # n + 1
        <4>1. i \in 1..n /\ i < n + 1
          BY <1>1, <3>2
        <4>2. F[i].end = IF i < n THEN F[i + 1].base ELSE F[i].base + Frames(F, i)
          BY <1>1, <4>1 DEF Believed
        <4>3. CASE i < n
          <5>1. i + 1 \in 1..n
            BY <1>1, <4>1, <4>3
          <5> QED
            BY <1>4, <4>1, <4>2, <4>3, <5>1
        <4>4. CASE i = n
          <5>1. F # <<>> /\ Reach(F) = F[n].base + Frames(F, n)
            BY <1>1, <4>1, <4>4 DEF Reach
          <5>2. F[i].end = Reach(S) /\ R[i + 1].base = Reach(S)
            BY <1>1, <1>3, <1>4, <1>6, <4>2, <4>4, <5>1
          <5> QED
            BY <1>4, <4>1, <5>2
        <4> QED
          BY <1>1, <4>1, <4>3, <4>4
      <3> QED
        BY <3>1, <3>2
    <2> QED
      BY <1>4, <2>1 DEF Believed
  <1>11. Reach(R) = Reach(S) /\ Flushed(R) = Reach(S)
    BY <1>2, <1>3, <1>4, <1>5 DEF Reach, Flushed
  <1>12. Stored(R) = Stored(F) /\ Slots(R) = Slots(F)
    <2>1. ASSUME NEW f PROVE f \in Stored(R) <=> f \in Stored(F)
      <3>1. \A i \in 1..n + 1 : \A j \in 1..Frames(R, i) : i \in 1..n
        BY <1>1, <1>5
      <3>2. \A i \in 1..n : i \in 1..n + 1
        BY <1>1
      <3> QED
        BY <1>1, <1>4, <1>5, <3>1, <3>2, StoredIs
    <2>2. ASSUME NEW x PROVE x \in Slots(R) <=> x \in Slots(F)
      <3>1. \A i \in 1..n + 1 : \A j \in 1..Frames(R, i) : i \in 1..n
        BY <1>1, <1>5
      <3>2. \A i \in 1..n : i \in 1..n + 1
        BY <1>1
      <3> QED
        BY <1>1, <1>4, <1>5, <3>1, <3>2, SlotsAre
    <2> QED
      BY <2>1, <2>2
  <1>13. Stored(F) = Stored(S) /\ Slots(F) = Slots(S)
    BY <1>1, SameFiles
  <1> QED
    BY <1>4, <1>5, <1>8, <1>9, <1>10, <1>11, <1>12, <1>13 DEF FilesOk, R, F, new

(* One more frame in the active file. *)
LEMMA OneMoreIs ==
  ASSUME NEW R, FilesOk(R), Believed(R), R # <<>>, NEW id \in Nat
  PROVE  LET n == Len(R)
             frame == Frame(Reach(R), id)
             T == [R EXCEPT ![n].recs = Append(@, frame), ![n].end = @ + 1]
         IN  /\ FilesOk(T) /\ Believed(T) /\ Len(T) = n /\ T # <<>>
             /\ Stored(T) = Stored(R) \union {frame}
             /\ Reach(T) = Reach(R) + 1 /\ Flushed(T) = Flushed(R)
             /\ DiskRecords(T) = DiskRecords(R) + 1
             /\ Frames(T, n) = Frames(R, n) + 1 /\ T[n].os <= Frames(R, n)
  <1> DEFINE n == Len(R)
             frame == Frame(Reach(R), id)
             T == [R EXCEPT ![n].recs = Append(@, frame), ![n].end = @ + 1]
             m == Frames(R, n)
  <1>1. /\ R \in Seq(SegmentType) /\ Laid(R) /\ Marked(R) /\ n \in Nat /\ n \in 1..n
        /\ DOMAIN R = 1..n /\ m \in Nat /\ R[n].os \in Nat /\ R[n].base \in Nat
        /\ Reach(R) = R[n].base + m /\ R[n].recs \in Seq(FrameType)
        /\ R[n].end = R[n].base + m /\ R[n] \in SegmentType
    BY FileTypes DEF FilesOk, Reach, Believed
  <1>2. frame \in FrameType /\ frame.off = Reach(R) /\ frame.id = id
    BY <1>1 DEF Frame, FrameType
  <1>3. /\ T = [i \in 1..n |-> T[i]]
        /\ \A i \in 1..n : i # n => T[i] = R[i]
        /\ T[n] = [R[n] EXCEPT !.recs = Append(@, frame), !.end = @ + 1]
    BY <1>1
  <1> HIDE DEF T
  <1> DEFINE q == Append(R[n].recs, frame)
  <1>4. /\ q \in Seq(FrameType) /\ Len(q) = m + 1 /\ q[m + 1] = frame
        /\ \A j \in 1..m : q[j] = R[n].recs[j]
    BY <1>1, <1>2 DEF Frames
  <1>5. /\ T[n].recs = q /\ T[n].base = R[n].base /\ T[n].end = R[n].end + 1
        /\ T[n].os = R[n].os /\ T[n].synced = R[n].synced
        /\ T[n] \in SegmentType
    <2>1. R[n].end + 1 \in Nat
      BY <1>1
    <2> HIDE DEF q
    <2>2. T[n] = [R[n] EXCEPT !.recs = q, !.end = R[n].end + 1]
      BY <1>3 DEF q
    <2> QED
      BY <1>1, <1>4, <2>1, <2>2 DEF SegmentType
  <1> HIDE DEF q, n, m, frame
  <1>6. T \in Seq(SegmentType) /\ Len(T) = n
    <2>1. \A i \in 1..n : T[i] \in SegmentType
      BY <1>1, <1>3, <1>5, FileTypes DEF n
    <2> QED
      <3>1. T = [i \in 1..n |-> T[i]]
        BY <1>3
      <3>2. n \in Nat
        BY <1>1
      <3> QED
        BY <2>1, <3>1, <3>2, IsASeq
  <1>7. Frames(T, n) = m + 1 /\ \A i \in 1..n : i # n => Frames(T, i) = Frames(R, i)
    BY <1>3, <1>4, <1>5 DEF Frames
  <1>8. Laid(T)
    <2>1. ASSUME NEW i \in 1..n, NEW j \in 1..Frames(T, i)
          PROVE  T[i].recs[j].off = T[i].base + j - 1
      <3>1. CASE i # n
        <4>1. T[i] = R[i] /\ i \in 1..Len(R)
          BY <1>3, <3>1 DEF n
        <4>2. j \in 1..Frames(R, i)
          BY <1>7, <3>1
        <4>3. R[i].recs[j].off = R[i].base + j - 1
          BY <1>1, <4>1, <4>2 DEF Laid
        <4> QED
          BY <4>1, <4>3
      <3>2. CASE i = n /\ j = m + 1
        BY <1>1, <1>2, <1>4, <1>5, <3>2
      <3>3. CASE i = n /\ j # m + 1
        <4>1. j \in 1..m
          BY <1>1, <1>7, <3>3
        <4>2. R[n].recs[j].off = R[n].base + j - 1
          BY <1>1, <4>1 DEF Laid, n, m
        <4> QED
          BY <1>4, <1>5, <3>3, <4>1, <4>2
      <3> QED
        BY <3>1, <3>2, <3>3
    <2>2. ASSUME NEW i \in 1..n, NEW j \in 1..n, i < j
          PROVE  T[i].base + Frames(T, i) <= T[j].base
      <3>1. i # n
        BY <1>1, <2>2
      <3>2. T[j].base = R[j].base
        BY <1>3, <1>5
      <3>3. R[i].base + Frames(R, i) <= R[j].base
        BY <1>1, <2>2 DEF Laid, n
      <3> QED
        BY <1>3, <1>7, <3>1, <3>2, <3>3
    <2> QED
      BY <1>6, <2>1, <2>2 DEF Laid
  <1>9. R[n].synced <= R[n].os /\ R[n].os <= m
    BY <1>1 DEF Marked, n, m
  <1>10. Marked(T)
    <2>1. ASSUME NEW i \in 1..n
          PROVE  /\ T[i].synced <= T[i].os /\ T[i].os <= Frames(T, i)
                 /\ i < n => T[i].os = Frames(T, i)
      <3>1. CASE i # n
        BY <1>1, <1>3, <1>7, <3>1 DEF Marked, n
      <3>2. CASE i = n
        BY <1>1, <1>5, <1>7, <1>9, <3>2
      <3> QED
        BY <3>1, <3>2
    <2> QED
      BY <1>6, <2>1 DEF Marked
  <1>11. Believed(T)
    <2>1. ASSUME NEW i \in 1..n
          PROVE  T[i].end = IF i < n THEN T[i + 1].base ELSE T[i].base + Frames(T, i)
      <3>1. CASE i # n
        <4>1. i + 1 \in 1..n /\ i < n
          BY <1>1, <3>1
        <4>2. T[i + 1].base = R[i + 1].base
          BY <1>3, <1>5, <4>1
        <4>3. R[i].end = R[i + 1].base
          BY <4>1 DEF Believed, n
        <4> QED
          BY <1>3, <3>1, <4>1, <4>2, <4>3
      <3>2. CASE i = n
        BY <1>1, <1>5, <1>7, <3>2
      <3> QED
        BY <3>1, <3>2
    <2> QED
      BY <1>6, <2>1 DEF Believed
  <1>12. T # <<>> /\ Reach(T) = Reach(R) + 1 /\ Flushed(T) = Flushed(R)
    <2>1. T # <<>>
      BY <1>1, <1>6
    <2>2. Reach(T) = T[n].base + Frames(T, n) /\ Flushed(T) = T[n].base + T[n].os
      BY <1>6, <2>1 DEF Reach, Flushed
    <2>3. Flushed(R) = R[n].base + R[n].os
      BY DEF Flushed, n
    <2> QED
      <3>1. /\ T[n].base = R[n].base /\ T[n].os = R[n].os /\ Frames(T, n) = m + 1
            /\ Reach(R) = R[n].base + m /\ R[n].base \in Nat /\ m \in Nat
        BY <1>1, <1>5, <1>7
      <3>2. Reach(T) = Reach(R) + 1
        BY <2>2, <3>1
      <3>3. Flushed(T) = Flushed(R)
        BY <2>2, <2>3, <3>1
      <3> QED
        BY <2>1, <3>2, <3>3
  <1>13. Stored(T) = Stored(R) \union {frame}
    <2>1. ASSUME NEW f \in Stored(T) PROVE f \in Stored(R) \union {frame}
      <3>1. PICK i \in 1..n : \E j \in 1..Frames(T, i) : f = T[i].recs[j]
        BY <1>6, StoredIs
      <3>2. PICK j \in 1..Frames(T, i) : f = T[i].recs[j]
        BY <3>1
      <3>3. CASE i # n
        BY <1>1, <1>3, <1>7, <3>2, <3>3, StoredIs DEF n
      <3>4. CASE i = n /\ j = m + 1
        BY <1>4, <1>5, <3>2, <3>4
      <3>5. CASE i = n /\ j # m + 1
        <4>1. j \in 1..m /\ f = R[n].recs[j]
          BY <1>1, <1>4, <1>5, <1>7, <3>2, <3>5
        <4> QED
          BY <1>1, <4>1, StoredIs DEF n, m
      <3> QED
        BY <3>3, <3>4, <3>5
    <2>2. ASSUME NEW f \in Stored(R) PROVE f \in Stored(T)
      <3>1. PICK i \in 1..n : \E j \in 1..Frames(R, i) : f = R[i].recs[j]
        BY <1>1, StoredIs DEF n
      <3>2. PICK j \in 1..Frames(R, i) : f = R[i].recs[j]
        BY <3>1
      <3>3. CASE i # n
        BY <1>3, <1>6, <1>7, <3>2, <3>3, StoredIs
      <3>4. CASE i = n
        <4>1. j \in 1..m /\ j \in 1..m + 1
          BY <1>1, <3>4 DEF m
        <4>2. f = T[n].recs[j] /\ j \in 1..Frames(T, n)
          BY <1>4, <1>5, <1>7, <3>2, <3>4, <4>1
        <4> QED
          BY <1>1, <1>6, <4>2, StoredIs
      <3> QED
        BY <3>3, <3>4
    <2>3. frame \in Stored(T)
      <3>1. m + 1 \in 1..Frames(T, n) /\ frame = T[n].recs[m + 1]
        BY <1>1, <1>4, <1>5, <1>7
      <3> QED
        BY <1>1, <1>6, <3>1, StoredIs
    <2> QED
      BY <2>1, <2>2, <2>3
  <1>14. DiskRecords(T) = DiskRecords(R) + 1
    <2>1. ASSUME NEW x PROVE x \in Slots(T) <=> x \in Slots(R) \/ x = <<n, m + 1>>
      <3>1. ASSUME x \in Slots(T) PROVE x \in Slots(R) \/ x = <<n, m + 1>>
        <4>1. PICK i \in 1..n : \E j \in 1..Frames(T, i) : x = <<i, j>>
          BY <1>6, <3>1, SlotsAre
        <4>2. PICK j \in 1..Frames(T, i) : x = <<i, j>>
          BY <4>1
        <4>3. j \in 1..Frames(R, i) \/ (i = n /\ j = m + 1)
          <5>1. CASE i # n
            BY <1>7, <5>1
          <5>2. CASE i = n
            BY <1>1, <1>7, <5>2 DEF m
          <5> QED
            BY <5>1, <5>2
        <4> QED
          BY <4>2, <4>3, SlotsAre DEF n
      <3>2. ASSUME x \in Slots(R) PROVE x \in Slots(T)
        <4>1. PICK i \in 1..n : \E j \in 1..Frames(R, i) : x = <<i, j>>
          BY <3>2, SlotsAre DEF n
        <4>2. PICK j \in 1..Frames(R, i) : x = <<i, j>>
          BY <4>1
        <4>3. j \in 1..Frames(T, i)
          <5>1. CASE i # n
            BY <1>7, <5>1
          <5>2. CASE i = n
            BY <1>1, <1>7, <5>2 DEF m
          <5> QED
            BY <5>1, <5>2
        <4> QED
          BY <1>6, <4>2, <4>3, SlotsAre
      <3>3. <<n, m + 1>> \in Slots(T)
        <4>1. n \in 1..n /\ m + 1 \in 1..Frames(T, n)
          BY <1>1, <1>7
        <4> QED
          BY <1>6, <4>1, SlotsAre
      <3> QED
        BY <3>1, <3>2, <3>3
    <2>2. Slots(T) = Slots(R) \union {<<n, m + 1>>}
      BY <2>1
    <2>3. <<n, m + 1>> \notin Slots(R)
      <3>1. SUFFICES ASSUME <<n, m + 1>> \in Slots(R) PROVE FALSE
        OBVIOUS
      <3>2. PICK i \in 1..n : \E j \in 1..Frames(R, i) : <<n, m + 1>> = <<i, j>>
        BY <3>1, SlotsAre DEF n
      <3>3. PICK j \in 1..Frames(R, i) : <<n, m + 1>> = <<i, j>>
        BY <3>2
      <3>4. i = n /\ j = m + 1
        BY <3>3
      <3>5. m + 1 \in 1..m
        BY <3>4 DEF m
      <3> QED
        BY <1>1, <3>5
    <2>4. IsFiniteSet(Slots(R))
      BY <1>1, SlotsFinite
    <2> QED
      BY <2>2, <2>3, <2>4, FS_AddElement DEF DiskRecords
  <1>15. T[n].os <= m
    BY <1>5, <1>9
  <1> QED
    BY <1>6, <1>7, <1>8, <1>10, <1>11, <1>12, <1>13, <1>14, <1>15 DEF FilesOk, T, n, m, frame

(* The log S with one more frame. *)
Grown(S, T, id) ==
    /\ FilesOk(T) /\ Believed(T) /\ T # <<>>
    /\ Stored(T) = Stored(S) \union {Frame(Reach(S), id)}
    /\ Reach(T) = Reach(S) + 1 /\ Flushed(S) <= Flushed(T)
    /\ DiskRecords(T) = DiskRecords(S) + 1

LEMMA SpilledIs ==
  ASSUME NEW T, FilesOk(T), Believed(T), T # <<>>,
         Frames(T, Len(T)) # 0, T[Len(T)].os <= Frames(T, Len(T)) - 1,
         NEW U \in Spilled(T)
  PROVE  /\ FilesOk(U) /\ Believed(U) /\ U # <<>> /\ Same(T, U)
         /\ Flushed(T) <= Flushed(U)
  <1> DEFINE n == Len(T)
             m == Frames(T, n)
  <1>1. /\ T \in Seq(SegmentType) /\ Laid(T) /\ Marked(T) /\ n \in Nat /\ n \in 1..n
        /\ DOMAIN T = 1..n /\ m \in Nat /\ T[n].os \in Nat /\ T[n].base \in Nat
        /\ T[n].synced \in Nat /\ T[n] \in SegmentType
        /\ T[n].synced <= T[n].os /\ T[n].os <= m - 1 /\ m # 0
    BY FileTypes DEF FilesOk, Marked
  <1>2. PICK k \in {T[n].os, m - 1, m} : U = [T EXCEPT ![n].os = k]
    BY DEF Spilled, Frames
  <1>3. k \in Nat /\ T[n].os <= k /\ k <= m
    BY <1>1
  <1>4. /\ U = [i \in 1..n |-> U[i]]
        /\ \A i \in 1..n : i # n => U[i] = T[i]
        /\ U[n] = [T[n] EXCEPT !.os = k]
    BY <1>1, <1>2
  <1> HIDE DEF n, m
  <1>5. /\ U[n].base = T[n].base /\ U[n].recs = T[n].recs /\ U[n].end = T[n].end
        /\ U[n].synced = T[n].synced /\ U[n].os = k /\ U[n] \in SegmentType
    BY <1>1, <1>3, <1>4 DEF SegmentType
  <1>6. U \in Seq(SegmentType) /\ Len(U) = n
    <2>1. \A i \in 1..n : U[i] \in SegmentType
      BY <1>1, <1>4, <1>5, FileTypes DEF n
    <2>2. U = [i \in 1..n |-> U[i]]
      BY <1>4
    <2>3. n \in Nat
      BY <1>1
    <2> QED
      BY <2>1, <2>2, <2>3, IsASeq
  <1>7. Same(T, U) /\ \A i \in 1..Len(T) : U[i].end = T[i].end
    BY <1>4, <1>5, <1>6 DEF Same, n
  <1>8. /\ \A i \in 1..n : Frames(U, i) = Frames(T, i)
        /\ Laid(U) /\ Believed(U)
    BY <1>1, <1>6, <1>7, SameFiles DEF n
  <1>9. U # <<>>
    BY <1>1, <1>6
  <1>10. Marked(U)
    <2>1. ASSUME NEW i \in 1..n
          PROVE  /\ U[i].synced <= U[i].os /\ U[i].os <= Frames(U, i)
                 /\ i < n => U[i].os = Frames(U, i)
      <3>1. CASE i # n
        BY <1>1, <1>4, <1>8, <3>1 DEF Marked, n
      <3>2. CASE i = n
        <4>1. Frames(U, n) = m
          BY <1>1, <1>8 DEF m
        <4> QED
          BY <1>1, <1>3, <1>5, <3>2, <4>1
      <3> QED
        BY <3>1, <3>2
    <2> QED
      BY <1>6, <2>1 DEF Marked
  <1>11. Flushed(T) <= Flushed(U)
    <2>1. Flushed(T) = T[n].base + T[n].os /\ Flushed(U) = U[n].base + U[n].os
      BY <1>6, <1>9 DEF Flushed, n
    <2> QED
      BY <1>1, <1>3, <1>5, <2>1
  <1> QED
    BY <1>6, <1>7, <1>8, <1>9, <1>10, <1>11 DEF FilesOk

(* append of the segment store. *)
LEMMA AppendFrameIs ==
  ASSUME NEW S, FilesOk(S), Believed(S), NEW cap \in Nat \ {0}, NEW id \in Nat,
         S = <<>> \/ Frames(S, Len(S)) <= cap,
         NEW U \in Spilled(AppendFrame(S, cap, id))
  PROVE  Grown(S, U, id) /\ Frames(U, Len(U)) <= cap
  <1> DEFINE R == IF NeedNew(S, cap)
                  THEN Append(FlushOs(S), SegmentFile(Reach(S), <<>>, 0)) ELSE S
             T == [R EXCEPT ![Len(R)].recs = Append(@, Frame(Reach(S), id)),
                            ![Len(R)].end = @ + 1]
  <1>1. AppendFrame(S, cap, id) = T
    <2>1. NextOffset(S) = Reach(S)
      BY NextIsReach
    <2> QED
      BY <2>1 DEF AppendFrame
  <1>2. /\ Reach(S) \in Nat /\ Flushed(S) \in Nat /\ Flushed(S) <= Reach(S)
        /\ S \in Seq(SegmentType)
    BY StoredOffsets DEF FilesOk
  <1>3. /\ FilesOk(R) /\ Believed(R) /\ R # <<>>
        /\ Stored(R) = Stored(S) /\ Slots(R) = Slots(S)
        /\ Reach(R) = Reach(S) /\ Flushed(S) <= Flushed(R)
        /\ Frames(R, Len(R)) \in Nat /\ Frames(R, Len(R)) + 1 <= cap
    <2>1. CASE NeedNew(S, cap)
      <3>1. R = Append(FlushOs(S), SegmentFile(Reach(S), <<>>, 0))
        BY <2>1
      <3> HIDE DEF R
      <3>2. /\ FilesOk(R) /\ Believed(R) /\ R # <<>>
            /\ Stored(R) = Stored(S) /\ Slots(R) = Slots(S)
            /\ Reach(R) = Reach(S) /\ Flushed(R) = Reach(S)
            /\ Frames(R, Len(R)) = 0
        BY <3>1, RolledIs
      <3> QED
        BY <1>2, <3>2
    <2>2. CASE ~NeedNew(S, cap)
      <3>1. R = S /\ S # <<>>
        BY <2>2 DEF NeedNew
      <3>2. S[Len(S)].recs = <<>> \/ ~(Frames(S, Len(S)) + 1 > cap)
        BY <2>2 DEF NeedNew, Last, Frames
      <3>3. Frames(S, Len(S)) \in Nat
        BY <1>2, <3>1, FileTypes
      <3>4. S[Len(S)].recs = <<>> => Frames(S, Len(S)) = 0
        BY DEF Frames
      <3> HIDE DEF R
      <3>5. Frames(R, Len(R)) + 1 <= cap
        BY <3>1, <3>2, <3>3, <3>4
      <3> QED
        BY <1>2, <3>1, <3>3, <3>5
    <2> QED
      BY <2>1, <2>2
  <1> HIDE DEF R
  <1>4. /\ FilesOk(T) /\ Believed(T) /\ Len(T) = Len(R) /\ T # <<>>
        /\ Stored(T) = Stored(S) \union {Frame(Reach(S), id)}
        /\ Reach(T) = Reach(S) + 1 /\ Flushed(T) = Flushed(R)
        /\ DiskRecords(T) = DiskRecords(R) + 1
        /\ Frames(T, Len(R)) = Frames(R, Len(R)) + 1 /\ T[Len(R)].os <= Frames(R, Len(R))
    BY <1>3, OneMoreIs
  <1> HIDE DEF T
  <1>5. T[Len(T)].os \in Nat
    BY <1>4, FileTypes DEF FilesOk
  <1>6. /\ Frames(T, Len(T)) # 0 /\ T[Len(T)].os <= Frames(T, Len(T)) - 1
        /\ U \in Spilled(T)
    BY <1>1, <1>3, <1>4, <1>5
  <1>7. /\ FilesOk(U) /\ Believed(U) /\ U # <<>> /\ Same(T, U)
        /\ Flushed(T) <= Flushed(U)
    BY <1>4, <1>6, SpilledIs
  <1>8. /\ Stored(U) = Stored(T) /\ DiskRecords(U) = DiskRecords(T) /\ Reach(U) = Reach(T)
        /\ Len(U) = Len(T) /\ Frames(U, Len(U)) = Frames(T, Len(T))
    <2>1. T \in Seq(SegmentType) /\ U \in Seq(SegmentType) /\ Len(U) = Len(T)
      BY <1>4, <1>7 DEF FilesOk, Same
    <2>2. Len(T) \in 1..Len(T)
      BY <1>4, <2>1, FileTypes
    <2> QED
      BY <1>7, <2>1, <2>2, SameFiles
  <1>9. DiskRecords(R) = DiskRecords(S)
    BY <1>3 DEF DiskRecords
  <1>10. Flushed(S) <= Flushed(U)
    <2>1. Flushed(R) \in Nat /\ Flushed(U) \in Nat
      BY <1>3, <1>7, StoredOffsets
    <2> QED
      BY <1>2, <1>3, <1>4, <1>7, <2>1
  <1> QED
    BY <1>3, <1>4, <1>7, <1>8, <1>9, <1>10 DEF Grown

LEMMA SameSeq ==
  ASSUME NEW S, NEW s \in Seq(S), NEW t \in Seq(S), Len(s) = Len(t),
         \A i \in 1..Len(s) : s[i] = t[i]
  PROVE  s = t
  OBVIOUS

LEMMA JoinIs ==
  ASSUME NEW S, NEW a \in Seq(S), NEW b \in Seq(S)
  PROVE  /\ a \o b \in Seq(S) /\ Len(a) \in Nat /\ Len(b) \in Nat
         /\ Len(a \o b) = Len(a) + Len(b)
         /\ \A i \in 1..Len(a) : (a \o b)[i] = a[i]
         /\ \A i \in 1..Len(b) : (a \o b)[Len(a) + i] = b[i]
  OBVIOUS

(* append of the memory store: the record in a file of its own, and an     *)
(* empty one behind it.                                                    *)
LEMMA AppendRecordIs ==
  ASSUME NEW S, FilesOk(S), Believed(S), NEW id \in Nat,
         S = <<>> \/ Frames(S, Len(S)) = 0
  PROVE  LET U == AppendRecord(S, id) IN
         Grown(S, U, id) /\ Frames(U, Len(U)) = 0 /\ Flushed(U) = Reach(U)
  <1> DEFINE B == IF S = <<>> THEN Append(FlushOs(S), SegmentFile(Reach(S), <<>>, 0)) ELSE S
             n == Len(B)
             r == Reach(S)
             frame == Frame(r, id)
             T == [B EXCEPT ![n].recs = Append(@, frame), ![n].end = @ + 1]
             F == FlushOs(T)
             a == SegmentFile(r, <<frame>>, 1)
             b == SegmentFile(r + 1, <<>>, 0)
             Z == Append(F, b)
             W == AppendRecord(S, id)
  <1>1. /\ r \in Nat /\ Flushed(S) \in Nat /\ Flushed(S) <= r /\ S \in Seq(SegmentType)
    BY StoredOffsets DEF FilesOk
  <1>2. /\ FilesOk(B) /\ Believed(B) /\ B # <<>> /\ Stored(B) = Stored(S)
        /\ DiskRecords(B) = DiskRecords(S) /\ Reach(B) = r /\ Frames(B, n) = 0
    <2>1. CASE S = <<>>
      <3>1. B = Append(FlushOs(S), SegmentFile(Reach(S), <<>>, 0))
        BY <2>1
      <3> HIDE DEF B
      <3> QED
        BY <3>1, RolledIs DEF DiskRecords
    <2>2. CASE S # <<>>
      BY <2>2
    <2> QED
      BY <2>1, <2>2
  <1>3. /\ B \in Seq(SegmentType) /\ n \in Nat /\ n \in 1..n /\ DOMAIN B = 1..n
        /\ B[n] \in SegmentType /\ B[n].base = r /\ B[n].end = r
        /\ B[n].recs = <<>> /\ B[n].os = 0 /\ B[n].synced = 0
    <2> HIDE DEF B
    <2>1. /\ B \in Seq(SegmentType) /\ n \in Nat /\ n \in 1..n /\ DOMAIN B = 1..n
          /\ B[n] \in SegmentType /\ B[n].base \in Nat /\ B[n].os \in Nat
          /\ B[n].synced \in Nat /\ B[n].recs \in Seq(FrameType)
      BY <1>2, FileTypes DEF FilesOk
    <2>2. r = B[n].base + 0 /\ B[n].end = B[n].base + 0
      BY <1>2, <2>1 DEF Reach, Believed
    <2>3. B[n].synced <= B[n].os /\ B[n].os <= 0
      BY <1>2, <2>1 DEF FilesOk, Marked
    <2>4. B[n].recs = <<>>
      BY <1>2, <2>1 DEF Frames
    <2> QED
      BY <2>1, <2>2, <2>3, <2>4
  <1>4. /\ FilesOk(T) /\ Believed(T) /\ Len(T) = n /\ T # <<>>
        /\ Stored(T) = Stored(S) \union {frame}
        /\ Reach(T) = r + 1 /\ DiskRecords(T) = DiskRecords(S) + 1
    <2>1. /\ FilesOk(T) /\ Believed(T) /\ Len(T) = n /\ T # <<>>
          /\ Stored(T) = Stored(B) \union {frame}
          /\ Reach(T) = Reach(B) + 1 /\ DiskRecords(T) = DiskRecords(B) + 1
      <3>1. frame = Frame(Reach(B), id)
        BY <1>2
      <3> HIDE DEF B, frame, r
      <3> QED
        BY <1>2, <3>1, OneMoreIs
    <2> HIDE DEF B, T, frame, r, n
    <2> QED
      BY <1>2, <2>1
  <1>5. /\ FilesOk(Z) /\ Believed(Z) /\ Z # <<>>
        /\ Stored(Z) = Stored(T) /\ DiskRecords(Z) = DiskRecords(T)
        /\ Reach(Z) = Reach(T) /\ Flushed(Z) = Reach(T)
        /\ Frames(Z, Len(Z)) = 0
    <2>1. Z = Append(FlushOs(T), SegmentFile(Reach(T), <<>>, 0))
      BY <1>4
    <2> HIDE DEF T, Z
    <2> QED
      BY <1>4, <2>1, RolledIs DEF DiskRecords
  <1>6. /\ F \in Seq(SegmentType) /\ Len(F) = n /\ F[n] = a
        /\ \A i \in 1..n - 1 : F[i] = B[i]
    <2> HIDE DEF B
    <2>1. /\ F \in Seq(SegmentType) /\ Len(F) = n
      <3> HIDE DEF T
      <3> QED
        BY <1>4, FlushOsIs DEF FilesOk, Same
    <2>2. \A i \in 1..n - 1 : T[i] = B[i]
      BY <1>3
    <2>3. T[n] = [B[n] EXCEPT !.recs = Append(@, frame), !.end = @ + 1] /\ DOMAIN T = 1..n
      BY <1>3
    <2>4. /\ F = [T EXCEPT ![n].os = Len(T[n].recs)]
      BY <1>4 DEF FlushOs, Last
    <2> HIDE DEF T, F
    <2>5. F[n] = [T[n] EXCEPT !.os = Len(T[n].recs)] /\ \A i \in 1..n - 1 : F[i] = T[i]
      BY <1>3, <2>3, <2>4
    <2>6. T[n].recs = <<frame>>
      <3>1. T[n].recs = Append(B[n].recs, frame)
        BY <1>3, <2>3 DEF SegmentType
      <3> QED
        BY <1>3, <3>1
    <2>7. F[n] = a
      <3>1. /\ F[n].base = r /\ F[n].end = r + 1 /\ F[n].recs = <<frame>>
            /\ F[n].os = 1 /\ F[n].synced = 0
        BY <1>3, <2>3, <2>5, <2>6 DEF SegmentType
      <3>2. F[n] \in SegmentType
        BY <1>3, <2>1
      <3>3. /\ a.base = r /\ a.end = r + 1 /\ a.recs = <<frame>>
            /\ a.os = 1 /\ a.synced = 0
        BY DEF SegmentFile
      <3>4. a = [base |-> a.base, end |-> a.end, recs |-> a.recs, os |-> a.os, synced |-> a.synced]
        BY DEF SegmentFile
      <3>5. F[n] = [base |-> F[n].base, end |-> F[n].end, recs |-> F[n].recs,
                    os |-> F[n].os, synced |-> F[n].synced]
        BY <3>2 DEF SegmentType
      <3> HIDE DEF a
      <3> QED
        BY <3>1, <3>3, <3>4, <3>5
    <2> QED
      BY <2>1, <2>2, <2>5, <2>7
  <1>7. a \in SegmentType /\ b \in SegmentType
    <2>1. frame \in FrameType
      BY <1>1 DEF Frame, FrameType
    <2> HIDE DEF frame
    <2>2. <<frame>> \in Seq(FrameType) /\ Len(<<frame>>) = 1
      BY <2>1
    <2>3. <<>> \in Seq(FrameType) /\ Len(<<>>) = 0
      OBVIOUS
    <2> QED
      BY <1>1, <2>2, <2>3 DEF SegmentFile, SegmentType
  <1>8. /\ Front(S) \in Seq(SegmentType) /\ Len(Front(S)) = n - 1
        /\ \A i \in 1..n - 1 : Front(S)[i] = B[i]
    <2>1. CASE S = <<>>
      <3>1. Front(S) = <<>>
        BY <2>1 DEF Front
      <3>2. n = 1
        <4>1. FlushOs(S) = <<>> /\ B = Append(<<>>, SegmentFile(Reach(S), <<>>, 0))
          BY <2>1 DEF FlushOs
        <4> QED
          BY <4>1
      <3>3. <<>> \in Seq(SegmentType) /\ Len(<<>>) = 0
        OBVIOUS
      <3> HIDE DEF B, n
      <3>4. \A i \in 1..n - 1 : FALSE
        BY <3>2
      <3> QED
        BY <3>1, <3>2, <3>3, <3>4
    <2>2. CASE S # <<>>
      <3>1. B = S
        BY <2>2
      <3>2. Front(S) = SubSeq(S, 1, n - 1)
        BY <3>1 DEF Front
      <3> HIDE DEF B
      <3> QED
        BY <1>3, <3>1, <3>2
    <2> QED
      BY <2>1, <2>2
  <1>9. W = Front(S) \o <<a, b>>
    BY NextIsReach DEF AppendRecord
  <1> HIDE DEF B, n, a, b, F, T
  <1>10. /\ W \in Seq(SegmentType) /\ Len(W) = n + 1
         /\ \A i \in 1..n - 1 : W[i] = B[i]
         /\ W[n] = a /\ W[n + 1] = b
    <2>1. /\ <<a, b>> \in Seq(SegmentType) /\ Len(<<a, b>>) = 2
          /\ <<a, b>>[1] = a /\ <<a, b>>[2] = b
      BY <1>7
    <2> DEFINE c == <<a, b>>
               d == Front(S)
    <2> HIDE DEF c, d
    <2>2. /\ d \o c \in Seq(SegmentType) /\ Len(d \o c) = Len(d) + Len(c)
          /\ \A i \in 1..Len(d) : (d \o c)[i] = d[i]
          /\ \A i \in 1..Len(c) : (d \o c)[Len(d) + i] = c[i]
      BY <1>8, <2>1, JoinIs DEF c, d
    <2>3. Len(d) = n - 1 /\ Len(c) = 2 /\ c[1] = a /\ c[2] = b /\ W = d \o c
      BY <1>8, <1>9, <2>1 DEF c, d
    <2>4. (d \o c)[(n - 1) + 1] = a /\ (d \o c)[(n - 1) + 2] = b
      BY <2>2, <2>3
    <2>5. (n - 1) + 1 = n /\ (n - 1) + 2 = n + 1
      BY <1>3
    <2>6. \A i \in 1..n - 1 : W[i] = B[i]
      BY <1>8, <2>2, <2>3 DEF d
    <2> QED
      BY <2>2, <2>3, <2>4, <2>5, <2>6
  <1>11. /\ Z \in Seq(SegmentType) /\ Len(Z) = n + 1
         /\ \A i \in 1..n : Z[i] = F[i]
         /\ Z[n + 1] = b
    BY <1>6, <1>7, AppendIs
  <1>12. W = Z
    <2>1. ASSUME NEW i \in 1..n + 1 PROVE W[i] = Z[i]
      <3>1. i \in 1..n - 1 \/ i = n \/ i = n + 1
        BY <1>3
      <3>2. \A j \in 1..n - 1 : j \in 1..n
        BY <1>3
      <3> QED
        BY <1>3, <1>6, <1>10, <1>11, <3>1, <3>2
    <2> QED
      BY <1>10, <1>11, <2>1, SameSeq
  <1> HIDE DEF Z, W
  <1>13. Flushed(S) <= Flushed(Z) /\ Flushed(Z) = Reach(Z)
    BY <1>1, <1>4, <1>5
  <1> QED
    BY <1>4, <1>5, <1>12, <1>13 DEF Grown, W


-----------------------------------------------------------------------------
(* Crashes. *)

(* A prefix of a sequence. *)
LEMMA PrefixIs ==
  ASSUME NEW S, NEW s \in Seq(S), NEW k \in 0..Len(s)
  PROVE  LET t == SubSeq(s, 1, k) IN
         /\ t \in Seq(S) /\ Len(t) = k
         /\ \A i \in 1..k : t[i] = s[i]
         /\ k = Len(s) => t = s
  <1>1. Len(s) \in Nat /\ k \in Nat
    OBVIOUS
  <1> DEFINE t == SubSeq(s, 1, k)
  <1>2. /\ t \in Seq(S) /\ Len(t) = k
        /\ \A i \in 1..k : t[i] = s[i]
    BY <1>1
  <1> HIDE DEF t
  <1>3. k = Len(s) => t = s
    BY <1>2, SameSeq
  <1> QED
    BY <1>2, <1>3 DEF t

(* A crash leaves a prefix of every file. *)
LEMMA CrashIs ==
  ASSUME NEW S, FilesOk(S), NEW power \in BOOLEAN, NEW kept \in Survivals(S, power)
  PROVE  LET T == AfterCrash(S, kept, power) IN
         /\ FilesOk(T) /\ Len(T) = Len(S)
         /\ S = <<>> <=> T = <<>>
         /\ S # <<>> => /\ T[Len(T)].os = Frames(T, Len(T))
                        /\ Frames(T, Len(T)) <= Frames(S, Len(S))
         /\ Stored(T) \subseteq Stored(S)
         /\ DiskRecords(T) <= DiskRecords(S)
         /\ ~power => /\ \A f \in Stored(S) : f.off < Flushed(S) => f \in Stored(T)
                      /\ Flushed(S) <= Reach(T)
  <1> DEFINE T == AfterCrash(S, kept, power)
             n == Len(S)
  <1>1. S \in Seq(SegmentType) /\ Laid(S) /\ Marked(S) /\ n \in Nat
    BY FileTypes DEF FilesOk
  <1>2. ASSUME NEW i \in 1..n
        PROVE  /\ kept[i] \in Nat /\ kept[i] <= Frames(S, i)
               /\ kept[i] \in 0..Frames(S, i)
               /\ ~power => S[i].os <= kept[i]
               /\ power => S[i].synced <= kept[i]
    <2>1. DiskRecords(S) \in Nat
      BY <1>1, SlotsFinite
    <2>2. kept[i] \in 0..DiskRecords(S)
      BY DEF Survivals
    <2>3. kept[i] \in Nat
      BY <2>1, <2>2
    <2>4. kept[i] <= Frames(S, i) /\ kept[i] >= IF power THEN S[i].synced ELSE S[i].os
      BY DEF Survivals, Frames
    <2>5. Frames(S, i) \in Nat /\ S[i].os \in Nat /\ S[i].synced \in Nat
      BY <1>1, FileTypes
    <2> QED
      BY <2>3, <2>4, <2>5
  <1>3. ASSUME NEW i \in 1..n
        PROVE  /\ T[i] \in SegmentType /\ T[i].base = S[i].base
               /\ T[i].os = kept[i] /\ Frames(T, i) = kept[i]
               /\ T[i].synced <= kept[i]
               /\ \A j \in 1..kept[i] : T[i].recs[j] = S[i].recs[j]
    <2>1. /\ S[i] \in SegmentType /\ S[i].recs \in Seq(FrameType)
          /\ S[i].synced \in Nat /\ S[i].os \in Nat /\ Len(S[i].recs) = Frames(S, i)
          /\ S[i].synced <= S[i].os
      BY <1>1, FileTypes DEF Frames, Marked
    <2>2. T[i] = [S[i] EXCEPT !.recs = SubSeq(@, 1, kept[i]),
                              !.os = kept[i],
                              !.synced = IF power THEN kept[i] ELSE @]
      BY DEF AfterCrash
    <2> DEFINE t == SubSeq(S[i].recs, 1, kept[i])
               y == IF power THEN kept[i] ELSE S[i].synced
    <2>3. /\ t \in Seq(FrameType) /\ Len(t) = kept[i]
          /\ \A j \in 1..kept[i] : t[j] = S[i].recs[j]
      BY <1>2, <2>1, PrefixIs
    <2>4. y \in Nat /\ y <= kept[i]
      BY <1>2, <2>1
    <2> HIDE DEF t, y, T
    <2>5. T[i] = [S[i] EXCEPT !.recs = t, !.os = kept[i], !.synced = y]
      BY <2>1, <2>2 DEF t, y, SegmentType
    <2>6. /\ T[i] \in SegmentType /\ T[i].base = S[i].base
          /\ T[i].os = kept[i] /\ T[i].recs = t /\ T[i].synced = y
      BY <1>2, <2>1, <2>3, <2>4, <2>5 DEF SegmentType
    <2> QED
      BY <2>3, <2>4, <2>6 DEF Frames
  <1>4. T \in Seq(SegmentType) /\ Len(T) = n
    <2>1. T = [i \in 1..n |-> T[i]]
      BY DEF AfterCrash
    <2>2. \A i \in 1..n : T[i] \in SegmentType
      BY <1>3
    <2> HIDE DEF T, n
    <2> QED
      BY <1>1, <2>1, <2>2, IsASeq
  <1> HIDE DEF T, n
  <1>5. Laid(T)
    <2>1. ASSUME NEW i \in 1..n, NEW j \in 1..kept[i]
          PROVE  T[i].recs[j].off = T[i].base + j - 1
      <3>1. j \in 1..Frames(S, i)
        BY <1>2, <1>1, FileTypes DEF n
      <3> QED
        BY <1>1, <1>3, <3>1 DEF Laid, n
    <2>2. ASSUME NEW i \in 1..n, NEW j \in 1..n, i < j
          PROVE  T[i].base + kept[i] <= T[j].base
      <3>1. S[i].base + Frames(S, i) <= S[j].base
        BY <1>1, <2>2 DEF Laid, n
      <3>2. S[i].base \in Nat /\ Frames(S, i) \in Nat /\ S[j].base \in Nat
        BY <1>1, FileTypes DEF n
      <3> QED
        BY <1>2, <1>3, <3>1, <3>2
    <2> QED
      BY <1>3, <1>4, <2>1, <2>2 DEF Laid
  <1>6. Marked(T)
    <2>1. \A i \in 1..n : T[i].os <= Frames(T, i) /\ T[i].synced <= T[i].os
      BY <1>2, <1>3
    <2> QED
      BY <1>3, <1>4, <2>1 DEF Marked
  <1>7. S = <<>> <=> T = <<>>
    BY <1>1, <1>4 DEF n
  <1>8. S # <<>> => n \in 1..n
    BY <1>1, FileTypes DEF n
  <1>9. Stored(T) \subseteq Stored(S)
    <2>1. SUFFICES ASSUME NEW f \in Stored(T) PROVE f \in Stored(S)
      OBVIOUS
    <2>2. PICK i \in 1..n : \E j \in 1..Frames(T, i) : f = T[i].recs[j]
      BY <1>4, StoredIs
    <2>3. PICK j \in 1..Frames(T, i) : f = T[i].recs[j]
      BY <2>2
    <2>4. f = S[i].recs[j] /\ j \in 1..Frames(S, i)
      <3>1. Frames(T, i) = kept[i]
        BY <1>3
      <3>2. j \in 1..kept[i]
        BY <3>1
      <3>3. Frames(S, i) \in Nat
        BY <1>1, FileTypes DEF n
      <3> QED
        BY <1>2, <1>3, <2>3, <3>2, <3>3
    <2> QED
      BY <1>1, <2>4, StoredIs DEF n
  <1>10. DiskRecords(T) <= DiskRecords(S)
    <2>1. Slots(T) \subseteq Slots(S)
      <3>1. SUFFICES ASSUME NEW x \in Slots(T) PROVE x \in Slots(S)
        OBVIOUS
      <3>2. PICK i \in 1..n : \E j \in 1..Frames(T, i) : x = <<i, j>>
        BY <1>4, SlotsAre
      <3>3. PICK j \in 1..Frames(T, i) : x = <<i, j>>
        BY <3>2
      <3>4. j \in 1..Frames(S, i)
        <4>1. Frames(T, i) = kept[i] /\ Frames(S, i) \in Nat
          BY <1>1, <1>3, FileTypes DEF n
        <4> QED
          BY <1>2, <4>1
      <3> QED
        BY <3>3, <3>4, SlotsAre DEF n
    <2> QED
      BY <1>1, <2>1, SlotsFinite, FS_Subset DEF DiskRecords
  <1>11. ASSUME ~power, NEW f \in Stored(S), f.off < Flushed(S)
         PROVE  f \in Stored(T)
    <2>1. PICK i \in 1..n : \E j \in 1..Frames(S, i) : f = S[i].recs[j]
      BY <1>1, StoredIs DEF n
    <2>2. PICK j \in 1..Frames(S, i) : f = S[i].recs[j]
      BY <2>1
    <2>3. /\ S[i].base \in Nat /\ S[i].os \in Nat /\ Frames(S, i) \in Nat /\ j \in Nat
          /\ f.off = S[i].base + j - 1 /\ n \in 1..n
      BY <1>1, <2>2, FileTypes DEF Laid, n
    <2>4. j <= kept[i]
      <3>1. CASE i = n
        <4>1. f.off < S[n].base + S[n].os
          BY <1>11, <1>1 DEF Flushed, n
        <4>2. j <= S[n].os
          BY <2>3, <3>1, <4>1
        <4> QED
          BY <1>2, <1>11, <2>3, <3>1, <4>2
      <3>2. CASE i # n
        <4>1. S[i].os = Frames(S, i)
          BY <1>1, <3>2 DEF Marked, n
        <4> QED
          BY <1>2, <1>11, <2>3, <4>1
      <3> QED
        BY <3>1, <3>2
    <2>5. j \in 1..Frames(T, i)
      BY <1>2, <1>3, <2>3, <2>4
    <2>6. f = T[i].recs[j]
      BY <1>3, <2>2, <2>5
    <2> QED
      BY <1>4, <2>5, <2>6, StoredIs
  <1>12. ~power => Flushed(S) <= Reach(T)
    <2>1. CASE S = <<>>
      BY <1>7, <2>1 DEF Flushed, Reach
    <2>2. CASE S # <<>>
      <3>1. Reach(T) = S[n].base + kept[n]
        BY <1>3, <1>4, <1>7, <1>8, <2>2 DEF Reach
      <3>2. Flushed(S) = S[n].base + S[n].os
        BY <2>2 DEF Flushed, n
      <3>3. S[n].base \in Nat /\ S[n].os \in Nat
        BY <1>1, <1>8, <2>2, FileTypes DEF n
      <3> QED
        BY <1>2, <1>8, <2>2, <3>1, <3>2, <3>3
    <2> QED
      BY <2>1, <2>2
  <1>13. S # <<>> => /\ T[Len(T)].os = Frames(T, Len(T))
                     /\ Frames(T, Len(T)) <= Frames(S, Len(S))
    BY <1>2, <1>3, <1>4, <1>8 DEF n
  <1> QED
    BY <1>4, <1>5, <1>6, <1>7, <1>9, <1>10, <1>11, <1>12, <1>13 DEF FilesOk, T, n

(* The scan of the tail finds every frame valid. *)
LEMMA ScanIs ==
  ASSUME NEW S, FilesOk(S), S # <<>>
  PROVE  ValidFrames(S[Len(S)]) = Frames(S, Len(S))
  <1> DEFINE n == Len(S)
             m == Frames(S, n)
             V == {k \in 0..m : \A j \in 1..k : S[n].recs[j].off = S[n].base + j - 1}
  <1>1. n \in 1..n /\ m \in Nat
    BY FileTypes DEF FilesOk
  <1>2. m \in V
    <2>1. \A j \in 1..m : S[n].recs[j].off = S[n].base + j - 1
      BY <1>1 DEF FilesOk, Laid
    <2> HIDE DEF m
    <2> QED
      BY <1>1, <2>1
  <1>3. ValidFrames(S[n]) = Max(V)
    BY DEF ValidFrames, Frames
  <1>4. V \in SUBSET (0..m) /\ V # {}
    BY <1>2
  <1> HIDE DEF V, m
  <1>5. Max(V) \in V /\ \A x \in V : x <= Max(V)
    BY <1>1, <1>4, MaxIs
  <1>6. Max(V) \in 0..m /\ m <= Max(V)
    BY <1>2, <1>4, <1>5
  <1> QED
    BY <1>1, <1>3, <1>6 DEF m

(* open keeps the frames and believes the truth about them. *)
LEMMA RecoverIs ==
  ASSUME NEW S, FilesOk(S), S = <<>> \/ S[Len(S)].os = Frames(S, Len(S))
  PROVE  LET T == Recover(S) IN
         /\ FilesOk(T) /\ Believed(T) /\ Same(S, T)
         /\ Flushed(T) = Reach(S) /\ NextOffset(T) = Reach(S)
  <1> DEFINE T == Recover(S)
             n == Len(S)
             m == Frames(S, n)
  <1>1. S \in Seq(SegmentType) /\ Laid(S) /\ Marked(S) /\ n \in Nat
    BY FileTypes DEF FilesOk
  <1>2. T = [i \in 1..n |-> T[i]]
    BY DEF Recover
  <1>3. ASSUME NEW i \in 1..n, i < n
        PROVE  /\ T[i] \in SegmentType /\ T[i].base = S[i].base /\ T[i].recs = S[i].recs
               /\ T[i].os = S[i].os /\ T[i].synced = S[i].synced
               /\ T[i].end = S[i + 1].base
    <2>1. T[i] = [S[i] EXCEPT !.end = S[i + 1].base]
      BY <1>3 DEF Recover
    <2>2. S[i] \in SegmentType /\ i + 1 \in 1..n
      BY <1>1, <1>3, FileTypes
    <2>3. S[i + 1].base \in Nat
      BY <1>1, <2>2, FileTypes
    <2> HIDE DEF T, n
    <2> QED
      BY <2>1, <2>2, <2>3 DEF SegmentType
  <1>4. ASSUME S # <<>>
        PROVE  /\ T[n] \in SegmentType /\ T[n].base = S[n].base /\ T[n].recs = S[n].recs
               /\ T[n].os = m /\ T[n].synced <= m
               /\ T[n].end = S[n].base + m
    <2>1. /\ n \in 1..n /\ m \in Nat /\ S[n] \in SegmentType /\ S[n].recs \in Seq(FrameType)
          /\ S[n].synced \in Nat /\ S[n].base \in Nat /\ Len(S[n].recs) = m
      BY <1>1, <1>4, FileTypes DEF Frames
    <2>2. ValidFrames(S[n]) = m
      BY <1>4, ScanIs
    <2> DEFINE t == SubSeq(S[n].recs, 1, m)
               y == Min({S[n].synced, m})
    <2>3. T[n] = [S[n] EXCEPT !.recs = SubSeq(@, 1, ValidFrames(S[n])),
                              !.os = ValidFrames(S[n]),
                              !.synced = Min({@, ValidFrames(S[n])}),
                              !.end = S[n].base + ValidFrames(S[n])]
      <3>1. ~(n < n)
        BY <1>1
      <3> QED
        BY <2>1, <3>1 DEF Recover
    <2>4. t = S[n].recs
      <3>1. m \in 0..Len(S[n].recs)
        BY <2>1
      <3> QED
        BY <2>1, <3>1, PrefixIs
    <2>5. y \in Nat /\ y <= m
      <3>1. {S[n].synced, m} \in SUBSET Nat /\ {S[n].synced, m} # {}
        BY <2>1
      <3> QED
        BY <2>1, <3>1, MinIs
    <2> HIDE DEF T, n, m, t, y
    <2>6. T[n] = [S[n] EXCEPT !.recs = t, !.os = m, !.synced = y, !.end = S[n].base + m]
      <3>1. S[n].synced = S[n].synced /\ t = SubSeq(S[n].recs, 1, m)
        BY DEF t
      <3>2. y = Min({S[n].synced, m})
        BY DEF y
      <3> QED
        BY <2>1, <2>2, <2>3, <3>1, <3>2 DEF SegmentType
    <2>7. t \in Seq(FrameType) /\ S[n].base + m \in Nat
      BY <2>1, <2>4
    <2>8. /\ T[n] \in SegmentType /\ T[n].base = S[n].base /\ T[n].recs = t
          /\ T[n].os = m /\ T[n].synced = y /\ T[n].end = S[n].base + m
      BY <2>1, <2>5, <2>6, <2>7 DEF SegmentType
    <2> QED
      BY <2>4, <2>5, <2>8
  <1>5. S # <<>> <=> n \in 1..n
    BY <1>1, FileTypes
  <1> HIDE DEF T
  <1>6. ASSUME NEW i \in 1..n PROVE i < n \/ (i = n /\ S # <<>>)
    <2> HIDE DEF n
    <2> QED
      BY <1>1, <1>5
  <1>7. ASSUME NEW i \in 1..n
        PROVE  /\ T[i] \in SegmentType /\ T[i].base = S[i].base /\ T[i].recs = S[i].recs
    BY <1>3, <1>4, <1>6
  <1>8. T \in Seq(SegmentType) /\ Len(T) = n
    <2> HIDE DEF n
    <2> QED
      BY <1>1, <1>2, <1>7, IsASeq
  <1>9. Same(S, T)
    BY <1>7, <1>8 DEF Same
  <1>10. /\ \A i \in 1..n : Frames(T, i) = Frames(S, i)
         /\ S = <<>> <=> T = <<>>
         /\ Reach(T) = Reach(S) /\ Laid(T)
    BY <1>1, <1>8, <1>9, SameFiles
  <1>11. Marked(T)
    <2>1. ASSUME NEW i \in 1..n
          PROVE  /\ T[i].synced <= T[i].os /\ T[i].os <= Frames(T, i)
                 /\ i < n => T[i].os = Frames(T, i)
      <3>1. CASE i < n
        BY <1>1, <1>3, <1>10, <3>1 DEF Marked
      <3>2. CASE i = n /\ S # <<>>
        <4>1. m \in Nat
          BY <1>1, <1>5, <3>2, FileTypes
        <4> QED
          BY <1>1, <1>4, <1>10, <3>2, <4>1
      <3> QED
        BY <1>6, <3>1, <3>2
    <2> QED
      BY <1>8, <2>1 DEF Marked
  <1>12. Believed(T)
    <2>1. ASSUME NEW i \in 1..n
          PROVE  T[i].end = IF i < n THEN T[i + 1].base ELSE T[i].base + Frames(T, i)
      <3>1. CASE i < n
        <4>1. i + 1 \in 1..n
          BY <1>1, <3>1
        <4> QED
          BY <1>3, <1>7, <3>1, <4>1
      <3>2. CASE i = n /\ S # <<>>
        <4>1. ~(i < n)
          BY <1>1, <3>2
        <4> QED
          BY <1>4, <1>7, <1>10, <3>2, <4>1
      <3> QED
        BY <1>6, <3>1, <3>2
    <2> QED
      BY <1>8, <2>1 DEF Believed
  <1>13. FilesOk(T)
    BY <1>8, <1>10, <1>11 DEF FilesOk
  <1>14. Flushed(T) = Reach(S)
    BY <1>4, <1>5, <1>8, <1>9, <1>10 DEF Flushed, Reach
  <1>15. NextOffset(T) = Reach(S)
    BY <1>10, <1>12, <1>13, NextIsReach
  <1> QED
    BY <1>9, <1>12, <1>13, <1>14, <1>15 DEF T

-----------------------------------------------------------------------------
(* Reading. *)

PlanType == [base : Nat, frame : FrameType]

(* A plan is the frames at or above the offset, in order and without a gap. *)
LEMMA PlanIs ==
  ASSUME NEW S, FilesOk(S), Believed(S), NEW from \in Nat, NEW max \in Nat \ {0},
         NEW plan \in PlanRead(S, from, max)
  PROVE  /\ plan \in Seq(PlanType)
         /\ \A i, j \in 1..Len(plan) : i < j => plan[i].frame.off < plan[j].frame.off
         /\ \A i \in 1..Len(plan) : plan[i].frame \in Stored(S) /\ plan[i].frame.off >= from
         /\ \A f \in Stored(S) : \A i \in 1..Len(plan) :
               f.off >= from /\ f.off <= plan[i].frame.off =>
                  \E j \in 1..Len(plan) : plan[j].frame = f
  <1> DEFINE due == IF from >= NextOffset(S) THEN {} ELSE DueFrames(S, from)
  <1>1. S \in Seq(SegmentType)
    BY DEF FilesOk
  <1>2. ASSUME NEW c \in due
        PROVE  c \in PlanType /\ c.frame \in Stored(S) /\ c.frame.off >= from
    <2>1. PICK i \in 1..Len(S) : \E f \in {g \in Range(S[i].recs) : g.off >= from} :
                                    c = [base |-> S[i].base, frame |-> f]
      BY DEF DueFrames
    <2>2. PICK f \in Range(S[i].recs) : f.off >= from /\ c = [base |-> S[i].base, frame |-> f]
      BY <2>1
    <2>3. f \in Stored(S)
      BY <2>2 DEF Stored
    <2>4. f \in FrameType /\ S[i].base \in Nat
      BY <1>1, <2>3, StoredOffsets, FileTypes
    <2> QED
      BY <2>2, <2>3, <2>4 DEF PlanType
  <1>3. /\ plan \in BoundedSeq(due, max)
        /\ \A i, j \in DOMAIN plan : i < j => plan[i].frame.off < plan[j].frame.off
        /\ \A c \in due \ Range(plan) :
              /\ Len(plan) = max
              /\ \A i \in DOMAIN plan : plan[i].frame.off < c.frame.off
    BY DEF PlanRead
  <1>4. plan \in Seq(due) /\ DOMAIN plan = 1..Len(plan) /\ Len(plan) \in Nat
    <2> HIDE DEF due
    <2>1. PICK m \in 0..max : plan \in [1..m -> due]
      BY <1>3 DEF BoundedSeq, SeqOf
    <2> QED
      BY <2>1
  <1>5. ASSUME NEW f \in Stored(S), NEW i \in 1..Len(plan),
               f.off >= from, f.off <= plan[i].frame.off
        PROVE  \E j \in 1..Len(plan) : plan[j].frame = f
    <2>1. from < NextOffset(S)
      <3>1. f.off < NextOffset(S) /\ f.off \in Nat /\ NextOffset(S) \in Nat
        BY StoredOffsets, NextIsReach DEF FrameType
      <3> QED
        BY <1>5, <3>1
    <2>2. PICK k \in 1..Len(S) : f \in Range(S[k].recs)
      BY DEF Stored
    <2> DEFINE c == [base |-> S[k].base, frame |-> f]
    <2>3. c \in due /\ c.frame = f
      <3>1. due = DueFrames(S, from)
        <4>1. NextOffset(S) \in Nat
          BY StoredOffsets, NextIsReach
        <4> QED
          BY <2>1, <4>1
      <3> QED
        BY <1>5, <2>2, <3>1 DEF DueFrames
    <2> HIDE DEF c
    <2>4. c \in Range(plan)
      <3>1. plan[i].frame.off \in Nat /\ f.off \in Nat
        BY <1>2, <1>4, StoredOffsets DEF PlanType, FrameType
      <3>2. CASE c \in due \ Range(plan)
        <4>1. plan[i].frame.off < c.frame.off
          BY <1>3, <1>4, <3>2
        <4> QED
          BY <1>5, <2>3, <3>1, <4>1
      <3> QED
        BY <2>3, <3>2
    <2> QED
      BY <1>4, <2>3, <2>4 DEF Range
  <1> HIDE DEF due
  <1>6. plan \in Seq(PlanType)
    <2>1. \A c \in due : c \in PlanType
      BY <1>2
    <2>2. due \subseteq PlanType
      BY <2>1
    <2> QED
      BY <1>4, <2>2
  <1>7. \A i \in 1..Len(plan) : plan[i] \in due
    BY <1>4
  <1> QED
    BY <1>2, <1>3, <1>4, <1>5, <1>6, <1>7

(* What is read is a beginning of the plan that the operating system has. *)
LEMMA ChunksAre ==
  ASSUME NEW S, FilesOk(S), NEW plan \in Seq(PlanType)
  PROVE  LET batch == ReadChunks(S, plan) IN
         /\ batch \in Seq(FrameType) /\ Len(batch) \in 0..Len(plan)
         /\ \A j \in 1..Len(batch) : /\ batch[j] = plan[j].frame
                                     /\ batch[j].off < Flushed(S)
  <1> DEFINE readable(base) ==
               \E i \in 1..Len(S) :
                  /\ S[i].base = base
                  /\ \A j \in DOMAIN plan :
                        plan[j].base = base => plan[j].frame.off < base + S[i].os
             G == {n \in 0..Len(plan) : \A j \in 1..n : readable(plan[j].base)}
             got == Max(G)
             batch == ReadChunks(S, plan)
  <1>1. S \in Seq(SegmentType) /\ Len(plan) \in Nat /\ DOMAIN plan = 1..Len(plan)
    BY DEF FilesOk
  <1>2. batch = [j \in 1..got |-> plan[j].frame]
    BY DEF ReadChunks
  <1>3. 0 \in G
    <2>1. 0 \in 0..Len(plan) /\ \A j \in 1..0 : readable(plan[j].base)
      BY <1>1
    <2> HIDE DEF readable
    <2> QED
      BY <2>1
  <1>4. got \in G
    <2>1. G \in SUBSET (0..Len(plan)) /\ G # {}
      BY <1>3
    <2> HIDE DEF G
    <2> QED
      BY <1>1, <2>1, MaxIs
  <1>5. got \in 0..Len(plan) /\ \A j \in 1..got : readable(plan[j].base)
    BY <1>4
  <1>6. ASSUME NEW j \in 1..got
        PROVE  plan[j].frame \in FrameType /\ plan[j].frame.off < Flushed(S)
    <2> HIDE DEF got, batch
    <2>1. j \in DOMAIN plan
      BY <1>1, <1>5
    <2>2. plan[j] \in PlanType
      BY <1>1, <2>1
    <2>3. plan[j].frame \in FrameType /\ plan[j].frame.off \in Nat
      BY <2>2 DEF PlanType, FrameType
    <2>4. PICK i \in 1..Len(S) :
                  /\ S[i].base = plan[j].base
                  /\ \A l \in DOMAIN plan :
                        plan[l].base = plan[j].base => plan[l].frame.off < plan[j].base + S[i].os
      BY <1>5
    <2>5. plan[j].frame.off < S[i].base + S[i].os
      BY <2>1, <2>4
    <2>6. S[i].base + S[i].os <= Flushed(S)
      <3>1. /\ Len(S) \in Nat /\ Len(S) \in 1..Len(S) /\ S # <<>>
            /\ S[i].base \in Nat /\ S[i].os \in Nat
            /\ S[Len(S)].base \in Nat /\ S[Len(S)].os \in Nat
        BY <1>1, FileTypes
      <3>2. Flushed(S) = S[Len(S)].base + S[Len(S)].os
        BY <3>1 DEF Flushed
      <3>3. CASE i = Len(S)
        <4> DEFINE x == Flushed(S)
        <4>1. S[i].base + S[i].os = x
          BY <3>2, <3>3
        <4>2. x \in Nat
          BY <3>1, <3>2
        <4> HIDE DEF x
        <4>3. S[i].base + S[i].os <= x
          BY <4>1, <4>2
        <4> QED
          BY <4>3 DEF x
      <3>4. CASE i < Len(S)
        <4>1. S[i].os = Frames(S, i) /\ S[i].base + Frames(S, i) <= S[Len(S)].base
          BY <3>1, <3>4 DEF FilesOk, Marked, Laid
        <4> DEFINE x == S[Len(S)].base
                   y == S[Len(S)].os
                   z == S[i].base + S[i].os
        <4>2. x \in Nat /\ y \in Nat /\ z \in Nat /\ z <= x /\ Flushed(S) = x + y
          BY <3>1, <3>2, <4>1
        <4> HIDE DEF x, y, z
        <4>3. z <= Flushed(S)
          BY <4>2
        <4> QED
          BY <4>3 DEF z
      <3> QED
        BY <3>1, <3>3, <3>4
    <2>7. S[i].base \in Nat /\ S[i].os \in Nat /\ Flushed(S) \in Nat
      BY <1>1, FileTypes, StoredOffsets
    <2> QED
      BY <2>3, <2>5, <2>6, <2>7
  <1>7. got \in Nat
    BY <1>1, <1>5
  <1> HIDE DEF got, batch
  <1>8. \A j \in 1..got : batch[j] = plan[j].frame
    BY <1>2
  <1>9. batch = [j \in 1..got |-> batch[j]]
    BY <1>2
  <1>10. batch \in Seq(FrameType) /\ Len(batch) = got
    BY <1>6, <1>7, <1>8, <1>9, IsASeq
  <1> QED
    BY <1>5, <1>6, <1>8, <1>10 DEF batch

-----------------------------------------------------------------------------
(* The state of a running stream. *)

(* A file that loses nothing but whole files at its front, or is flushed.  *)
Trimmed(S, T) ==
    /\ FilesOk(T) /\ Believed(T)
    /\ S = <<>> <=> T = <<>>
    /\ S # <<>> => Frames(T, Len(T)) = Frames(S, Len(S))
    /\ Reach(T) = Reach(S) /\ Flushed(S) <= Flushed(T)
    /\ Stored(T) \subseteq Stored(S)
    /\ DiskRecords(T) <= DiskRecords(S)

PlanFrames == {exporter.plan[i].frame : i \in 1..Len(exporter.plan)}
BatchFrames == {exporter.batch[i] : i \in 1..Len(exporter.batch)}

(* What the export engine carries, and what it or the log holds. *)
Carried == PlanFrames \union BatchFrames
Held == Stored(segs) \union Carried

LeaderType ==
    [pc : {"idle", "write", "wait_room", "woken"}, group : Seq(Nat),
     written : SUBSET Nat, needs_fsync : BOOLEAN]
ExporterType ==
    [pc : {"poll", "read", "send", "sink", "commit", "stopped"},
     plan : Seq(PlanType), batch : Seq(FrameType), pending : SUBSET Nat, attempt : Nat]
TickType == [pc : {"sleep", "store"}, cp : Nat]
FlusherType == [pc : {"none", "persist", "store"}, cp : Nat, covers : SUBSET Nat]

Types ==
    /\ running \in BOOLEAN
    /\ acked \in Nat /\ cp \in Nat /\ next_id \in Nat
    /\ leader \in LeaderType
    /\ exporter \in ExporterType
    /\ tick \in TickType
    /\ flusher \in FlusherType
    /\ ~running => /\ leader = NoGroup /\ exporter = NoBatch
                   /\ tick = NoTick /\ flusher = NoFlush

(* How many frames the active file may have. *)
ActiveLimit == IF Persistent THEN SegmentRecords ELSE 0

Budget == MaxDiskRecords + IF OnFull = "dropOldest" THEN 1 ELSE 0

FilesInv ==
    /\ FilesOk(segs)
    /\ running => Believed(segs) /\ acked <= Flushed(segs)
    /\ ~running /\ segs # <<>> => segs[Len(segs)].os = Frames(segs, Len(segs))
    /\ segs # <<>> => Frames(segs, Len(segs)) <= ActiveLimit
    /\ DiskRecords(segs) <= Budget

(* What the actions do to the files and the cursor: keep what is not below *)
(* the cursor, ...                                                         *)
LogKept ==
    /\ running /\ running' /\ store_type' = store_type
    /\ Trimmed(segs, segs')
    /\ \A f \in Stored(segs) : f \in Stored(segs') \/ f.off < acked
    /\ acked' \in Nat /\ acked <= acked' /\ acked' <= Flushed(segs')

(* ... append the head of the group, after making room, ... *)
LogGrown ==
    /\ running /\ running' /\ store_type' = store_type
    /\ leader.group # <<>> /\ leader.pc \in {"write", "woken"}
    /\ leader' = [leader EXCEPT !.pc = "write", !.group = Tail(@),
                                !.written = @ \union {Head(leader.group)}]
    /\ FilesOk(segs') /\ Believed(segs') /\ segs' # <<>>
    /\ Frames(segs', Len(segs')) <= ActiveLimit /\ DiskRecords(segs') <= Budget
    /\ Stored(segs') \subseteq Stored(segs) \union {Frame(Reach(segs), Head(leader.group))}
    /\ Frame(Reach(segs), Head(leader.group)) \in Stored(segs')
    /\ Reach(segs') = Reach(segs) + 1 /\ Flushed(segs) <= Flushed(segs')
    /\ acked' \in Nat /\ acked <= acked' /\ acked' <= Flushed(segs') /\ acked' <= Reach(segs)
    /\ discarded \subseteq discarded'
    /\ \A x \in discarded' \ discarded : \E f \in Stored(segs) : x = f.id
    /\ \A f \in Stored(segs) : \/ f.off < acked
                               \/ f.id \in discarded'
                               \/ f \in Stored(segs') /\ f.off >= acked'

(* ... lose the end of the files, ... *)
LogLost ==
    /\ running /\ ~running' /\ store_type' = store_type
    /\ FilesOk(segs')
    /\ segs' # <<>> => /\ segs'[Len(segs')].os = Frames(segs', Len(segs'))
                       /\ Frames(segs', Len(segs')) <= ActiveLimit
    /\ DiskRecords(segs') <= Budget
    /\ Stored(segs') \subseteq Stored(segs)

(* ... or find the files as they are. *)
LogOpened ==
    /\ ~running /\ running' /\ store_type' = store_type
    /\ FilesOk(segs') /\ Believed(segs') /\ Same(segs, segs')
    /\ acked' \in Nat /\ acked' <= cp /\ acked' <= Flushed(segs')
    /\ Flushed(segs') = Reach(segs) /\ (cp <= Reach(segs) => acked' = cp)

LEMMA TrimmedTrimmed ==
  ASSUME NEW S, NEW T, NEW U, FilesOk(S), Trimmed(S, T), Trimmed(T, U)
  PROVE  Trimmed(S, U)
  <1>1. /\ Flushed(S) \in Nat /\ Flushed(T) \in Nat /\ Flushed(U) \in Nat
        /\ DiskRecords(S) \in Nat /\ DiskRecords(T) \in Nat /\ DiskRecords(U) \in Nat
    BY StoredOffsets, SlotsFinite DEF Trimmed, FilesOk
  <1> QED
    BY <1>1 DEF Trimmed

LEMMA ShorterTrimmed ==
  ASSUME NEW S, NEW T, FilesOk(S), Believed(S), Shorter(S, T)
  PROVE  Trimmed(S, T)
  <1>1. Flushed(S) \in Nat
    BY StoredOffsets
  <1> QED
    BY <1>1 DEF Trimmed, Shorter, Frames

LEMMA SameTrimmed ==
  ASSUME NEW S, NEW T, FilesOk(S), FilesOk(T), Believed(T), Same(S, T),
         Flushed(S) <= Flushed(T)
  PROVE  Trimmed(S, T) /\ Stored(T) = Stored(S)
  <1>1. DiskRecords(S) \in Nat /\ S \in Seq(SegmentType) /\ T \in Seq(SegmentType)
    BY SlotsFinite DEF FilesOk
  <1>2. /\ \A i \in 1..Len(S) : Frames(T, i) = Frames(S, i)
        /\ S = <<>> <=> T = <<>>
        /\ Stored(T) = Stored(S)
        /\ DiskRecords(T) = DiskRecords(S) /\ Reach(T) = Reach(S)
    BY <1>1, SameFiles
  <1>3. Len(T) = Len(S) /\ (S # <<>> => Len(S) \in 1..Len(S))
    BY <1>1, FileTypes DEF Same
  <1> QED
    BY <1>1, <1>2, <1>3 DEF Trimmed

(* fsync, flush and reclaiming trim. *)
LEMMA SyncTrims ==
  ASSUME NEW S, FilesOk(S), Believed(S)
  PROVE  /\ Trimmed(S, S)
         /\ Trimmed(S, FlushOs(S)) /\ Stored(FlushOs(S)) = Stored(S)
         /\ Trimmed(S, Sync(S)) /\ Stored(Sync(S)) = Stored(S)
         /\ Flushed(FlushOs(S)) = Reach(S) /\ Flushed(Sync(S)) = Reach(S)
  <1>1. Flushed(S) \in Nat /\ Reach(S) \in Nat /\ Flushed(S) <= Reach(S)
    BY StoredOffsets
  <1>2. Same(S, S)
    BY DEF Same
  <1>3. Trimmed(S, S)
    BY <1>1, <1>2, SameTrimmed
  <1>4. Trimmed(S, FlushOs(S)) /\ Stored(FlushOs(S)) = Stored(S) /\ Flushed(FlushOs(S)) = Reach(S)
    BY <1>1, FlushOsIs, SameTrimmed
  <1>5. Trimmed(S, Sync(S)) /\ Stored(Sync(S)) = Stored(S) /\ Flushed(Sync(S)) = Reach(S)
    BY <1>1, SyncIs, SameTrimmed
  <1> QED
    BY <1>3, <1>4, <1>5

LEMMA TruncateTrims ==
  ASSUME NEW S, FilesOk(S), Believed(S), NEW offset \in Nat
  PROVE  /\ Trimmed(S, TruncateBelow(S, offset))
         /\ \A f \in Stored(S) : f \in Stored(TruncateBelow(S, offset)) \/ f.off < offset
  BY TruncateShorter, ShorterTrimmed

(* A file ends at or below the frames of the files that follow it.         *)
LEMMA EndsBelow ==
  ASSUME NEW S, FilesOk(S), Believed(S), NEW k \in 1..Len(S) - 1
  PROVE  /\ S[k].end \in Nat /\ S[k].end <= Flushed(S)
         /\ \A f \in Stored(SubSeq(S, k + 1, Len(S))) : S[k].end <= f.off
  <1> DEFINE n == Len(S)
             T == SubSeq(S, k + 1, n)
  <1>1. S \in Seq(SegmentType) /\ n \in Nat /\ k \in 0..n - 1
    BY FileTypes DEF FilesOk
  <1> HIDE DEF n
  <1>2. /\ k \in 1..n /\ k + 1 \in 1..n /\ n \in 1..n /\ S # <<>>
    BY <1>1 DEF n
  <1>3. \A i \in 1..n : S[i].base \in Nat /\ Frames(S, i) \in Nat /\ S[i].os \in Nat
    BY <1>1, FileTypes DEF n
  <1>4. S[k].end = S[k + 1].base /\ S[k].end \in Nat
    <2>1. k < n
      BY <1>1
    <2> QED
      BY <1>2, <1>3, <2>1 DEF Believed, n
  <1>5. ASSUME NEW i \in 1..n, k + 1 <= i PROVE S[k + 1].base <= S[i].base
    <2>1. CASE i = k + 1
      BY <1>2, <1>3, <2>1
    <2>2. CASE k + 1 < i
      <3>1. S[k + 1].base + Frames(S, k + 1) <= S[i].base
        BY <1>2, <2>2 DEF FilesOk, Laid, n
      <3> QED
        BY <1>2, <1>3, <3>1
    <2> QED
      BY <1>1, <1>5, <2>1, <2>2
  <1>6. S[k].end <= Flushed(S)
    <2>1. Flushed(S) = S[n].base + S[n].os
      BY <1>2 DEF Flushed, n
    <2>2. S[k + 1].base <= S[n].base
      BY <1>1, <1>2, <1>5
    <2> DEFINE b == S[n].base
               o == S[n].os
               e == S[k].end
    <2>3. b \in Nat /\ o \in Nat
      BY <1>2, <1>3
    <2>4. e \in Nat /\ e <= b /\ Flushed(S) = b + o
      BY <1>4, <2>1, <2>2
    <2> HIDE DEF b, o, e
    <2>5. e <= Flushed(S)
      BY <2>3, <2>4
    <2> QED
      BY <2>5 DEF e
  <1>7. ASSUME NEW f \in Stored(T) PROVE S[k].end <= f.off
    <2>1. /\ T \in Seq(SegmentType) /\ Len(T) = n - k
          /\ \A i \in 1..Len(T) : T[i] = S[i + k] /\ i + k \in 1..n
      BY <1>1, SuffixIs DEF n
    <2> HIDE DEF T
    <2>2. PICK i \in 1..Len(T) : \E j \in 1..Frames(T, i) : f = T[i].recs[j]
      BY <2>1, StoredIs
    <2>3. PICK j \in 1..Frames(T, i) : f = T[i].recs[j]
      BY <2>2
    <2>4. i + k \in 1..n /\ j \in 1..Frames(S, i + k) /\ f = S[i + k].recs[j] /\ k + 1 <= i + k
      BY <1>1, <2>1, <2>3 DEF Frames
    <2>5. f.off = S[i + k].base + j - 1
      BY <2>4 DEF FilesOk, Laid, n
    <2>6. S[k + 1].base <= S[i + k].base
      BY <1>5, <2>4
    <2> DEFINE b == S[i + k].base
               e == S[k].end
    <2>7. b \in Nat
      BY <1>3, <2>4
    <2>8. e \in Nat /\ e <= b
      BY <1>4, <2>6
    <2>9. f.off = b + j - 1
      BY <2>5
    <2>10. Frames(S, i + k) \in Nat
      BY <1>3, <2>4
    <2>11. j \in Int /\ 1 <= j
      BY <2>4, <2>10
    <2> HIDE DEF b, e
    <2>12. e <= f.off
      BY <2>7, <2>8, <2>9, <2>11
    <2> QED
      BY <2>12 DEF e
  <1> QED
    BY <1>4, <1>6, <1>7 DEF n

(* The frames of the files up to one are below its end.                    *)
LEMMA FirstBelow ==
  ASSUME NEW S, FilesOk(S), Believed(S), NEW k \in 1..Len(S) - 1
  PROVE  \A f \in Stored(SubSeq(S, 1, k)) : f.off < S[k].end
  <1> DEFINE n == Len(S)
             A == SubSeq(S, 1, k)
  <1>1. S \in Seq(SegmentType) /\ n \in Nat /\ k \in 1..n /\ k + 1 \in 1..n /\ k < n
    BY FileTypes DEF FilesOk
  <1>2. A \in Seq(SegmentType) /\ Len(A) = k /\ \A l \in 1..k : A[l] = S[l] /\ l \in 1..n
    BY <1>1
  <1>3. S[k].end = S[k + 1].base
    BY <1>1 DEF Believed
  <1>4. \A l \in 1..n : S[l].base \in Nat /\ Frames(S, l) \in Nat
    BY <1>1, FileTypes
  <1>5. SUFFICES ASSUME NEW f \in Stored(A) PROVE f.off < S[k].end
    OBVIOUS
  <1> HIDE DEF A
  <1>6. PICK l \in 1..k : \E j \in 1..Frames(S, l) : f = S[l].recs[j]
    <2>1. \A l \in 1..k : Frames(A, l) = Frames(S, l)
      BY <1>2 DEF Frames
    <2>2. PICK l \in 1..k : \E j \in 1..Frames(A, l) : f = A[l].recs[j]
      BY <1>2, <1>5, StoredIs
    <2> QED
      BY <1>2, <2>1, <2>2
  <1> PICK j \in 1..Frames(S, l) : f = S[l].recs[j]
    BY <1>6
  <1>7. l \in 1..n /\ l < k + 1
    BY <1>1, <1>2
  <1>8. f.off = S[l].base + j - 1
    BY <1>7 DEF FilesOk, Laid
  <1>9. S[l].base + Frames(S, l) <= S[k + 1].base
    BY <1>1, <1>7 DEF FilesOk, Laid
  <1> DEFINE b == S[l].base
             m == Frames(S, l)
             e == S[k + 1].base
  <1>10. b \in Nat /\ m \in Nat /\ e \in Nat /\ j \in 1..m
    BY <1>1, <1>4, <1>7
  <1>11. f.off = b + j - 1 /\ b + m <= e
    BY <1>8, <1>9
  <1> HIDE DEF b, m, e, n
  <1>12. f.off < e
    BY <1>10, <1>11
  <1> QED
    BY <1>3, <1>12 DEF e

(* One file has no more slots than frames. *)
LEMMA OneFile ==
  ASSUME NEW S \in Seq(SegmentType), Len(S) = 1
  PROVE  DiskRecords(S) <= Frames(S, 1)
  <1> DEFINE m == Frames(S, 1)
             f == [x \in Slots(S) |-> x[2]]
  <1>1. m \in Nat
    <2>1. 1 \in 1..Len(S)
      OBVIOUS
    <2> QED
      BY <2>1, FileTypes
  <1>2. \A x \in Slots(S) : x[2] \in 1..m /\ x = <<1, x[2]>>
    <2>1. SUFFICES ASSUME NEW x \in Slots(S) PROVE x[2] \in 1..m /\ x = <<1, x[2]>>
      OBVIOUS
    <2>2. PICK i \in 1..Len(S) : \E j \in 1..Frames(S, i) : x = <<i, j>>
      BY SlotsAre
    <2>3. PICK j \in 1..Frames(S, i) : x = <<i, j>>
      BY <2>2
    <2>4. i = 1
      OBVIOUS
    <2> QED
      BY <2>3, <2>4
  <1>3. f \in Injection(Slots(S), 1..m)
    <2>1. f \in [Slots(S) -> 1..m]
      BY <1>2
    <2>2. \A x, y \in Slots(S) : f[x] = f[y] => x = y
      BY <1>2
    <2> HIDE DEF f
    <2> QED
      BY <2>1, <2>2 DEF Injection, IsInjective
  <1>4. IsFiniteSet(1..m) /\ Cardinality(1..m) = m
    <2> HIDE DEF m
    <2>1. 1 \in Int /\ m \in Int /\ (1 > m <=> m = 0) /\ m - 1 + 1 = m
      BY <1>1
    <2> QED
      BY <2>1, FS_Interval
  <1>5. Cardinality(Slots(S)) <= m
    <2> HIDE DEF f, m
    <2> QED
      BY <1>3, <1>4, FS_Injection
  <1> QED
    BY <1>5 DEF DiskRecords

ExportInv ==
    /\ exporter.pending \subseteq Ids(exporter.batch)
    /\ exporter.pc # "read" => exporter.plan = <<>>
    /\ exporter.pc \in {"send", "sink", "commit"} <=> exporter.batch # <<>>
    /\ \A i, j \in 1..Len(exporter.plan) :
          i < j => exporter.plan[i].frame.off < exporter.plan[j].frame.off
    /\ \A i, j \in 1..Len(exporter.batch) :
          i < j => exporter.batch[i].off < exporter.batch[j].off
    /\ running => \A f \in BatchFrames : f.off < Flushed(segs)

(* The steps that leave the files and the cursor alone. *)
Idle ==
    \/ \E n \in 1..MaxGroup, needs_fsync \in BOOLEAN : BeginGroup(n, needs_fsync)
    \/ SpuriousWakeup \/ Plan \/ Read \/ CallSink \/ Answer \/ StopExporter
    \/ TickStore \/ FlushSnapshot \/ FlushStore

LEMMA IdleKeeps ==
  ASSUME Types, FilesInv, Idle
  PROVE  LogKept /\ segs' = segs /\ acked' = acked
  <1>1. running /\ UNCHANGED <<store_type, running, segs, acked>>
    BY DEF Idle, BeginGroup, SpuriousWakeup, Plan, Read, CallSink, Answer, Sending, SendAllAcked,
           SendPartial, SendFailed, StopExporter, TickStore, FlushSnapshot, FlushStore, log, InnerFree
  <1>2. Trimmed(segs, segs)
    BY <1>1, SyncTrims DEF FilesInv
  <1>3. acked \in Nat /\ acked <= Flushed(segs)
    BY <1>1 DEF Types, FilesInv
  <1> QED
    BY <1>1, <1>2, <1>3 DEF LogKept

(* The cursor moves no further than the operating system has the files. *)
LEMMA CommitKeeps ==
  ASSUME Types, FilesInv, ExportInv, Commit
  PROVE  /\ LogKept /\ segs' = segs
         /\ exporter.batch # <<>>
         /\ \A f \in BatchFrames : f.off < acked'
         /\ \E f \in BatchFrames : acked' = acked \/ acked' = f.off + 1
  <1> DEFINE n == Len(exporter.batch)
             last == exporter.batch[n]
  <1>1. /\ running /\ UNCHANGED <<store_type, running, segs>>
        /\ exporter.pc = "commit"
        /\ acked' = Max({acked, last.off + 1})
    BY DEF Commit, InnerFree, Last
  <1>2. exporter.batch # <<>> /\ exporter.batch \in Seq(FrameType)
    BY <1>1 DEF ExportInv, Types, ExporterType
  <1>3. n \in 1..n /\ n \in Nat /\ last \in FrameType
    BY <1>2
  <1>4. last.off \in Nat /\ last \in BatchFrames
    BY <1>3 DEF FrameType, BatchFrames
  <1>5. acked \in Nat /\ Flushed(segs) \in Nat /\ acked <= Flushed(segs) /\ last.off < Flushed(segs)
    BY <1>1, <1>4, StoredOffsets DEF Types, FilesInv, ExportInv
  <1> HIDE DEF last
  <1>6. acked' \in {acked, last.off + 1} /\ acked <= acked' /\ last.off + 1 <= acked'
    <2> DEFINE A == {acked, last.off + 1}
    <2>1. A \in SUBSET (0..Flushed(segs)) /\ A # {}
      BY <1>4, <1>5
    <2>2. Max(A) \in A /\ \A x \in A : x <= Max(A)
      <3> HIDE DEF A
      <3> QED
        BY <1>5, <2>1, MaxIs
    <2> QED
      BY <1>1, <2>2
  <1>7. Trimmed(segs, segs)
    BY <1>1, SyncTrims DEF FilesInv
  <1>8. LogKept
    BY <1>1, <1>4, <1>5, <1>6, <1>7 DEF LogKept
  <1>9. \A f \in BatchFrames : f.off < acked'
    <2>1. SUFFICES ASSUME NEW f \in BatchFrames PROVE f.off < acked'
      OBVIOUS
    <2>2. PICK i \in 1..n : f = exporter.batch[i]
      BY DEF BatchFrames
    <2>3. f \in FrameType /\ f.off \in Nat /\ i \in Nat
      <3>1. exporter.batch[i] \in FrameType /\ i \in Nat
        BY <1>2, <1>3
      <3> QED
        BY <2>2, <3>1 DEF FrameType
    <2>4. i = n \/ i < n
      BY <1>3, <2>3
    <2>5. f.off <= last.off
      BY <1>3, <1>4, <2>2, <2>3, <2>4 DEF ExportInv, last
    <2> QED
      BY <1>4, <1>5, <1>6, <2>3, <2>5
  <1> QED
    BY <1>1, <1>2, <1>4, <1>6, <1>8, <1>9

(* Reclaiming and fsync keep what is above the cursor. *)
LEMMA LeaderKeeps ==
  ASSUME Types, FilesInv, RejectRecord \/ WaitForRoom
  PROVE  LogKept /\ acked' = acked
  <1>1. /\ running /\ UNCHANGED <<store_type, running, acked>>
        /\ segs' = TruncateBelow(segs, acked)
    BY DEF RejectRecord, WaitForRoom, Writing, Reclaimed
  <1>2. FilesOk(segs) /\ Believed(segs) /\ acked \in Nat /\ acked <= Flushed(segs)
    BY <1>1 DEF FilesInv, Types
  <1>3. /\ Trimmed(segs, segs')
        /\ \A f \in Stored(segs) : f \in Stored(segs') \/ f.off < acked
    BY <1>1, <1>2, TruncateTrims
  <1>4. Flushed(segs) \in Nat /\ Flushed(segs') \in Nat /\ Flushed(segs) <= Flushed(segs')
    BY <1>2, <1>3, StoredOffsets DEF Trimmed
  <1> QED
    BY <1>1, <1>2, <1>3, <1>4 DEF LogKept

LEMMA FinishKeeps ==
  ASSUME Types, FilesInv, FinishGroup
  PROVE  /\ LogKept /\ acked' = acked /\ Stored(segs') = Stored(segs)
         /\ leader.written # {} => Flushed(segs') = Reach(segs)
  <1>1. /\ running /\ UNCHANGED <<store_type, running, acked>>
        /\ \/ segs' = Sync(segs)
           \/ segs' = FlushOs(segs)
           \/ segs' = segs /\ leader.written = {}
    BY DEF FinishGroup
  <1>2. FilesOk(segs) /\ Believed(segs) /\ acked \in Nat /\ acked <= Flushed(segs)
    BY <1>1 DEF FilesInv, Types
  <1>3. /\ Trimmed(segs, segs') /\ Stored(segs') = Stored(segs)
        /\ leader.written # {} => Flushed(segs') = Reach(segs)
    BY <1>1, <1>2, SyncTrims
  <1>4. Flushed(segs) \in Nat /\ Flushed(segs') \in Nat /\ Flushed(segs) <= Flushed(segs')
    BY <1>2, <1>3, StoredOffsets DEF Trimmed
  <1> QED
    BY <1>1, <1>2, <1>3, <1>4 DEF LogKept

LEMMA SyncKeeps ==
  ASSUME Types, FilesInv, TickSnapshot \/ FlushSync
  PROVE  LogKept /\ acked' = acked
  <1>1. /\ running /\ UNCHANGED <<store_type, running, acked>>
        /\ \/ segs' = Sync(segs)
           \/ segs' = TruncateBelow(segs, acked)
           \/ segs' = TruncateBelow(Sync(segs), acked)
    BY DEF TickSnapshot, FlushSync, InnerFree
  <1>2. FilesOk(segs) /\ Believed(segs) /\ acked \in Nat /\ acked <= Flushed(segs)
    BY <1>1 DEF FilesInv, Types
  <1>3. /\ Trimmed(segs, Sync(segs)) /\ Stored(Sync(segs)) = Stored(segs)
        /\ FilesOk(Sync(segs)) /\ Believed(Sync(segs))
    BY <1>2, SyncTrims DEF Trimmed
  <1>4. /\ Trimmed(segs, segs')
        /\ \A f \in Stored(segs) : f \in Stored(segs') \/ f.off < acked
    <2>1. CASE segs' = Sync(segs)
      BY <1>3, <2>1
    <2>2. CASE segs' = TruncateBelow(segs, acked)
      BY <1>2, <2>2, TruncateTrims
    <2>3. CASE segs' = TruncateBelow(Sync(segs), acked)
      <3>1. /\ Trimmed(Sync(segs), segs')
            /\ \A f \in Stored(segs) : f \in Stored(segs') \/ f.off < acked
        BY <1>2, <1>3, <2>3, TruncateTrims
      <3> QED
        BY <1>2, <1>3, <3>1, TrimmedTrimmed
    <2> QED
      BY <1>1, <2>1, <2>2, <2>3
  <1>5. Flushed(segs) \in Nat /\ Flushed(segs') \in Nat /\ Flushed(segs) <= Flushed(segs')
    BY <1>2, <1>4, StoredOffsets DEF Trimmed
  <1> QED
    BY <1>1, <1>2, <1>4, <1>5 DEF LogKept

(* The files a record is appended to, and what they may have lost. *)
LEMMA PutGrows ==
  ASSUME Types, FilesInv, Writing, NEW files, Put(files),
         UNCHANGED <<store_type, running>>,
         FilesOk(files), Believed(files),
         files # <<>> => Frames(files, Len(files)) <= ActiveLimit,
         DiskRecords(files) + 1 <= Budget,
         Stored(files) \subseteq Stored(segs),
         Reach(files) = Reach(segs), Flushed(segs) <= Flushed(files),
         acked' \in Nat, acked <= acked', acked' <= Flushed(files),
         discarded \subseteq discarded',
         \A x \in discarded' \ discarded : \E f \in Stored(segs) : x = f.id,
         \A f \in Stored(segs) : \/ f.off < acked
                                 \/ f.id \in discarded'
                                 \/ f \in Stored(files) /\ f.off >= acked'
  PROVE  /\ LogGrown
         /\ Stored(segs') = Stored(files) \union {Frame(Reach(segs), Head(leader.group))}
  <1> DEFINE id == Head(leader.group)
  <1>1. /\ running /\ leader.group # <<>> /\ leader.pc \in {"write", "woken"}
        /\ leader.group \in Seq(Nat)
    BY DEF Writing, Types, LeaderType
  <1>2. id \in Nat
    BY <1>1
  <1>3. /\ segs' \in IF Persistent THEN Spilled(AppendFrame(files, SegmentRecords, id))
                     ELSE {AppendRecord(files, id)}
        /\ leader' = [leader EXCEPT !.pc = "write", !.group = Tail(@),
                                    !.written = @ \union {Head(leader.group)}]
    BY DEF Put
  <1> HIDE DEF id
  <1>4. Grown(files, segs', id) /\ Frames(segs', Len(segs')) <= ActiveLimit
    <2>1. CASE Persistent
      <3>1. SegmentRecords \in Nat \ {0} /\ ActiveLimit = SegmentRecords
        BY <2>1, EmbeddedLogAssumption DEF ActiveLimit
      <3>2. segs' \in Spilled(AppendFrame(files, SegmentRecords, id))
        BY <1>3, <2>1
      <3> QED
        BY <1>2, <3>1, <3>2, AppendFrameIs
    <2>2. CASE ~Persistent
      <3>1. segs' = AppendRecord(files, id) /\ ActiveLimit = 0
        BY <1>3, <2>2 DEF ActiveLimit
      <3>2. files # <<>> => Frames(files, Len(files)) = 0
        <4>1. files # <<>> => Frames(files, Len(files)) \in Nat
          BY FileTypes DEF FilesOk
        <4> QED
          BY <3>1, <4>1
      <3> QED
        BY <1>2, <3>1, <3>2, AppendRecordIs
    <2> QED
      BY <2>1, <2>2
  <1>5. /\ Flushed(segs) \in Nat /\ Flushed(files) \in Nat /\ Flushed(segs') \in Nat
        /\ DiskRecords(segs') = DiskRecords(files) + 1 /\ Flushed(files) <= Flushed(segs')
    BY <1>4, StoredOffsets DEF FilesInv, Grown
  <1>6. /\ acked \in Nat /\ acked' <= Flushed(segs') /\ Flushed(segs) <= Flushed(segs')
        /\ acked' <= Reach(segs)
    <2>1. Flushed(files) <= Reach(files) /\ Reach(files) \in Nat
      BY StoredOffsets
    <2> QED
      BY <1>5, <2>1 DEF Types
  <1>7. Stored(segs') = Stored(files) \union {Frame(Reach(segs), id)}
    BY <1>4 DEF Grown
  <1>8. \A f \in Stored(segs) : \/ f.off < acked
                                \/ f.id \in discarded'
                                \/ f \in Stored(segs') /\ f.off >= acked'
    BY <1>7
  <1>9. LogGrown
    BY <1>1, <1>3, <1>4, <1>5, <1>6, <1>7, <1>8 DEF LogGrown, Grown, id
  <1> QED
    BY <1>7, <1>9 DEF id

LEMMA BudgetIs == Budget \in Nat /\ MaxDiskRecords \in Nat /\ MaxDiskRecords <= Budget
  BY EmbeddedLogAssumption DEF Budget

LEMMA WriteGrows ==
  ASSUME Types, FilesInv, WriteRecord
  PROVE  LogGrown
  <1> DEFINE files == TruncateBelow(segs, acked)
  <1>1. /\ Writing /\ running /\ Put(files) /\ HasRoom(files)
        /\ UNCHANGED <<store_type, running, acked, discarded>>
    BY DEF WriteRecord, Reclaimed, Writing, history
  <1>2. FilesOk(segs) /\ Believed(segs) /\ acked \in Nat /\ acked <= Flushed(segs)
    BY <1>1 DEF FilesInv, Types
  <1>3. /\ Trimmed(segs, files)
        /\ \A f \in Stored(segs) : f \in Stored(files) \/ f.off < acked
    BY <1>2, TruncateTrims
  <1> HIDE DEF files
  <1>4. /\ FilesOk(files) /\ Believed(files) /\ Stored(files) \subseteq Stored(segs)
        /\ Reach(files) = Reach(segs) /\ Flushed(segs) <= Flushed(files)
        /\ files # <<>> => Frames(files, Len(files)) <= ActiveLimit
    BY <1>3 DEF Trimmed, FilesInv
  <1>5. Flushed(segs) \in Nat /\ Flushed(files) \in Nat /\ DiskRecords(files) \in Nat
    BY <1>2, <1>4, StoredOffsets, SlotsFinite DEF FilesOk
  <1>6. DiskRecords(files) + 1 <= Budget
    BY <1>1, <1>5, BudgetIs DEF HasRoom
  <1>7. \A f \in Stored(segs) : f.off \in Nat
    BY <1>2, StoredOffsets DEF FrameType
  <1>8. \A f \in Stored(segs) : \/ f.off < acked
                                \/ f.id \in discarded'
                                \/ f \in Stored(files) /\ f.off >= acked'
    BY <1>1, <1>2, <1>3, <1>7
  <1>9. acked' \in Nat /\ acked <= acked' /\ acked' <= Flushed(files)
    BY <1>1, <1>2, <1>4, <1>5
  <1> QED
    BY <1>1, <1>4, <1>6, <1>8, <1>9, PutGrows

(* dropOldest: what it deletes at or above the cursor is discarded, and    *)
(* the cursor moves past it.                                               *)
LEMMA DropGrows ==
  ASSUME Types, FilesInv, DropAndWrite
  PROVE  /\ LogGrown
         /\ \A x \in discarded' \ discarded : \E f \in Stored(segs) :
               x = f.id /\ f.off < acked' /\ f \notin Stored(segs')
  <1> DEFINE S == TruncateBelow(segs, acked)
             n == Len(S)
             k == FilesToDrop(S, MaxDiskRecords)
             files == SubSeq(S, k + 1, n)
             boundary == IF k = 0 THEN acked ELSE Max({acked, S[k].end})
             lost == {f \in Stored(SubSeq(S, 1, k)) : f.off >= acked}
  <1>1. /\ Writing /\ running /\ ~HasRoom(S) /\ OnFull = "dropOldest"
        /\ Put(files) /\ acked' = boundary
        /\ discarded' = discarded \union {f.id : f \in lost}
        /\ UNCHANGED <<store_type, running>>
    BY DEF DropAndWrite, Reclaimed, Writing
  <1>2. FilesOk(segs) /\ Believed(segs) /\ acked \in Nat /\ acked <= Flushed(segs)
    BY <1>1 DEF FilesInv, Types
  <1>3. /\ Trimmed(segs, S)
        /\ \A f \in Stored(segs) : f \in Stored(S) \/ f.off < acked
    BY <1>2, TruncateTrims
  <1> HIDE DEF S
  <1>4. /\ FilesOk(S) /\ Believed(S) /\ Stored(S) \subseteq Stored(segs)
        /\ Reach(S) = Reach(segs) /\ Flushed(segs) <= Flushed(S)
        /\ S # <<>> => Frames(S, n) <= ActiveLimit
    BY <1>3 DEF Trimmed, FilesInv
  <1>5. /\ Flushed(segs) \in Nat /\ Flushed(S) \in Nat /\ DiskRecords(S) \in Nat
        /\ n \in Nat /\ S \in Seq(SegmentType)
    BY <1>2, <1>4, StoredOffsets, SlotsFinite, FileTypes DEF FilesOk
  <1>6. S # <<>>
    <2>1. SUFFICES ASSUME S = <<>> PROVE FALSE
      OBVIOUS
    <2>2. Slots(S) = {}
      <3>1. \A x : x \notin Slots(S)
        BY <2>1, SlotsAre
      <3> QED
        BY <3>1
    <2>3. DiskRecords(S) = 0
      BY <2>2, FS_EmptySet DEF DiskRecords
    <2> QED
      BY <1>1, <2>3, EmbeddedLogAssumption DEF HasRoom
  <1>7. /\ k \in 0..n - 1
        /\ DiskRecords(files) + 1 <= MaxDiskRecords \/ k + 1 >= n
    <2>1. MaxDiskRecords \in Nat
      BY BudgetIs
    <2> QED
      BY <1>4, <1>6, <2>1, DropIs
  <1> HIDE DEF k, n
  <1>8. /\ FilesOk(files) /\ Believed(files) /\ files # <<>>
        /\ files[Len(files)] = S[n]
        /\ Reach(files) = Reach(S) /\ Flushed(files) = Flushed(S)
        /\ Stored(files) \subseteq Stored(S)
    BY <1>4, <1>7, CutIs DEF n
  <1>9. files \in Seq(SegmentType) /\ Len(files) = n - k
    BY <1>5, <1>7, SuffixIs DEF n
  <1>10. k = 0 \/ k \in 1..n - 1
    BY <1>5, <1>7
  <1>11. k # 0 => /\ S[k].end \in Nat /\ S[k].end <= Flushed(S)
                  /\ \A f \in Stored(files) : S[k].end <= f.off
    BY <1>4, <1>10, EndsBelow DEF n
  <1>12. /\ boundary \in Nat /\ acked <= boundary /\ boundary <= Flushed(files)
         /\ boundary = acked \/ (k # 0 /\ boundary = S[k].end)
         /\ k # 0 => S[k].end <= boundary
    <2>1. CASE k = 0
      BY <1>2, <1>4, <1>5, <1>8, <2>1
    <2>2. CASE k # 0
      <3> DEFINE A == {acked, S[k].end}
      <3>1. A \in SUBSET (0..Flushed(S)) /\ A # {}
        BY <1>2, <1>4, <1>5, <1>11, <2>2
      <3>2. Max(A) \in A /\ \A x \in A : x <= Max(A)
        <4> HIDE DEF A
        <4> QED
          BY <1>5, <3>1, MaxIs
      <3>3. boundary = Max(A)
        BY <2>2
      <3>4. boundary \in A /\ acked <= boundary /\ S[k].end <= boundary
        BY <3>2, <3>3
      <3> HIDE DEF boundary
      <3> QED
        BY <1>2, <1>4, <1>5, <1>8, <1>11, <2>2, <3>4
    <2> QED
      BY <2>1, <2>2
  <1>13. DiskRecords(files) + 1 <= Budget
    <2>1. Budget = MaxDiskRecords + 1 /\ MaxDiskRecords \in Nat /\ DiskRecords(files) \in Nat
      BY <1>1, <1>9, BudgetIs, SlotsFinite DEF Budget
    <2>2. CASE DiskRecords(files) + 1 <= MaxDiskRecords
      BY <2>1, <2>2
    <2>3. CASE k + 1 >= n
      <3>1. Len(files) = 1
        BY <1>5, <1>7, <1>9, <2>3
      <3>2. DiskRecords(files) <= Frames(files, 1) /\ Frames(files, 1) = Frames(S, n)
        BY <1>8, <1>9, <3>1, OneFile DEF Frames
      <3>3. ActiveLimit \in Nat /\ ActiveLimit <= MaxDiskRecords
        BY EmbeddedLogAssumption DEF ActiveLimit
      <3>4. Frames(S, n) \in Nat /\ Frames(S, n) <= ActiveLimit
        BY <1>4, <1>5, <1>6, FileTypes DEF n
      <3> QED
        BY <2>1, <3>2, <3>3, <3>4
    <2> QED
      BY <1>7, <2>2, <2>3
  <1> HIDE DEF files, boundary
  <1>14. \A f \in Stored(segs) : f.off \in Nat
    BY <1>2, StoredOffsets DEF FrameType
  <1>15. /\ discarded \subseteq discarded'
         /\ \A x \in discarded' \ discarded : \E f \in Stored(segs) : x = f.id
    <2>1. k \in 0..n
      BY <1>5, <1>7
    <2>2. Stored(SubSeq(S, 1, k)) \subseteq Stored(S)
      BY <1>5, <2>1, FirstFiles DEF n
    <2> QED
      BY <1>1, <1>4, <2>2
  <1>16. ASSUME NEW f \in Stored(segs)
         PROVE  \/ f.off < acked
                \/ f.id \in discarded'
                \/ f \in Stored(files) /\ f.off >= acked'
    <2>1. SUFFICES ASSUME ~(f.off < acked) PROVE f.id \in discarded' \/ (f \in Stored(files) /\ f.off >= acked')
      OBVIOUS
    <2>2. f \in Stored(S) /\ f.off >= acked
      BY <1>2, <1>3, <1>14, <2>1
    <2>3. CASE f \in Stored(files)
      BY <1>1, <1>11, <1>12, <2>2, <2>3
    <2>4. CASE f \notin Stored(files)
      <3>1. f \in Stored(SubSeq(S, 1, k))
        BY <1>4, <1>7, <2>2, <2>4, CutAway DEF files, n
      <3> QED
        BY <1>1, <2>2, <3>1
    <2> QED
      BY <2>3, <2>4
  <1>17. Stored(files) \subseteq Stored(segs) /\ Reach(files) = Reach(segs)
    BY <1>4, <1>8
  <1>18. Flushed(segs) <= Flushed(files)
    BY <1>4, <1>8
  <1>19. files # <<>> => Frames(files, Len(files)) <= ActiveLimit
    BY <1>4, <1>6, <1>8 DEF Frames
  <1>20. acked' \in Nat /\ acked <= acked' /\ acked' <= Flushed(files)
    BY <1>1, <1>12
  <1>21. /\ LogGrown
         /\ Stored(segs') = Stored(files) \union {Frame(Reach(segs), Head(leader.group))}
    BY <1>1, <1>8, <1>13, <1>15, <1>16, <1>17, <1>18, <1>19, <1>20, PutGrows
  <1>22. ASSUME NEW x \in discarded' \ discarded
         PROVE  \E f \in Stored(segs) : x = f.id /\ f.off < acked' /\ f \notin Stored(segs')
    <2>1. PICK f \in Stored(SubSeq(S, 1, k)) : x = f.id
      BY <1>1, <1>22
    <2>2. k # 0
      <3>1. ASSUME k = 0 PROVE FALSE
        <4> DEFINE T == SubSeq(S, 1, k)
        <4>1. k \in 0..n /\ n \in Nat
          BY <1>5, <1>7
        <4>2. T \in Seq(SegmentType) /\ Len(T) = 0 /\ f \in Stored(T)
          BY <1>5, <2>1, <3>1, <4>1, PrefixIs DEF n
        <4> HIDE DEF T
        <4>3. PICK i \in 1..Len(T) : f \in Range(T[i].recs)
          BY <4>2 DEF Stored
        <4> QED
          BY <4>2, <4>3
      <3> QED
        BY <3>1
    <2>3. f.off < S[k].end
      BY <1>4, <1>10, <2>2, FirstBelow DEF n
    <2>4. f \in Stored(segs) /\ f.off \in Nat /\ f.off < Reach(segs)
      <3>1. k \in 0..n
        BY <1>5, <1>7
      <3>2. Stored(SubSeq(S, 1, k)) \subseteq Stored(S)
        BY <1>5, <3>1, FirstFiles DEF n
      <3> QED
        BY <1>2, <1>4, <1>14, <3>2, StoredOffsets
    <2>5. f.off < acked'
      BY <1>1, <1>11, <1>12, <2>2, <2>3, <2>4
    <2>6. f \notin Stored(files)
      BY <1>11, <2>2, <2>3, <2>4
    <2>7. f # Frame(Reach(segs), Head(leader.group))
      <3>1. ASSUME f = Frame(Reach(segs), Head(leader.group)) PROVE FALSE
        <4>1. f.off = Reach(segs)
          BY <3>1 DEF Frame
        <4>2. Reach(segs) \in Nat
          BY <1>2, StoredOffsets
        <4> QED
          BY <2>4, <4>1, <4>2
      <3> QED
        BY <3>1
    <2> QED
      BY <1>21, <2>1, <2>4, <2>5, <2>6, <2>7
  <1> QED
    BY <1>21, <1>22

(* The end of a process leaves files that the next one can open. *)
LEMMA DownLoses ==
  ASSUME Types, FilesInv, Kill \/ PowerLoss \/ Forget \/ Close
  PROVE  /\ LogLost
         /\ Kill => /\ \A f \in Stored(segs) : f.off < Flushed(segs) => f \in Stored(segs')
                    /\ Flushed(segs) <= Reach(segs')
         /\ Close => Stored(segs') = Stored(segs) /\ Reach(segs') = Reach(segs)
  <1>1. running /\ ~running' /\ store_type' = store_type /\ FilesOk(segs) /\ Believed(segs)
    BY DEF Kill, PowerLoss, Forget, Close, Down, FilesInv
  <1>2. ActiveLimit \in Nat /\ Budget \in Nat /\ DiskRecords(segs) \in Nat
    BY <1>1, EmbeddedLogAssumption, BudgetIs, SlotsFinite DEF ActiveLimit, FilesOk
  <1>3. segs # <<>> => Frames(segs, Len(segs)) \in Nat
    BY <1>1, FileTypes DEF FilesOk
  <1>4. ASSUME NEW power \in BOOLEAN, NEW kept \in Survivals(segs, power),
               segs' = AfterCrash(segs, kept, power)
        PROVE  /\ LogLost
               /\ ~power => /\ \A f \in Stored(segs) : f.off < Flushed(segs) => f \in Stored(segs')
                            /\ Flushed(segs) <= Reach(segs')
    <2>1. /\ FilesOk(segs') /\ Len(segs') = Len(segs)
          /\ segs = <<>> <=> segs' = <<>>
          /\ segs # <<>> => /\ segs'[Len(segs')].os = Frames(segs', Len(segs'))
                            /\ Frames(segs', Len(segs')) <= Frames(segs, Len(segs))
          /\ Stored(segs') \subseteq Stored(segs)
          /\ DiskRecords(segs') <= DiskRecords(segs)
          /\ ~power => /\ \A f \in Stored(segs) : f.off < Flushed(segs) => f \in Stored(segs')
                       /\ Flushed(segs) <= Reach(segs')
      BY <1>1, <1>4, CrashIs
    <2>2. /\ DiskRecords(segs') \in Nat
          /\ segs' # <<>> => Frames(segs', Len(segs')) \in Nat
      BY <2>1, SlotsFinite, FileTypes DEF FilesOk
    <2>3. DiskRecords(segs') <= Budget
      BY <1>2, <2>1, <2>2 DEF FilesInv
    <2>4. segs' # <<>> => Frames(segs', Len(segs')) <= ActiveLimit
      BY <1>2, <1>3, <2>1, <2>2 DEF FilesInv
    <2> QED
      BY <1>1, <2>1, <2>3, <2>4 DEF LogLost
  <1>5. ASSUME Kill
        PROVE  /\ LogLost
               /\ \A f \in Stored(segs) : f.off < Flushed(segs) => f \in Stored(segs')
               /\ Flushed(segs) <= Reach(segs')
    <2>1. PICK kept \in Survivals(segs, FALSE) : segs' = AfterCrash(segs, kept, FALSE)
      BY <1>5 DEF Kill
    <2> QED
      BY <1>4, <2>1
  <1>6. ASSUME Close
        PROVE  LogLost /\ Stored(segs') = Stored(segs) /\ Reach(segs') = Reach(segs)
    <2>1. /\ Trimmed(segs, Sync(segs)) /\ Stored(Sync(segs)) = Stored(segs) /\ segs' = Sync(segs)
          /\ FilesOk(segs') /\ Same(segs, segs')
          /\ segs # <<>> => segs'[Len(segs)].os = Frames(segs, Len(segs))
      BY <1>1, <1>6, SyncTrims, SyncIs DEF Close
    <2>2. /\ Len(segs') = Len(segs) /\ (segs = <<>> <=> segs' = <<>>)
          /\ segs # <<>> => Frames(segs', Len(segs')) = Frames(segs, Len(segs))
          /\ DiskRecords(segs') <= DiskRecords(segs) /\ Reach(segs') = Reach(segs)
          /\ Stored(segs') = Stored(segs)
      BY <2>1 DEF Trimmed, Same
    <2>3. DiskRecords(segs') <= Budget
      <3>1. DiskRecords(segs') \in Nat
        BY <2>1, SlotsFinite DEF FilesOk
      <3> QED
        BY <1>2, <2>2, <3>1 DEF FilesInv
    <2>4. segs' # <<>> => /\ Frames(segs', Len(segs')) <= ActiveLimit
                          /\ segs'[Len(segs')].os = Frames(segs', Len(segs'))
      <3>1. ASSUME segs' # <<>>
            PROVE  /\ Frames(segs', Len(segs')) = Frames(segs, Len(segs))
                   /\ segs'[Len(segs')].os = Frames(segs, Len(segs))
                   /\ Frames(segs, Len(segs)) <= ActiveLimit
        BY <2>1, <2>2, <3>1 DEF FilesInv
      <3> QED
        BY <3>1
    <2> QED
      BY <1>1, <2>1, <2>2, <2>3, <2>4 DEF LogLost
  <1>7. ASSUME PowerLoss PROVE LogLost
    <2>1. PICK kept \in Survivals(segs, TRUE) : segs' = AfterCrash(segs, kept, TRUE)
      BY <1>7 DEF PowerLoss
    <2> QED
      BY <1>4, <2>1
  <1>8. ASSUME Forget PROVE LogLost
    <2>1. segs' = <<>>
      BY <1>8 DEF Forget
    <2>2. FilesOk(<<>>) /\ Stored(<<>>) = {} /\ DiskRecords(<<>>) = 0
      <3>1. <<>> \in Seq(SegmentType) /\ Len(<<>>) = 0
        OBVIOUS
      <3>2. Laid(<<>>) /\ Marked(<<>>)
        BY <3>1 DEF Laid, Marked
      <3>3. Slots(<<>>) = {} /\ Stored(<<>>) = {}
        BY <3>1 DEF Slots, Stored
      <3> QED
        BY <3>1, <3>2, <3>3, FS_EmptySet DEF FilesOk, DiskRecords
    <2> QED
      BY <1>1, <1>2, <2>1, <2>2 DEF LogLost
  <1> QED
    BY <1>5, <1>6, <1>7, <1>8

LEMMA OpenOpens ==
  ASSUME Types, FilesInv, Open
  PROVE  LogOpened
  <1>1. /\ ~running /\ running' /\ store_type' = store_type
        /\ segs' = Recover(segs) /\ acked' = Min({cp, NextOffset(Recover(segs))})
    BY DEF Open, CursorOnOpen
  <1>2. /\ FilesOk(segs) /\ cp \in Nat
        /\ segs = <<>> \/ segs[Len(segs)].os = Frames(segs, Len(segs))
    BY <1>1 DEF FilesInv, Types
  <1>3. /\ FilesOk(segs') /\ Believed(segs') /\ Same(segs, segs')
        /\ Flushed(segs') = Reach(segs) /\ NextOffset(segs') = Reach(segs)
    BY <1>1, <1>2, RecoverIs
  <1>4. Reach(segs) \in Nat /\ acked' = Min({cp, Reach(segs)})
    BY <1>1, <1>2, <1>3, StoredOffsets
  <1>5. /\ acked' \in {cp, Reach(segs)} /\ acked' <= cp /\ acked' <= Reach(segs)
    <2>1. {cp, Reach(segs)} \in SUBSET Nat /\ {cp, Reach(segs)} # {}
      BY <1>2, <1>4
    <2> QED
      BY <1>4, <2>1, MinIs
  <1> QED
    BY <1>1, <1>2, <1>3, <1>4, <1>5 DEF LogOpened

(* The actions, as the proofs go through them. *)
LEMMA NextActions ==
  ASSUME Next
  PROVE  \/ \E n \in 1..MaxGroup, needs_fsync \in BOOLEAN : BeginGroup(n, needs_fsync)
         \/ WriteRecord \/ DropAndWrite \/ RejectRecord \/ WaitForRoom \/ FinishGroup
         \/ SpuriousWakeup \/ Plan \/ Read \/ CallSink \/ Commit
         \/ SendAllAcked \/ SendFailed
         \/ \E failed \in SUBSET exporter.pending : SendPartial(failed)
         \/ StopExporter \/ TickSnapshot \/ TickStore
         \/ FlushSync \/ FlushSnapshot \/ FlushStore
         \/ Kill \/ PowerLoss \/ Forget \/ Close \/ Open
  BY DEF Next, Leader, Export, Answer, Maintain, Flush

LEMMA NextLog ==
  ASSUME Types, FilesInv, ExportInv, Next
  PROVE  \/ LogKept
         \/ (WriteRecord \/ DropAndWrite) /\ LogGrown
         \/ (Kill \/ PowerLoss \/ Forget \/ Close) /\ LogLost
         \/ Open /\ LogOpened
  <1>1. CASE Idle
    BY <1>1, IdleKeeps
  <1>2. CASE Commit
    BY <1>2, CommitKeeps
  <1>3. CASE RejectRecord \/ WaitForRoom
    BY <1>3, LeaderKeeps
  <1>4. CASE FinishGroup
    BY <1>4, FinishKeeps
  <1>5. CASE TickSnapshot \/ FlushSync
    BY <1>5, SyncKeeps
  <1>6. CASE WriteRecord
    BY <1>6, WriteGrows
  <1>7. CASE DropAndWrite
    BY <1>7, DropGrows
  <1>8. CASE Kill \/ PowerLoss \/ Forget \/ Close
    BY <1>8, DownLoses
  <1>9. CASE Open
    BY <1>9, OpenOpens
  <1> QED
    BY <1>1, <1>2, <1>3, <1>4, <1>5, <1>6, <1>7, <1>8, <1>9, NextActions DEF Idle, Answer

LEMMA FilesNext ==
  ASSUME Types, FilesInv, ExportInv, [Next]_vars
  PROVE  FilesInv'
  <1>1. CASE UNCHANGED vars
    BY <1>1 DEF vars, log, FilesInv, ActiveLimit, Persistent
  <1>2. CASE Next
    <2>1. CASE LogKept
      <3>1. /\ FilesOk(segs') /\ Believed(segs') /\ running /\ running'
            /\ segs = <<>> <=> segs' = <<>>
            /\ segs # <<>> => Frames(segs', Len(segs')) = Frames(segs, Len(segs))
            /\ DiskRecords(segs') <= DiskRecords(segs)
            /\ acked' <= Flushed(segs') /\ store_type' = store_type
        BY <2>1 DEF LogKept, Trimmed
      <3>2. DiskRecords(segs') <= Budget
        <4>1. DiskRecords(segs') \in Nat /\ DiskRecords(segs) \in Nat
          BY <3>1, SlotsFinite DEF FilesInv, FilesOk
        <4> QED
          BY <3>1, <4>1, BudgetIs DEF FilesInv
      <3>3. segs' # <<>> => Frames(segs', Len(segs')) <= ActiveLimit
        BY <3>1 DEF FilesInv
      <3> QED
        BY <3>1, <3>2, <3>3 DEF FilesInv, ActiveLimit, Persistent
    <2>2. CASE LogGrown
      BY <2>2 DEF LogGrown, FilesInv, ActiveLimit, Persistent
    <2>3. CASE LogLost
      BY <2>3 DEF LogLost, FilesInv, ActiveLimit, Persistent
    <2>4. CASE LogOpened
      <3>1. /\ FilesOk(segs') /\ Believed(segs') /\ ~running /\ running' /\ Same(segs, segs')
            /\ acked' <= Flushed(segs') /\ store_type' = store_type
        BY <2>4 DEF LogOpened
      <3>2. /\ \A i \in 1..Len(segs) : Frames(segs', i) = Frames(segs, i)
            /\ segs = <<>> <=> segs' = <<>>
            /\ DiskRecords(segs') = DiskRecords(segs)
            /\ Len(segs') = Len(segs)
            /\ segs # <<>> => Len(segs) \in 1..Len(segs)
        BY <3>1, SameFiles, FileTypes DEF FilesInv, FilesOk, Same
      <3> QED
        BY <3>1, <3>2 DEF FilesInv, ActiveLimit, Persistent
    <2> QED
      BY <1>2, <2>1, <2>2, <2>3, <2>4, NextLog
  <1> QED
    BY <1>1, <1>2

(* What a group, a plan or a chunk is made of. *)
LEMMA GroupIs ==
  ASSUME NEW n \in Nat, NEW id \in Nat
  PROVE  LET g == [i \in 1..n |-> id + i - 1] IN
         /\ g \in Seq(Nat) /\ Len(g) = n
         /\ \A i \in 1..n : g[i] = id + i - 1
  <1> DEFINE g == [i \in 1..n |-> id + i - 1]
  <1>1. \A i \in 1..n : g[i] \in Nat
    OBVIOUS
  <1>2. g = [i \in 1..n |-> g[i]]
    OBVIOUS
  <1> HIDE DEF g
  <1>3. g \in Seq(Nat) /\ Len(g) = n
    BY <1>1, <1>2, IsASeq
  <1> QED
    BY <1>3 DEF g

LEMMA TailIs ==
  ASSUME NEW S, NEW s \in Seq(S), s # <<>>
  PROVE  /\ Head(s) \in S /\ Tail(s) \in Seq(S) /\ Head(s) = s[1]
         /\ Len(s) \in Nat /\ Len(Tail(s)) = Len(s) - 1
         /\ \A i \in 1..Len(s) - 1 : Tail(s)[i] = s[i + 1] /\ i + 1 \in 1..Len(s)
  OBVIOUS

(* What the engine reads: frames of the plan, from its first one on. *)
ReadBatch == IF Persistent THEN ReadChunks(segs, exporter.plan)
             ELSE [i \in DOMAIN exporter.plan |-> exporter.plan[i].frame]

LEMMA BatchIs ==
  ASSUME Types, FilesInv
  PROVE  /\ ReadBatch \in Seq(FrameType)
         /\ Len(ReadBatch) \in 0..Len(exporter.plan)
         /\ \A i \in 1..Len(ReadBatch) : ReadBatch[i] = exporter.plan[i].frame
         /\ Persistent => \A i \in 1..Len(ReadBatch) : ReadBatch[i].off < Flushed(segs)
  <1>1. /\ exporter.plan \in Seq(PlanType) /\ FilesOk(segs)
        /\ Len(exporter.plan) \in Nat /\ DOMAIN exporter.plan = 1..Len(exporter.plan)
    BY DEF Types, FilesInv, ExporterType
  <1>2. CASE Persistent
    <2>1. ReadBatch = ReadChunks(segs, exporter.plan)
      BY <1>2 DEF ReadBatch
    <2> QED
      BY <1>1, <2>1, ChunksAre
  <1>3. CASE ~Persistent
    <2> DEFINE n == Len(exporter.plan)
               b == ReadBatch
    <2>1. b = [i \in 1..n |-> exporter.plan[i].frame]
      BY <1>1, <1>3 DEF ReadBatch
    <2>2. \A i \in 1..n : exporter.plan[i].frame \in FrameType
      <3>1. \A i \in 1..n : exporter.plan[i] \in PlanType
        BY <1>1
      <3> QED
        BY <3>1 DEF PlanType
    <2> HIDE DEF b, n
    <2>3. b = [i \in 1..n |-> b[i]] /\ \A i \in 1..n : b[i] = exporter.plan[i].frame
      BY <2>1
    <2>4. n \in Nat
      BY <1>1 DEF n
    <2>5. b \in Seq(FrameType) /\ Len(b) = n
      BY <2>2, <2>3, <2>4, IsASeq
    <2> QED
      BY <1>3, <2>3, <2>4, <2>5 DEF b, n
  <1> QED
    BY <1>2, <1>3

LEMMA IdsAre ==
  ASSUME NEW batch \in Seq(FrameType)
  PROVE  /\ Ids(batch) = {f.id : f \in {batch[i] : i \in 1..Len(batch)}}
         /\ Ids(batch) \in SUBSET Nat
  <1>1. \A i \in 1..Len(batch) : batch[i].id \in Nat
    <2>1. \A i \in 1..Len(batch) : batch[i] \in FrameType
      OBVIOUS
    <2> QED
      BY <2>1 DEF FrameType
  <1> QED
    BY <1>1 DEF Ids

LEMMA PlanTypeIs ==
  ASSUME Types, FilesInv, running, NEW plan \in PlanRead(segs, acked, BatchRecords)
  PROVE  /\ plan \in Seq(PlanType)
         /\ \A i, j \in 1..Len(plan) : i < j => plan[i].frame.off < plan[j].frame.off
         /\ \A i \in 1..Len(plan) : plan[i].frame \in Stored(segs) /\ plan[i].frame.off >= acked
         /\ \A f \in Stored(segs) : \A i \in 1..Len(plan) :
               f.off >= acked /\ f.off <= plan[i].frame.off =>
                  \E j \in 1..Len(plan) : plan[j].frame = f
  <1>1. FilesOk(segs) /\ Believed(segs) /\ acked \in Nat /\ BatchRecords \in Nat \ {0}
    BY EmbeddedLogAssumption DEF Types, FilesInv
  <1> QED
    BY <1>1, PlanIs

LEMMA NextAttemptIs ==
  ASSUME Types
  PROVE  NextAttempt \in Nat
  <1>1. CASE MaxRetries = -1
    BY <1>1 DEF NextAttempt
  <1>2. CASE MaxRetries # -1
    <2> DEFINE A == {exporter.attempt + 1, MaxRetries + 1}
    <2>1. exporter.attempt + 1 \in Nat /\ MaxRetries + 1 \in Nat
      BY <1>2, EmbeddedLogAssumption DEF Types, ExporterType
    <2>2. A \in SUBSET Nat /\ A # {}
      BY <2>1
    <2>3. NextAttempt = Min(A)
      BY <1>2 DEF NextAttempt
    <2> HIDE DEF A
    <2> QED
      BY <2>2, <2>3, MinIs
  <1> QED
    BY <1>1, <1>2

LEMMA NoThreads ==
  /\ NoGroup \in LeaderType
  /\ NoBatch \in ExporterType
  /\ NoTick \in TickType
  /\ NoFlush \in FlusherType
  <1>1. <<>> \in Seq(Nat) /\ <<>> \in Seq(PlanType) /\ <<>> \in Seq(FrameType)
    OBVIOUS
  <1> QED
    BY <1>1 DEF NoGroup, NoBatch, NoTick, NoFlush,
       LeaderType, ExporterType, TickType, FlusherType

(* The cursor stays a number. *)
LEMMA CursorNat ==
  ASSUME Types, FilesInv, ExportInv, Next
  PROVE  acked' \in Nat
  <1>1. CASE Kill \/ PowerLoss \/ Forget \/ Close
    BY <1>1 DEF Kill, PowerLoss, Forget, Close, Types
  <1>2. CASE ~(Kill \/ PowerLoss \/ Forget \/ Close)
    <2>1. ~LogLost
      BY <1>2, NextActions DEF LogLost, BeginGroup, WriteRecord, DropAndWrite, RejectRecord, WaitForRoom,
         FinishGroup, SpuriousWakeup, Plan, Read, CallSink, Commit, SendAllAcked, SendPartial, SendFailed,
         StopExporter, TickSnapshot, TickStore, FlushSync, FlushSnapshot, FlushStore, Open, Writing, Sending,
         InnerFree
    <2> QED
      BY <2>1, NextLog DEF LogKept, LogGrown, LogOpened
  <1> QED
    BY <1>1, <1>2

LEMMA TypesNext ==
  ASSUME Types, FilesInv, ExportInv, accepted \subseteq Nat, [Next]_vars
  PROVE  Types'
  <1>1. CASE UNCHANGED vars
    BY <1>1 DEF vars, log, bounds, Types
  <1>2. ASSUME Next PROVE acked' \in Nat
    BY <1>2, CursorNat
  <1>3. ASSUME NEW n \in 1..MaxGroup, NEW needs_fsync \in BOOLEAN, BeginGroup(n, needs_fsync)
        PROVE  Types'
    <2> DEFINE g == [i \in 1..n |-> next_id + i - 1]
    <2>1. n \in Nat /\ next_id \in Nat
      BY EmbeddedLogAssumption DEF Types
    <2>2. g \in Seq(Nat)
      BY <2>1, GroupIs
    <2> HIDE DEF g
    <2>3. leader' = [pc |-> "write", written |-> {}, needs_fsync |-> needs_fsync, group |-> g]
      BY <1>3 DEF BeginGroup, g
    <2>4. leader' \in LeaderType /\ next_id' \in Nat
      BY <1>3, <2>1, <2>2, <2>3 DEF BeginGroup, LeaderType
    <2> QED
      BY <1>3, <2>4 DEF BeginGroup, Types, log
  <1>4. ASSUME WriteRecord \/ DropAndWrite \/ RejectRecord \/ WaitForRoom, acked' \in Nat
        PROVE  Types'
    <2>1. /\ leader.group \in Seq(Nat) /\ leader.group # <<>>
          /\ running /\ UNCHANGED <<running, cp, next_id, exporter, tick, flusher>>
      BY <1>4 DEF Types, LeaderType, WriteRecord, DropAndWrite, RejectRecord, WaitForRoom, Writing, bounds
    <2>2. Head(leader.group) \in Nat /\ Tail(leader.group) \in Seq(Nat)
      BY <2>1, TailIs
    <2>3. \/ leader' = [leader EXCEPT !.pc = "write", !.group = Tail(@),
                                      !.written = @ \union {Head(leader.group)}]
          \/ leader' = [leader EXCEPT !.pc = "write", !.group = Tail(@)]
          \/ leader' = [leader EXCEPT !.pc = "wait_room"]
      BY <1>4 DEF WriteRecord, DropAndWrite, RejectRecord, WaitForRoom, Put
    <2>4. leader' \in LeaderType
      <3> DEFINE h == Head(leader.group)
                 t == Tail(leader.group)
      <3>1. h \in Nat /\ t \in Seq(Nat) /\ leader \in LeaderType
        BY <2>2 DEF Types
      <3>2. \/ leader' = [leader EXCEPT !.pc = "write", !.group = t, !.written = @ \union {h}]
            \/ leader' = [leader EXCEPT !.pc = "write", !.group = t]
            \/ leader' = [leader EXCEPT !.pc = "wait_room"]
        BY <2>3, <3>1 DEF LeaderType
      <3> HIDE DEF h, t
      <3>3. leader.written \union {h} \in SUBSET Nat
        BY <3>1 DEF LeaderType
      <3>4. ASSUME NEW w \in SUBSET Nat
            PROVE  [leader EXCEPT !.pc = "write", !.group = t, !.written = w] \in LeaderType
        BY <3>1 DEF LeaderType
      <3>5. [leader EXCEPT !.pc = "write", !.group = t, !.written = @ \union {h}] \in LeaderType
        <4>1. [leader EXCEPT !.pc = "write", !.group = t, !.written = @ \union {h}]
                = [leader EXCEPT !.pc = "write", !.group = t, !.written = leader.written \union {h}]
          BY <3>1 DEF LeaderType
        <4> QED
          BY <3>3, <3>4, <4>1
      <3>6. /\ [leader EXCEPT !.pc = "write", !.group = t] \in LeaderType
            /\ [leader EXCEPT !.pc = "wait_room"] \in LeaderType
        BY <3>1 DEF LeaderType
      <3> QED
        BY <3>2, <3>5, <3>6
    <2> QED
      BY <1>4, <2>1, <2>4 DEF Types
  <1>5. ASSUME FinishGroup \/ SpuriousWakeup PROVE Types'
    <2>1. running /\ UNCHANGED <<running, acked, cp, next_id, exporter, tick, flusher>>
      BY <1>5 DEF FinishGroup, SpuriousWakeup, bounds, log
    <2>2. leader' = NoGroup \/ leader' = [leader EXCEPT !.pc = "woken"]
      BY <1>5 DEF FinishGroup, SpuriousWakeup
    <2>3. leader' \in LeaderType
      BY <2>2, NoThreads DEF Types, LeaderType
    <2> QED
      BY <2>1, <2>3 DEF Types
  <1>6. ASSUME Plan PROVE Types'
    <2>1. running /\ UNCHANGED <<running, acked, cp, next_id, leader, tick, flusher>>
      BY <1>6 DEF Plan, InnerFree, bounds, log
    <2>2. PICK plan \in PlanRead(segs, acked, BatchRecords) :
             exporter' = [NoBatch EXCEPT !.pc = "read", !.plan = plan]
      BY <1>6 DEF Plan
    <2>3. plan \in Seq(PlanType)
      BY <2>1, PlanTypeIs
    <2>4. exporter' \in ExporterType
      BY <2>2, <2>3, NoThreads DEF ExporterType
    <2> QED
      BY <2>1, <2>4 DEF Types
  <1>7. ASSUME Read PROVE Types'
    <2>1. running /\ UNCHANGED <<running, acked, cp, next_id, leader, tick, flusher>>
      BY <1>7 DEF Read, bounds, log
    <2>2. exporter' = IF ReadBatch = <<>> THEN NoBatch
                      ELSE [NoBatch EXCEPT !.pc = "send", !.batch = ReadBatch,
                                           !.pending = Ids(ReadBatch)]
      BY <1>7 DEF Read, ReadBatch
    <2>3. ReadBatch \in Seq(FrameType) /\ Ids(ReadBatch) \in SUBSET Nat
      BY BatchIs, IdsAre
    <2>4. exporter' \in ExporterType
      BY <2>2, <2>3, NoThreads DEF ExporterType
    <2> QED
      BY <2>1, <2>4 DEF Types
  <1>8. ASSUME CallSink \/ SendAllAcked \/ SendFailed \/ StopExporter
               \/ \E failed \in SUBSET exporter.pending : SendPartial(failed)
        PROVE  Types'
    <2>1. running /\ UNCHANGED <<running, acked, cp, next_id, leader, tick, flusher>>
      BY <1>8 DEF CallSink, SendAllAcked, SendFailed, StopExporter, SendPartial, Sending, bounds, log
    <2>2. \/ exporter' = [exporter EXCEPT !.pc = "sink"]
          \/ exporter' = [exporter EXCEPT !.pc = "commit"]
          \/ exporter' = [exporter EXCEPT !.pc = "send", !.attempt = NextAttempt]
          \/ exporter' = [NoBatch EXCEPT !.pc = "stopped"]
          \/ \E failed \in SUBSET exporter.pending :
                exporter' = [exporter EXCEPT !.pc = "send", !.pending = failed, !.attempt = NextAttempt]
      BY <1>8 DEF CallSink, SendAllAcked, SendFailed, StopExporter, SendPartial, SentAgain
    <2>3. exporter' \in ExporterType
      <3>1. ASSUME NEW failed \in SUBSET exporter.pending PROVE failed \in SUBSET Nat
        BY DEF Types, ExporterType
      <3>2. exporter \in ExporterType /\ NextAttempt \in Nat
        BY NextAttemptIs DEF Types
      <3>3. [NoBatch EXCEPT !.pc = "stopped"] \in ExporterType
        BY NoThreads DEF ExporterType
      <3>4. ASSUME NEW failed \in SUBSET Nat
            PROVE  [exporter EXCEPT !.pc = "send", !.pending = failed, !.attempt = NextAttempt]
                      \in ExporterType
        BY <3>2 DEF ExporterType
      <3>5. /\ [exporter EXCEPT !.pc = "sink"] \in ExporterType
            /\ [exporter EXCEPT !.pc = "commit"] \in ExporterType
            /\ [exporter EXCEPT !.pc = "send", !.attempt = NextAttempt] \in ExporterType
        BY <3>2 DEF ExporterType
      <3> QED
        BY <2>2, <3>1, <3>3, <3>4, <3>5
    <2> QED
      BY <2>1, <2>3 DEF Types
  <1>9. ASSUME Commit, acked' \in Nat PROVE Types'
    <2>1. running /\ UNCHANGED <<running, cp, next_id, tick, flusher>>
      BY <1>9 DEF Commit, InnerFree, bounds
    <2>2. exporter' = NoBatch /\ (leader' = leader \/ leader' = [leader EXCEPT !.pc = "woken"])
      BY <1>9 DEF Commit, Woken
    <2>3. leader' \in LeaderType
      BY <2>2 DEF Types, LeaderType
    <2> QED
      BY <1>9, <2>1, <2>2, <2>3, NoThreads DEF Types
  <1>10. ASSUME TickSnapshot \/ TickStore PROVE Types'
    <2>1. running /\ UNCHANGED <<running, acked, next_id, leader, exporter, flusher>>
      BY <1>10 DEF TickSnapshot, TickStore, InnerFree, bounds, log
    <2>2. tick' \in TickType /\ cp' \in Nat
      <3>1. acked \in Nat /\ cp \in Nat /\ tick.cp \in Nat
        BY DEF Types, TickType
      <3>2. CASE TickSnapshot
        BY <3>1, <3>2 DEF TickSnapshot, TickType
      <3>3. CASE TickStore
        BY <3>1, <3>3, NoThreads DEF TickStore
      <3> QED
        BY <1>10, <3>2, <3>3
    <2> QED
      BY <2>1, <2>2 DEF Types
  <1>11. ASSUME FlushSync \/ FlushSnapshot \/ FlushStore PROVE Types'
    <2>1. running /\ UNCHANGED <<running, acked, next_id, leader, exporter, tick>>
      BY <1>11 DEF FlushSync, FlushSnapshot, FlushStore, InnerFree, bounds, log
    <2>2. flusher' \in FlusherType /\ cp' \in Nat
      <3>1. acked \in Nat /\ cp \in Nat /\ flusher.cp \in Nat
        BY DEF Types, FlusherType
      <3>2. CASE FlushSync
        BY <3>1, <3>2, NoThreads DEF FlushSync, Types, FlusherType
      <3>3. CASE FlushSnapshot
        BY <3>1, <3>3 DEF FlushSnapshot, log, Types, FlusherType
      <3>4. CASE FlushStore
        BY <3>1, <3>4, NoThreads DEF FlushStore
      <3> QED
        BY <1>11, <3>2, <3>3, <3>4
    <2> QED
      BY <2>1, <2>2 DEF Types
  <1>12. ASSUME Kill \/ PowerLoss \/ Forget \/ Close PROVE Types'
    <2>1. /\ Down /\ UNCHANGED <<acked, next_id>> /\ cp' \in Nat
      BY <1>12 DEF Kill, PowerLoss, Forget, Close, Types
    <2> QED
      BY <2>1, NoThreads DEF Down, Types
  <1>13. ASSUME Open, acked' \in Nat PROVE Types'
    BY <1>13 DEF Open, Types, bounds
  <1> QED
    BY <1>1, <1>2, <1>3, <1>4, <1>5, <1>6, <1>7, <1>8, <1>9, <1>10, <1>11, <1>12, <1>13, NextActions

-----------------------------------------------------------------------------
(* Offsets and records. *)

(* Two frames that the log or the engine holds have the same order of      *)
(* offsets and of records.                                                 *)
HeldInv ==
    /\ \A f, g \in Held : /\ f.off < g.off => f.id < g.id
                          /\ f.off = g.off => f = g
    /\ \A f \in Carried : f.off < Reach(segs)

(* The records that were heard of, except those that wait in the group.    *)
Seen == {f.id : f \in Held}
        \union UNION {accepted, promised, delivered, life, discarded, gave_up, leader.written}

(* The records of the group are younger than those, and in order.          *)
IdsInv ==
    /\ 1 <= next_id /\ next_id <= MaxRecords + 1
    /\ Seen \subseteq 1..next_id - 1
    /\ \A i \in 1..Len(leader.group) :
          /\ leader.group[i] \in 1..next_id - 1
          /\ \A x \in Seen : x < leader.group[i]
          /\ \A j \in 1..Len(leader.group) : i < j => leader.group[i] < leader.group[j]

LEMMA HeldTypes ==
  ASSUME Types, FilesInv
  PROVE  /\ \A f \in Held : f \in FrameType /\ f.off \in Nat /\ f.id \in Nat
         /\ Reach(segs) \in Nat
         /\ \A f \in Stored(segs) : f.off < Reach(segs)
         /\ PlanFrames \subseteq Carried /\ BatchFrames \subseteq Carried
         /\ Carried \subseteq Held /\ Stored(segs) \subseteq Held
  <1>1. FilesOk(segs) /\ exporter.plan \in Seq(PlanType) /\ exporter.batch \in Seq(FrameType)
    BY DEF Types, FilesInv, ExporterType
  <1>2. \A f \in PlanFrames : f \in FrameType
    <2>1. \A i \in 1..Len(exporter.plan) : exporter.plan[i] \in PlanType
      BY <1>1
    <2> QED
      BY <2>1 DEF PlanFrames, PlanType
  <1>3. \A f \in BatchFrames : f \in FrameType
    <2>1. \A i \in 1..Len(exporter.batch) : exporter.batch[i] \in FrameType
      BY <1>1
    <2> QED
      BY <2>1 DEF BatchFrames
  <1>4. \A f \in FrameType : f.off \in Nat /\ f.id \in Nat
    BY DEF FrameType
  <1> QED
    BY <1>1, <1>2, <1>3, <1>4, StoredOffsets DEF Held, Carried

(* The engine carries what it carried, or plans what the log stores. *)
LEMMA CarriedNext ==
  ASSUME Types, FilesInv, Next
  PROVE  /\ Carried' \subseteq Held
         /\ ~running' \/ ~running => Carried' = {}
         /\ WriteRecord \/ DropAndWrite => Carried' = Carried
  <1>1. UNCHANGED exporter => Carried' = Carried
    BY DEF Carried, PlanFrames, BatchFrames
  <1>2. WriteRecord \/ DropAndWrite => Carried' = Carried
    BY <1>1 DEF WriteRecord, DropAndWrite
  <1>3. exporter'.plan = <<>> /\ exporter'.batch = <<>> => Carried' = {}
    BY DEF Carried, PlanFrames, BatchFrames
  <1>4. exporter' = NoBatch => Carried' = {}
    BY <1>3 DEF NoBatch
  <1>5. exporter = NoBatch => Carried = {}
    BY DEF Carried, PlanFrames, BatchFrames, NoBatch
  <1>6. ASSUME Kill \/ PowerLoss \/ Forget \/ Close PROVE Carried' = {}
    BY <1>4, <1>6 DEF Kill, PowerLoss, Forget, Close, Down
  <1>7. ASSUME Open PROVE Carried' = {}
    BY <1>1, <1>5, <1>7 DEF Open, Types
  <1>8. ASSUME Plan PROVE running /\ running' /\ Carried' \subseteq Held
    <2>1. running /\ running'
      BY <1>8 DEF Plan, InnerFree
    <2>2. PICK plan \in PlanRead(segs, acked, BatchRecords) :
             exporter' = [NoBatch EXCEPT !.pc = "read", !.plan = plan]
      BY <1>8 DEF Plan
    <2>3. exporter'.plan = plan /\ exporter'.batch = <<>>
      BY <2>2 DEF NoBatch
    <2>4. \A i \in 1..Len(plan) : plan[i].frame \in Stored(segs)
      BY <2>1, PlanTypeIs
    <2>5. Carried' \subseteq Stored(segs)
      BY <2>3, <2>4 DEF Carried, PlanFrames, BatchFrames
    <2> QED
      BY <2>1, <2>5 DEF Held
  <1>9. ASSUME Read PROVE running /\ running' /\ Carried' \subseteq Held
    <2>1. running /\ running'
      BY <1>9 DEF Read
    <2>2. exporter' = IF ReadBatch = <<>> THEN NoBatch
                      ELSE [NoBatch EXCEPT !.pc = "send", !.batch = ReadBatch,
                                           !.pending = Ids(ReadBatch)]
      BY <1>9 DEF Read, ReadBatch
    <2>3. exporter' = NoBatch \/ (exporter'.plan = <<>> /\ exporter'.batch = ReadBatch)
      BY <2>2 DEF NoBatch
    <2>4. ASSUME NEW i \in 1..Len(ReadBatch) PROVE ReadBatch[i] \in PlanFrames
      <3>1. Len(exporter.plan) \in Nat
        BY DEF Types, ExporterType
      <3>2. i \in 1..Len(exporter.plan) /\ ReadBatch[i] = exporter.plan[i].frame
        BY <3>1, BatchIs
      <3> QED
        BY <3>2 DEF PlanFrames
    <2>5. exporter'.plan = <<>> /\ exporter'.batch = ReadBatch => Carried' \subseteq PlanFrames
      BY <2>4 DEF Carried, PlanFrames, BatchFrames
    <2> QED
      BY <1>4, <2>1, <2>3, <2>5 DEF Held, Carried
  <1>10. ASSUME CallSink \/ SendAllAcked \/ SendFailed
                \/ \E failed \in SUBSET exporter.pending : SendPartial(failed)
         PROVE  running /\ running' /\ Carried' \subseteq Held
    <2>1. running /\ running'
      <3>1. ASSUME NEW failed \in SUBSET exporter.pending, SendPartial(failed)
            PROVE  running /\ running'
        BY <3>1 DEF SendPartial, Sending
      <3>2. CASE CallSink \/ SendAllAcked \/ SendFailed
        BY <3>2 DEF CallSink, SendAllAcked, SendFailed, Sending
      <3> QED
        BY <1>10, <3>1, <3>2
    <2>2. \/ exporter' = [exporter EXCEPT !.pc = "sink"]
          \/ exporter' = [exporter EXCEPT !.pc = "commit"]
          \/ exporter' = [exporter EXCEPT !.pc = "send", !.attempt = NextAttempt]
          \/ \E failed \in SUBSET exporter.pending :
                exporter' = [exporter EXCEPT !.pc = "send", !.pending = failed, !.attempt = NextAttempt]
      BY <1>10 DEF CallSink, SendAllAcked, SendFailed, SendPartial, SentAgain
    <2>3. exporter'.plan = exporter.plan /\ exporter'.batch = exporter.batch
      BY <2>2 DEF Types, ExporterType
    <2>4. Carried' = Carried
      BY <2>3 DEF Carried, PlanFrames, BatchFrames
    <2> QED
      BY <2>1, <2>4 DEF Held
  <1>11. ASSUME Commit \/ StopExporter PROVE running /\ running' /\ Carried' \subseteq Held
    <2>1. running /\ running'
      BY <1>11 DEF Commit, StopExporter, InnerFree
    <2>2. exporter'.plan = <<>> /\ exporter'.batch = <<>>
      BY <1>11 DEF Commit, StopExporter, NoBatch
    <2> QED
      BY <1>3, <2>1, <2>2
  <1>12. ASSUME \/ \E n \in 1..MaxGroup, needs_fsync \in BOOLEAN : BeginGroup(n, needs_fsync)
                \/ WriteRecord \/ DropAndWrite \/ RejectRecord \/ WaitForRoom \/ FinishGroup
                \/ SpuriousWakeup \/ TickSnapshot \/ TickStore
                \/ FlushSync \/ FlushSnapshot \/ FlushStore
         PROVE  running /\ running' /\ Carried' \subseteq Held
    <2>1. running /\ running' /\ UNCHANGED exporter
      BY <1>12 DEF BeginGroup, WriteRecord, DropAndWrite, RejectRecord, WaitForRoom, FinishGroup,
         SpuriousWakeup, TickSnapshot, TickStore, FlushSync, FlushSnapshot, FlushStore, Writing, InnerFree
    <2> QED
      BY <1>1, <2>1 DEF Held
  <1> QED
    BY <1>2, <1>6, <1>7, <1>8, <1>9, <1>10, <1>11, <1>12, NextActions

(* Nothing is held that was not, but a record that was just appended.      *)
LEMMA HeldNext ==
  ASSUME Types, FilesInv, ExportInv, Next
  PROVE  \/ /\ WriteRecord \/ DropAndWrite
            /\ LogGrown
            /\ Carried' = Carried
            /\ Held' \subseteq Held \union {Frame(Reach(segs), Head(leader.group))}
            /\ Reach(segs') = Reach(segs) + 1
         \/ /\ ~(WriteRecord \/ DropAndWrite)
            /\ Held' \subseteq Held
            /\ Carried' = {} \/ Reach(segs') = Reach(segs)
  <1>1. Held' = Stored(segs') \union Carried'
    BY DEF Held
  <1>2. CASE WriteRecord \/ DropAndWrite
    <2>1. LogGrown
      BY <1>2, WriteGrows, DropGrows
    <2>2. Carried' = Carried
      BY <1>2, CarriedNext
    <2> QED
      BY <1>1, <1>2, <2>1, <2>2 DEF LogGrown, Held
  <1>3. CASE ~(WriteRecord \/ DropAndWrite)
    <2>1. CASE LogKept
      BY <1>1, <1>3, <2>1, CarriedNext DEF LogKept, Trimmed, Held
    <2>2. CASE LogLost
      BY <1>1, <1>3, <2>2, CarriedNext DEF LogLost, Held
    <2>3. CASE LogOpened
      <3>1. Stored(segs') = Stored(segs)
        BY <2>3, SameFiles DEF LogOpened, FilesInv, FilesOk
      <3> QED
        BY <1>1, <1>3, <2>3, <3>1, CarriedNext DEF LogOpened, Held
    <2> QED
      BY <1>3, <2>1, <2>2, <2>3, NextLog
  <1> QED
    BY <1>2, <1>3

LEMMA HeldInvNext ==
  ASSUME Types, FilesInv, ExportInv, IdsInv, HeldInv, [Next]_vars
  PROVE  HeldInv'
  <1>1. CASE UNCHANGED vars
    BY <1>1 DEF vars, log, HeldInv, Held, Carried, PlanFrames, BatchFrames
  <1>2. CASE Next
    <2> DEFINE new == Frame(Reach(segs), Head(leader.group))
    <2>1. \A f \in Held : f.off \in Nat /\ f.id \in Nat /\ f.off < Reach(segs)
      BY HeldTypes DEF HeldInv, Held
    <2>2. Reach(segs) \in Nat
      BY HeldTypes
    <2>3. CASE ~(WriteRecord \/ DropAndWrite)
      <3>1. Held' \subseteq Held /\ (Carried' = {} \/ Reach(segs') = Reach(segs)) /\ Carried' \subseteq Held
        BY <1>2, <2>3, HeldNext, CarriedNext
      <3> QED
        BY <2>1, <3>1 DEF HeldInv
    <2>4. CASE WriteRecord \/ DropAndWrite
      <3>1. /\ Carried' = Carried /\ Held' \subseteq Held \union {new}
            /\ Reach(segs') = Reach(segs) + 1 /\ leader.group # <<>>
        BY <1>2, <2>4, HeldNext DEF LogGrown
      <3>2. new.off = Reach(segs) /\ new.id = Head(leader.group)
        BY DEF Frame
      <3>3. 1 \in 1..Len(leader.group) /\ Head(leader.group) = leader.group[1]
            /\ Head(leader.group) \in Nat
        BY <3>1, TailIs DEF Types, LeaderType
      <3>4. \A f \in Held : f.id < new.id /\ f.off < new.off /\ new.off \in Nat /\ new.id \in Nat
        <4>1. \A f \in Held : f.id \in Seen
          BY DEF Seen
        <4> QED
          BY <2>1, <2>2, <3>2, <3>3, <4>1 DEF IdsInv
      <3> HIDE DEF new
      <3>5. ASSUME NEW f \in Held', NEW g \in Held'
            PROVE  (f.off < g.off => f.id < g.id) /\ (f.off = g.off => f = g)
        <4>1. CASE f \in Held /\ g \in Held
          BY <4>1 DEF HeldInv
        <4>2. CASE f = new /\ g = new
          <5>1. ~(new.off < new.off)
            BY <2>2, <3>2
          <5> QED
            BY <4>2, <5>1
        <4>3. CASE f \in Held /\ g = new
          BY <2>1, <3>4, <4>3
        <4>4. CASE f = new /\ g \in Held
          BY <2>1, <3>4, <4>4
        <4> QED
          BY <3>1, <4>1, <4>2, <4>3, <4>4
      <3>6. \A f \in Carried' : f.off < Reach(segs')
        BY <2>1, <2>2, <3>1 DEF HeldInv, Held
      <3> QED
        BY <3>5, <3>6 DEF HeldInv
    <2> QED
      BY <2>3, <2>4
  <1> QED
    BY <1>1, <1>2

(* What the end of a process does to everything but the files.             *)
LEMMA DownIs ==
  ASSUME Kill \/ PowerLoss \/ Forget \/ Close
  PROVE  /\ running /\ ~running' /\ leader' = NoGroup /\ exporter' = NoBatch
         /\ tick' = NoTick /\ flusher' = NoFlush
         /\ UNCHANGED <<store_type, acked, next_id, flushes, delivered, life, twice, discarded, gave_up>>
         /\ accepted' \subseteq accepted /\ promised' \subseteq promised \union accepted
  <1>1. Down => /\ running /\ ~running' /\ leader' = NoGroup /\ exporter' = NoBatch
                /\ tick' = NoTick /\ flusher' = NoFlush
    BY DEF Down
  <1>2. CASE Kill
    BY <1>1, <1>2 DEF Kill, history
  <1>3. CASE PowerLoss
    BY <1>1, <1>3 DEF PowerLoss
  <1>4. CASE Forget
    BY <1>1, <1>4 DEF Forget
  <1>5. CASE Close
    BY <1>1, <1>5 DEF Close
  <1> QED
    BY <1>2, <1>3, <1>4, <1>5

(* What a step hears of: nothing new, or the head of the group. *)
LEMMA SeenNext ==
  ASSUME Types, FilesInv, ExportInv, Next
  PROVE  \/ Seen' \subseteq Seen
         \/ /\ WriteRecord \/ DropAndWrite
            /\ Seen' \subseteq Seen \union {Head(leader.group)}
  <1> DEFINE ids == {f.id : f \in Held}
             books == UNION {accepted, promised, delivered, life, discarded, gave_up}
  <1>1. Seen = ids \union books \union leader.written
    BY DEF Seen
  <1>2. Seen' = ids' \union books' \union leader'.written
    BY DEF Seen
  <1>3. exporter.pending \subseteq Seen
    <2>1. Ids(exporter.batch) = {f.id : f \in BatchFrames}
      BY IdsAre DEF Types, ExporterType, BatchFrames
    <2>2. BatchFrames \subseteq Held
      BY DEF Held, Carried
    <2> QED
      BY <2>1, <2>2 DEF ExportInv, Seen
  <1>4. CASE WriteRecord \/ DropAndWrite
    <2>1. LogGrown /\ Held' \subseteq Held \union {Frame(Reach(segs), Head(leader.group))}
      BY <1>4, HeldNext
    <2>2. ids' \subseteq ids \union {Head(leader.group)}
      BY <2>1 DEF Frame
    <2>3. discarded' \subseteq discarded \union ids
      BY <2>1 DEF LogGrown, Held
    <2>4. UNCHANGED <<accepted, promised, delivered, life, gave_up>>
      BY <1>4 DEF WriteRecord, DropAndWrite, history
    <2>5. leader'.written = leader.written \union {Head(leader.group)}
      BY <2>1 DEF LogGrown, Types, LeaderType
    <2> HIDE DEF ids
    <2> QED
      BY <1>1, <1>2, <1>4, <2>2, <2>3, <2>4, <2>5
  <1>5. CASE ~(WriteRecord \/ DropAndWrite)
    <2>1. ids' \subseteq ids
      <3>1. Held' \subseteq Held
        BY <1>5, HeldNext
      <3> QED
        BY <3>1
    <2>2. books' \union leader'.written \subseteq Seen
      <3> HIDE DEF ids
      <3>1. CASE \E n \in 1..MaxGroup, needs_fsync \in BOOLEAN : BeginGroup(n, needs_fsync)
        <4>1. UNCHANGED <<accepted, promised, delivered, life, discarded, gave_up>> /\ leader'.written = {}
          BY <3>1 DEF BeginGroup, history
        <4> QED
          BY <1>1, <4>1
      <3>2. CASE RejectRecord \/ WaitForRoom \/ SpuriousWakeup \/ Commit
        <4>1. UNCHANGED <<accepted, promised, delivered, life, discarded, gave_up>>
          BY <3>2 DEF RejectRecord, WaitForRoom, SpuriousWakeup, Commit, history
        <4>2. leader'.written = leader.written
          BY <3>2 DEF RejectRecord, WaitForRoom, SpuriousWakeup, Commit, Woken, Types, LeaderType
        <4> QED
          BY <1>1, <4>1, <4>2
      <3>3. CASE FinishGroup
        <4>1. /\ UNCHANGED <<delivered, life, discarded, gave_up>>
              /\ accepted' = accepted \union leader.written
              /\ promised' = promised \/ promised' = promised \union leader.written
              /\ leader'.written = {}
          BY <3>3 DEF FinishGroup, NoGroup
        <4> QED
          BY <1>1, <4>1
      <3>4. CASE Plan \/ Read \/ CallSink \/ StopExporter \/ TickSnapshot \/ TickStore
                 \/ FlushSync \/ FlushSnapshot
        <4>1. UNCHANGED <<accepted, promised, delivered, life, discarded, gave_up, leader>>
          BY <3>4 DEF Plan, Read, CallSink, StopExporter, TickSnapshot, TickStore, FlushSync,
             FlushSnapshot, history
        <4> QED
          BY <1>1, <4>1
      <3>5. CASE SendAllAcked \/ \E failed \in SUBSET exporter.pending : SendPartial(failed)
        <4>1. /\ UNCHANGED <<accepted, promised, discarded, gave_up, leader>>
              /\ \E ids2 \in SUBSET exporter.pending :
                    delivered' = delivered \union ids2 /\ life' = life \union ids2
          <5>1. CASE SendAllAcked
            BY <5>1 DEF SendAllAcked, Deliver
          <5>2. ASSUME NEW failed \in SUBSET exporter.pending, SendPartial(failed)
                PROVE  /\ UNCHANGED <<accepted, promised, discarded, gave_up, leader>>
                       /\ delivered' = delivered \union (exporter.pending \ failed)
                       /\ life' = life \union (exporter.pending \ failed)
            BY <5>2 DEF SendPartial, Deliver
          <5> QED
            BY <3>5, <5>1, <5>2
        <4> QED
          BY <1>1, <1>3, <4>1
      <3>6. CASE SendFailed
        <4>1. /\ UNCHANGED <<accepted, promised, delivered, life, discarded, leader>>
              /\ gave_up' \subseteq gave_up \union exporter.pending
          BY <3>6 DEF SendFailed
        <4> QED
          BY <1>1, <1>3, <4>1
      <3>7. CASE FlushStore
        <4>1. /\ UNCHANGED <<accepted, delivered, life, discarded, gave_up, leader>>
              /\ promised' \subseteq promised \union accepted
          BY <3>7 DEF FlushStore
        <4> QED
          BY <1>1, <4>1
      <3>8. CASE Kill \/ PowerLoss \/ Forget \/ Close
        <4>1. /\ UNCHANGED <<delivered, life, discarded, gave_up>>
              /\ accepted' \subseteq accepted /\ promised' \subseteq promised \union accepted
              /\ leader'.written = {}
          BY <3>8, DownIs DEF NoGroup
        <4> QED
          BY <1>1, <4>1
      <3>9. CASE Open
        <4>1. /\ UNCHANGED <<accepted, promised, delivered, discarded, gave_up, leader>> /\ life' = {}
          BY <3>9 DEF Open
        <4> QED
          BY <1>1, <4>1
      <3> QED
        BY <1>5, <3>1, <3>2, <3>3, <3>4, <3>5, <3>6, <3>7, <3>8, <3>9, NextActions
    <2> HIDE DEF ids, books
    <2> QED
      BY <1>1, <1>2, <2>1, <2>2
  <1> QED
    BY <1>4, <1>5

(* The group stays, loses its head, ends, or is a new one. *)
LEMMA GroupNext ==
  ASSUME Types, Next
  PROVE  \/ leader'.group = leader.group /\ next_id' = next_id
         \/ leader'.group = <<>> /\ next_id' = next_id
         \/ leader.group # <<>> /\ leader'.group = Tail(leader.group) /\ next_id' = next_id
         \/ \E n \in 1..MaxGroup :
               /\ next_id' = next_id + n /\ next_id + n <= MaxRecords + 1
               /\ leader'.group = [i \in 1..n |-> next_id + i - 1]
  <1> USE DEF Types, LeaderType
  <1>1. CASE \E n \in 1..MaxGroup, needs_fsync \in BOOLEAN : BeginGroup(n, needs_fsync)
    BY <1>1 DEF BeginGroup
  <1>2. CASE WriteRecord \/ DropAndWrite \/ RejectRecord \/ WaitForRoom
    <2>1. next_id' = next_id /\ leader.group # <<>>
      BY <1>2 DEF WriteRecord, DropAndWrite, RejectRecord, WaitForRoom, Writing, bounds
    <2>2. leader'.group = Tail(leader.group) \/ leader'.group = leader.group
      BY <1>2 DEF WriteRecord, DropAndWrite, RejectRecord, WaitForRoom, Put
    <2> QED
      BY <2>1, <2>2
  <1>3. CASE SpuriousWakeup \/ Commit
    BY <1>3 DEF SpuriousWakeup, Commit, Woken, bounds
  <1>4. CASE FinishGroup
    BY <1>4 DEF FinishGroup, NoGroup, bounds
  <1>5. CASE \/ Plan \/ Read \/ CallSink \/ SendAllAcked \/ SendFailed \/ StopExporter
             \/ TickSnapshot \/ TickStore \/ FlushSync \/ FlushSnapshot \/ FlushStore \/ Open
    BY <1>5 DEF Plan, Read, CallSink, SendAllAcked, SendFailed, StopExporter, TickSnapshot,
       TickStore, FlushSync, FlushSnapshot, FlushStore, Open, bounds
  <1>6. ASSUME NEW failed \in SUBSET exporter.pending, SendPartial(failed)
        PROVE  leader'.group = leader.group /\ next_id' = next_id
    BY <1>6 DEF SendPartial, bounds
  <1>7. CASE Kill \/ PowerLoss \/ Forget \/ Close
    BY <1>7, DownIs DEF NoGroup
  <1> QED
    BY <1>1, <1>2, <1>3, <1>4, <1>5, <1>6, <1>7, NextActions

LEMMA IdsNext ==
  ASSUME Types, FilesInv, ExportInv, IdsInv, [Next]_vars
  PROVE  IdsInv'
  <1>1. CASE UNCHANGED vars
    BY <1>1 DEF vars, log, bounds, history, IdsInv, Seen, Held, Carried, PlanFrames, BatchFrames
  <1>2. CASE Next
    <2> DEFINE g == leader.group
               h == leader'.group
    <2>1. /\ next_id \in Nat /\ g \in Seq(Nat) /\ Len(g) \in Nat /\ MaxRecords \in Nat
          /\ \A i \in 1..Len(g) : g[i] \in Nat
      BY EmbeddedLogAssumption DEF Types, LeaderType
    <2>2. /\ 1 <= next_id /\ next_id <= MaxRecords + 1
          /\ \A x \in Seen : x \in 1..next_id - 1
          /\ \A i \in 1..Len(g) : /\ g[i] \in 1..next_id - 1
                                  /\ \A x \in Seen : x < g[i]
                                  /\ \A j \in 1..Len(g) : i < j => g[i] < g[j]
      BY DEF IdsInv
    <2>3. SUFFICES /\ 1 <= next_id' /\ next_id' <= MaxRecords + 1
                   /\ \A x \in Seen' : x \in 1..next_id' - 1
                   /\ \A i \in 1..Len(h) : /\ h[i] \in 1..next_id' - 1
                                           /\ \A x \in Seen' : x < h[i]
                                           /\ \A j \in 1..Len(h) : i < j => h[i] < h[j]
      BY DEF IdsInv
    <2>4. CASE WriteRecord \/ DropAndWrite
      <3>1. /\ Seen' \subseteq Seen \union {Head(g)} /\ next_id' = next_id
            /\ g # <<>> /\ h = Tail(g)
        <4>1. LogGrown
          BY <2>4, WriteGrows, DropGrows
        <4>2. next_id' = next_id
          BY <2>4 DEF WriteRecord, DropAndWrite, bounds
        <4>3. Seen' \subseteq Seen \union {Head(g)}
          BY <1>2, SeenNext
        <4> QED
          BY <4>1, <4>2, <4>3 DEF LogGrown, Types, LeaderType
      <3> HIDE DEF g, h
      <3>2. /\ Head(g) = g[1] /\ Len(h) = Len(g) - 1 /\ Len(g) # 0
            /\ \A i \in 1..Len(g) - 1 : h[i] = g[i + 1] /\ i + 1 \in 1..Len(g)
        BY <2>1, <3>1, TailIs
      <3>3. 1 \in 1..Len(g)
        BY <2>1, <3>2
      <3>4. \A x \in Seen' : x \in Seen \/ x = g[1]
        BY <3>1, <3>2
      <3>5. \A i \in 1..Len(h) : g[1] < h[i]
        <4>1. \A i \in 1..Len(g) - 1 : 1 < i + 1
          OBVIOUS
        <4> QED
          BY <2>1, <2>2, <3>2, <3>3, <4>1
      <3>6. \A i, j \in 1..Len(h) : i < j => h[i] < h[j]
        <4>1. \A i, j \in 1..Len(g) - 1 : i < j => i + 1 < j + 1
          BY <2>1
        <4> QED
          BY <2>2, <3>2, <4>1
      <3> QED
        BY <2>2, <3>1, <3>2, <3>3, <3>4, <3>5, <3>6
    <2>5. CASE ~(WriteRecord \/ DropAndWrite)
      <3>1. Seen' \subseteq Seen
        BY <1>2, <2>5, SeenNext
      <3>2. CASE h = g /\ next_id' = next_id
        BY <2>2, <3>1, <3>2
      <3>3. CASE h = <<>> /\ next_id' = next_id
        BY <2>2, <3>1, <3>3
      <3>4. CASE g # <<>> /\ h = Tail(g) /\ next_id' = next_id
        <4> HIDE DEF g, h
        <4>1. /\ Len(h) = Len(g) - 1
              /\ \A i \in 1..Len(g) - 1 : h[i] = g[i + 1] /\ i + 1 \in 1..Len(g)
          BY <2>1, <3>4, TailIs
        <4>2. \A i, j \in 1..Len(g) - 1 : i < j => i + 1 < j + 1
          BY <2>1
        <4> QED
          BY <2>2, <3>1, <3>4, <4>1, <4>2
      <3>5. ASSUME NEW n \in 1..MaxGroup, next_id' = next_id + n, next_id + n <= MaxRecords + 1,
                   h = [i \in 1..n |-> next_id + i - 1]
            PROVE  /\ 1 <= next_id'
                   /\ \A x \in Seen' : x \in 1..next_id' - 1
                   /\ \A i \in 1..Len(h) : /\ h[i] \in 1..next_id' - 1
                                           /\ \A x \in Seen' : x < h[i]
                                           /\ \A j \in 1..Len(h) : i < j => h[i] < h[j]
        <4> HIDE DEF g, h
        <4>1. n \in Nat
          BY EmbeddedLogAssumption
        <4>2. Len(h) = n /\ \A i \in 1..n : h[i] = next_id + i - 1
          BY <2>1, <3>5, <4>1, GroupIs
        <4>3. \A x \in Seen' : x \in 1..next_id - 1
          BY <2>2, <3>1
        <4>4. next_id' - 1 = next_id + n - 1
          BY <2>1, <3>5, <4>1
        <4>5. \A x \in Seen' : x \in 1..next_id' - 1
          BY <2>1, <4>1, <4>3, <4>4
        <4>6. \A i \in 1..n : h[i] \in 1..next_id' - 1 /\ next_id - 1 < h[i]
          <5>1. ASSUME NEW i \in 1..n
                PROVE  next_id + i - 1 \in 1..next_id + n - 1 /\ next_id - 1 < next_id + i - 1
            BY <2>1, <2>2, <4>1
          <5> QED
            BY <4>2, <4>4, <5>1
        <4>7. \A i, j \in 1..n : i < j => h[i] < h[j]
          BY <2>1, <4>1, <4>2
        <4>8. \A i \in 1..n : \A x \in Seen' : x < h[i]
          BY <2>1, <4>1, <4>2, <4>3
        <4>9. 1 <= next_id'
          BY <2>1, <2>2, <3>5, <4>1
        <4>10. \A i \in 1..Len(h) : i \in 1..n
          BY <4>2
        <4>11. \A i \in 1..Len(h) : /\ h[i] \in 1..next_id' - 1
                                    /\ \A x \in Seen' : x < h[i]
                                    /\ \A j \in 1..Len(h) : i < j => h[i] < h[j]
          BY <4>6, <4>7, <4>8, <4>10
        <4> QED
          BY <4>5, <4>9, <4>11
      <3> QED
        BY <1>2, <2>2, <3>2, <3>3, <3>4, <3>5, GroupNext
    <2> QED
      BY <2>4, <2>5
  <1> QED
    BY <1>1, <1>2

-----------------------------------------------------------------------------
(* The export engine. *)

(* An engine with nothing in its hands. *)
LEMMA EmptyExport ==
  ASSUME exporter'.pc \in {"poll", "stopped"}, exporter'.plan = <<>>, exporter'.batch = <<>>,
         exporter'.pending = {}
  PROVE  ExportInv' /\ Carried' = {}
  <1>1. Len(<<>>) = 0
    OBVIOUS
  <1>2. BatchFrames' = {} /\ PlanFrames' = {}
    BY <1>1 DEF BatchFrames, PlanFrames
  <1> QED
    BY <1>1, <1>2 DEF ExportInv, Carried

(* The files keep what the engine carries. *)
LEMMA SameExport ==
  ASSUME Types, FilesInv, ExportInv, LogKept \/ LogGrown,
         exporter'.plan = exporter.plan, exporter'.batch = exporter.batch,
         exporter'.pending \subseteq exporter.pending,
         exporter'.pc # "read" => exporter.pc # "read",
         exporter'.pc \in {"send", "sink", "commit"} <=> exporter.pc \in {"send", "sink", "commit"}
  PROVE  ExportInv' /\ BatchFrames' = BatchFrames /\ PlanFrames' = PlanFrames
  <1>1. BatchFrames' = BatchFrames /\ PlanFrames' = PlanFrames
    BY DEF BatchFrames, PlanFrames
  <1>2. Flushed(segs) \in Nat /\ Flushed(segs') \in Nat /\ Flushed(segs) <= Flushed(segs')
    BY StoredOffsets DEF LogKept, LogGrown, Trimmed, FilesInv
  <1>3. running
    BY DEF LogKept, LogGrown
  <1>4. \A f \in BatchFrames : f.off \in Nat
    BY HeldTypes
  <1>5. \A f \in BatchFrames' : f.off < Flushed(segs')
    BY <1>1, <1>2, <1>3, <1>4 DEF ExportInv
  <1> QED
    BY <1>1, <1>5 DEF ExportInv

LEMMA ExportNext ==
  ASSUME Types, FilesInv, ExportInv, HeldInv, [Next]_vars
  PROVE  ExportInv'
  <1>1. CASE UNCHANGED vars
    BY <1>1 DEF vars, log, ExportInv, BatchFrames
  <1>2. ASSUME Next, exporter' = NoBatch PROVE ExportInv'
    BY <1>2, EmptyExport DEF NoBatch
  <1>3. ASSUME \/ \E n \in 1..MaxGroup, needs_fsync \in BOOLEAN : BeginGroup(n, needs_fsync)
               \/ WriteRecord \/ DropAndWrite \/ RejectRecord \/ WaitForRoom \/ FinishGroup
               \/ SpuriousWakeup \/ TickSnapshot \/ TickStore
               \/ FlushSync \/ FlushSnapshot \/ FlushStore
        PROVE  ExportInv'
    <2>1. UNCHANGED exporter
      BY <1>3 DEF BeginGroup, WriteRecord, DropAndWrite, RejectRecord, WaitForRoom, FinishGroup,
         SpuriousWakeup, TickSnapshot, TickStore, FlushSync, FlushSnapshot, FlushStore
    <2>2. LogKept \/ LogGrown
      BY <1>3, IdleKeeps, LeaderKeeps, FinishKeeps, SyncKeeps, WriteGrows, DropGrows DEF Idle
    <2> QED
      BY <2>1, <2>2, SameExport
  <1>4. ASSUME Plan PROVE ExportInv'
    <2>1. running /\ exporter.pc = "poll" /\ UNCHANGED segs
      BY <1>4 DEF Plan, InnerFree, log
    <2>2. PICK plan \in PlanRead(segs, acked, BatchRecords) :
             exporter' = [NoBatch EXCEPT !.pc = "read", !.plan = plan]
      BY <1>4 DEF Plan
    <2>3. /\ exporter'.plan = plan /\ exporter'.batch = <<>> /\ exporter'.pc = "read"
          /\ exporter'.pending = {}
      BY <2>2 DEF NoBatch
    <2>4. \A i, j \in 1..Len(plan) : i < j => plan[i].frame.off < plan[j].frame.off
      BY <2>1, PlanTypeIs
    <2>5. Len(<<>>) = 0 /\ BatchFrames' = {}
      BY <2>3 DEF BatchFrames
    <2> QED
      BY <2>3, <2>4, <2>5 DEF ExportInv
  <1>5. ASSUME Read PROVE ExportInv'
    <2>1. running /\ running' /\ exporter.pc = "read" /\ UNCHANGED segs
      BY <1>5 DEF Read, log
    <2>2. exporter' = IF ReadBatch = <<>> THEN NoBatch
                      ELSE [NoBatch EXCEPT !.pc = "send", !.batch = ReadBatch,
                                           !.pending = Ids(ReadBatch)]
      BY <1>5 DEF Read, ReadBatch
    <2>3. CASE ReadBatch = <<>>
      BY <2>2, <2>3, EmptyExport DEF NoBatch
    <2>4. CASE ReadBatch # <<>>
      <3>1. /\ exporter'.plan = <<>> /\ exporter'.batch = ReadBatch /\ exporter'.pc = "send"
            /\ exporter'.pending = Ids(ReadBatch)
        BY <2>2, <2>4 DEF NoBatch
      <3>2. Len(exporter.plan) \in Nat /\ Len(<<>>) = 0
        BY DEF Types, ExporterType
      <3>3. /\ \A i \in 1..Len(ReadBatch) : ReadBatch[i] = exporter.plan[i].frame
            /\ \A i \in 1..Len(ReadBatch) : i \in 1..Len(exporter.plan)
        BY <3>2, BatchIs
      <3>4. \A i, j \in 1..Len(ReadBatch) : i < j => ReadBatch[i].off < ReadBatch[j].off
        BY <3>3 DEF ExportInv
      <3>5. \A i \in 1..Len(ReadBatch) : ReadBatch[i].off < Flushed(segs)
        <4>1. CASE Persistent
          BY <4>1, BatchIs
        <4>2. CASE ~Persistent
          <5>1. Flushed(segs) = Reach(segs)
            <6>1. CASE segs = <<>>
              BY <6>1 DEF Flushed, Reach
            <6>2. CASE segs # <<>>
              <7>1. Frames(segs, Len(segs)) <= 0 /\ Len(segs) \in 1..Len(segs) /\ segs \in Seq(SegmentType)
                BY <4>2, <6>2, FileTypes DEF FilesInv, ActiveLimit, FilesOk
              <7>2. /\ Frames(segs, Len(segs)) \in Nat /\ segs[Len(segs)].os \in Nat
                    /\ segs[Len(segs)].os <= Frames(segs, Len(segs))
                BY <7>1, FileTypes DEF FilesInv, FilesOk, Marked
              <7>3. segs[Len(segs)].os = Frames(segs, Len(segs))
                BY <7>1, <7>2
              <7> QED
                BY <6>2, <7>3 DEF Flushed, Reach
            <6> QED
              BY <6>1, <6>2
          <5>2. \A i \in 1..Len(ReadBatch) : ReadBatch[i] \in Carried
            BY <3>3 DEF Carried, PlanFrames
          <5> QED
            BY <5>1, <5>2 DEF HeldInv
        <4> QED
          BY <4>1, <4>2
      <3>6. \A f \in BatchFrames' : f.off < Flushed(segs)
        BY <3>1, <3>5 DEF BatchFrames
      <3> QED
        BY <2>1, <2>4, <3>1, <3>2, <3>4, <3>6 DEF ExportInv
    <2> QED
      BY <2>3, <2>4
  <1>6. ASSUME \/ CallSink \/ SendAllAcked \/ SendFailed
               \/ \E failed \in SUBSET exporter.pending : SendPartial(failed)
        PROVE  ExportInv'
    <2>1. exporter.pc \in {"send", "sink"}
      BY <1>6 DEF CallSink, SendAllAcked, SendFailed, SendPartial, Sending
    <2>2. \/ exporter' = [exporter EXCEPT !.pc = "sink"]
          \/ exporter' = [exporter EXCEPT !.pc = "commit"]
          \/ exporter' = [exporter EXCEPT !.pc = "send", !.attempt = NextAttempt]
          \/ \E failed \in SUBSET exporter.pending :
                exporter' = [exporter EXCEPT !.pc = "send", !.pending = failed, !.attempt = NextAttempt]
      BY <1>6 DEF CallSink, SendAllAcked, SendFailed, SendPartial, SentAgain
    <2>3. /\ exporter'.plan = exporter.plan /\ exporter'.batch = exporter.batch
          /\ exporter'.pc \in {"send", "sink", "commit"}
          /\ exporter'.pending \subseteq exporter.pending
      BY <2>2 DEF Types, ExporterType
    <2>4. LogKept
      BY <1>6, IdleKeeps DEF Idle, Answer
    <2> QED
      BY <2>1, <2>3, <2>4, SameExport
  <1>7. ASSUME Commit \/ StopExporter PROVE ExportInv'
    BY <1>7, EmptyExport DEF Commit, StopExporter, NoBatch
  <1>8. ASSUME Kill \/ PowerLoss \/ Forget \/ Close PROVE ExportInv'
    BY <1>8, DownIs, EmptyExport DEF NoBatch
  <1>9. ASSUME Open PROVE ExportInv'
    <2>1. exporter' = NoBatch
      BY <1>9 DEF Open, Types
    <2> QED
      BY <2>1, EmptyExport DEF NoBatch
  <1> QED
    BY <1>1, <1>3, <1>4, <1>5, <1>6, <1>7, <1>8, <1>9, NextActions

-----------------------------------------------------------------------------
(* Nothing is delivered twice in one life. *)

(* A record delivered in this life is below the cursor or in the batch; no *)
(* plan holds it, and it is not sent again.                                *)
OnceInv ==
    /\ twice = {}
    /\ running /\ exporter.pc # "stopped" =>
        /\ \A f \in Stored(segs) : f.id \in life => f.off < acked \/ f \in BatchFrames
        /\ \A f \in PlanFrames : f.id \notin life
        /\ exporter.pc \in {"send", "sink"} => exporter.pending \intersect life = {}

(* Frames that are held and have one record are one frame. *)
LEMMA OneFrame ==
  ASSUME Types, FilesInv, HeldInv, NEW f \in Held, NEW g \in Held, f.id <= g.id
  PROVE  f.off <= g.off /\ (f.id = g.id => f = g)
  <1>1. f.off \in Nat /\ f.id \in Nat /\ g.off \in Nat /\ g.id \in Nat
    BY HeldTypes
  <1>2. ~(g.off < f.off)
    BY <1>1 DEF HeldInv
  <1>3. f.id = g.id => ~(f.off < g.off)
    BY <1>1 DEF HeldInv
  <1> QED
    BY <1>1, <1>2, <1>3 DEF HeldInv

(* The engine keeps what it has, and the log may grow. *)
LEMMA OnceKept ==
  ASSUME Types, FilesInv, ExportInv, IdsInv, OnceInv, LogKept \/ LogGrown,
         UNCHANGED <<life, twice, exporter>>
  PROVE  OnceInv'
  <1>1. BatchFrames' = BatchFrames /\ PlanFrames' = PlanFrames /\ running
    BY DEF BatchFrames, PlanFrames, LogKept, LogGrown
  <1>2. acked \in Nat /\ acked' \in Nat /\ acked <= acked'
    BY DEF LogKept, LogGrown, Types
  <1>3. SUFFICES ASSUME exporter.pc # "stopped", NEW f \in Stored(segs'), f.id \in life
                 PROVE  f.off < acked' \/ f \in BatchFrames
    BY <1>1 DEF OnceInv
  <1>4. CASE f \in Stored(segs)
    <2>1. f.off < acked \/ f \in BatchFrames
      BY <1>1, <1>3, <1>4 DEF OnceInv
    <2>2. f.off \in Nat
      BY <1>4, HeldTypes
    <2> QED
      BY <1>2, <2>1, <2>2
  <1>5. CASE f \notin Stored(segs)
    <2>1. f = Frame(Reach(segs), Head(leader.group)) /\ leader.group # <<>>
      BY <1>3, <1>5 DEF LogKept, LogGrown, Trimmed
    <2>2. f.id = leader.group[1] /\ 1 \in 1..Len(leader.group) /\ leader.group[1] \in Nat
      BY <2>1, TailIs DEF Types, LeaderType, Frame
    <2>3. f.id \in Seen
      BY <1>3 DEF Seen
    <2>4. f.id < f.id
      BY <2>2, <2>3 DEF IdsInv
    <2> QED
      BY <2>2, <2>4
  <1> QED
    BY <1>4, <1>5

(* The sink stored some of what is pending, and the rest may be sent again. *)
LEMMA OnceDelivered ==
  ASSUME Types, FilesInv, ExportInv, HeldInv, OnceInv, running,
         exporter.pc \in {"send", "sink"},
         NEW ids \in SUBSET exporter.pending, Deliver(ids),
         UNCHANGED <<segs, acked>>,
         exporter'.plan = exporter.plan, exporter'.batch = exporter.batch,
         exporter'.pc = "commit" \/ exporter'.pending = exporter.pending \ ids
  PROVE  OnceInv'
  <1>1. BatchFrames' = BatchFrames /\ PlanFrames' = {}
    <2>1. exporter.plan = <<>> /\ Len(<<>>) = 0
      BY DEF ExportInv
    <2> QED
      BY <2>1 DEF BatchFrames, PlanFrames
  <1>2. exporter.pending \intersect life = {} /\ twice = {}
    BY DEF OnceInv
  <1>3. twice' = {}
    BY <1>2 DEF Deliver
  <1>4. ASSUME NEW f \in Stored(segs), f.id \in life \union ids
        PROVE  f.off < acked \/ f \in BatchFrames
    <2>1. CASE f.id \in life
      BY <2>1 DEF OnceInv
    <2>2. CASE f.id \in ids
      <3>1. f.id \in Ids(exporter.batch)
        <4>1. exporter.pending \subseteq Ids(exporter.batch)
          BY DEF ExportInv
        <4> QED
          BY <2>2, <4>1
      <3>2. PICK g \in BatchFrames : g.id = f.id
        <4>1. exporter.batch \in Seq(FrameType)
          BY DEF Types, ExporterType
        <4> QED
          BY <3>1, <4>1, IdsAre DEF BatchFrames
      <3>3. f \in Held /\ g \in Held /\ f.id \in Nat
        BY HeldTypes
      <3>4. f = g
        BY <3>2, <3>3, OneFrame
      <3> QED
        BY <3>4
    <2> QED
      BY <1>4, <2>1, <2>2
  <1>5. exporter'.pc \in {"send", "sink"} => exporter'.pending \intersect (life \union ids) = {}
    BY <1>2
  <1> QED
    BY <1>1, <1>3, <1>4, <1>5 DEF OnceInv, Deliver

LEMMA OnceNext ==
  ASSUME Types, FilesInv, ExportInv, IdsInv, HeldInv, OnceInv, [Next]_vars
  PROVE  OnceInv'
  <1>1. CASE UNCHANGED vars
    BY <1>1 DEF vars, log, history, OnceInv, BatchFrames, PlanFrames
  <1>2. ASSUME \/ \E n \in 1..MaxGroup, needs_fsync \in BOOLEAN : BeginGroup(n, needs_fsync)
               \/ WriteRecord \/ DropAndWrite \/ RejectRecord \/ WaitForRoom \/ FinishGroup
               \/ SpuriousWakeup \/ TickSnapshot \/ TickStore
               \/ FlushSync \/ FlushSnapshot \/ FlushStore
        PROVE  OnceInv'
    <2>1. UNCHANGED <<life, twice, exporter>>
      BY <1>2 DEF BeginGroup, WriteRecord, DropAndWrite, RejectRecord, WaitForRoom, FinishGroup,
         SpuriousWakeup, TickSnapshot, TickStore, FlushSync, FlushSnapshot, FlushStore, history
    <2>2. LogKept \/ LogGrown
      BY <1>2, IdleKeeps, LeaderKeeps, FinishKeeps, SyncKeeps, WriteGrows, DropGrows DEF Idle
    <2> QED
      BY <2>1, <2>2, OnceKept
  <1>3. ASSUME Plan PROVE OnceInv'
    <2>1. /\ running /\ exporter.pc = "poll" /\ UNCHANGED <<segs, acked, life, twice>>
      BY <1>3 DEF Plan, InnerFree, log, history
    <2>2. PICK plan \in PlanRead(segs, acked, BatchRecords) :
             exporter' = [NoBatch EXCEPT !.pc = "read", !.plan = plan]
      BY <1>3 DEF Plan
    <2>3. /\ exporter'.plan = plan /\ exporter'.batch = <<>> /\ exporter'.pc = "read"
      BY <2>2 DEF NoBatch
    <2>4. BatchFrames = {} /\ BatchFrames' = {}
      <3>1. exporter.batch = <<>> /\ Len(<<>>) = 0
        BY <2>1 DEF ExportInv
      <3> QED
        BY <2>3, <3>1 DEF BatchFrames
    <2>5. \A f \in Stored(segs) : f.id \in life => f.off < acked
      BY <2>1, <2>4 DEF OnceInv
    <2>6. ASSUME NEW f \in PlanFrames' PROVE f.id \notin life
      <3>1. PICK i \in 1..Len(plan) : f = plan[i].frame
        BY <2>3 DEF PlanFrames
      <3>2. f \in Stored(segs) /\ f.off >= acked
        BY <2>1, <3>1, PlanTypeIs
      <3>3. f.off \in Nat /\ acked \in Nat
        BY <3>2, HeldTypes DEF Types
      <3> QED
        BY <2>5, <3>2, <3>3
    <2> QED
      BY <2>1, <2>3, <2>5, <2>6 DEF OnceInv
  <1>4. ASSUME Read PROVE OnceInv'
    <2>1. running /\ running' /\ exporter.pc = "read" /\ UNCHANGED <<segs, acked, life, twice>>
      BY <1>4 DEF Read, log, history
    <2>2. exporter' = IF ReadBatch = <<>> THEN NoBatch
                      ELSE [NoBatch EXCEPT !.pc = "send", !.batch = ReadBatch,
                                           !.pending = Ids(ReadBatch)]
      BY <1>4 DEF Read, ReadBatch
    <2>3. BatchFrames = {} /\ PlanFrames' = {}
      <3>1. exporter.batch = <<>> /\ exporter'.plan = <<>> /\ Len(<<>>) = 0
        BY <2>1, <2>2 DEF ExportInv, NoBatch
      <3> QED
        BY <3>1 DEF BatchFrames, PlanFrames
    <2>4. \A f \in Stored(segs) : f.id \in life => f.off < acked
      BY <2>1, <2>3 DEF OnceInv
    <2>5. exporter'.pc \in {"send", "sink"} => exporter'.pending \intersect life = {}
      <3>1. exporter'.pc \in {"send", "sink"} => exporter'.pending = Ids(ReadBatch)
        BY <2>2 DEF NoBatch
      <3>2. ASSUME NEW id \in Ids(ReadBatch) PROVE id \notin life
        <4>1. PICK i \in 1..Len(ReadBatch) : id = ReadBatch[i].id
          BY DEF Ids
        <4>2. Len(exporter.plan) \in Nat
          BY DEF Types, ExporterType
        <4>3. i \in 1..Len(exporter.plan) /\ ReadBatch[i] = exporter.plan[i].frame
          BY <4>2, BatchIs
        <4>4. ReadBatch[i] \in PlanFrames
          BY <4>3 DEF PlanFrames
        <4> QED
          BY <2>1, <4>1, <4>4 DEF OnceInv
      <3> QED
        BY <3>1, <3>2
    <2> QED
      BY <2>1, <2>3, <2>4, <2>5 DEF OnceInv
  <1>5. ASSUME CallSink \/ SendFailed PROVE OnceInv'
    <2>1. /\ running /\ exporter.pc \in {"send", "sink"}
          /\ UNCHANGED <<segs, acked, life, twice, running>>
      BY <1>5 DEF CallSink, SendFailed, Sending, log, history
    <2>2. /\ exporter'.plan = exporter.plan /\ exporter'.batch = exporter.batch
          /\ exporter'.pending = exporter.pending
      BY <1>5 DEF CallSink, SendFailed, Types, ExporterType
    <2>3. BatchFrames' = BatchFrames /\ PlanFrames' = PlanFrames
      BY <2>2 DEF BatchFrames, PlanFrames
    <2> QED
      BY <2>1, <2>2, <2>3 DEF OnceInv
  <1>6. ASSUME SendAllAcked PROVE OnceInv'
    <2>1. /\ running /\ exporter.pc = "sink" /\ UNCHANGED <<segs, acked>> /\ Deliver(exporter.pending)
      BY <1>6 DEF SendAllAcked, Sending, log
    <2>2. /\ exporter'.plan = exporter.plan /\ exporter'.batch = exporter.batch
          /\ exporter'.pc = "commit"
      BY <1>6 DEF SendAllAcked, Types, ExporterType
    <2> QED
      BY <2>1, <2>2, OnceDelivered
  <1>7. ASSUME NEW failed \in SUBSET exporter.pending, SendPartial(failed) PROVE OnceInv'
    <2>1. /\ running /\ exporter.pc = "sink" /\ UNCHANGED <<segs, acked>>
          /\ Deliver(exporter.pending \ failed)
      BY <1>7 DEF SendPartial, Sending, log
    <2>2. /\ exporter'.plan = exporter.plan /\ exporter'.batch = exporter.batch
          /\ exporter'.pc = "commit" \/ exporter'.pending = failed
      BY <1>7 DEF SendPartial, SentAgain, Types, ExporterType
    <2>3. failed = exporter.pending \ (exporter.pending \ failed)
      OBVIOUS
    <2> QED
      BY <2>1, <2>2, <2>3, OnceDelivered
  <1>8. ASSUME Commit PROVE OnceInv'
    <2>1. /\ running /\ exporter.pc = "commit" /\ exporter' = NoBatch
          /\ UNCHANGED <<segs, life, twice>>
      BY <1>8 DEF Commit, InnerFree, history
    <2>2. /\ \A f \in BatchFrames : f.off < acked'
          /\ acked' \in Nat /\ acked <= acked' /\ acked \in Nat
      BY <1>8, CommitKeeps DEF LogKept, Types
    <2>3. ASSUME NEW f \in Stored(segs), f.id \in life PROVE f.off < acked'
      <3>1. f.off < acked \/ f \in BatchFrames
        BY <2>1, <2>3 DEF OnceInv
      <3>2. f.off \in Nat
        BY HeldTypes
      <3> QED
        BY <2>2, <3>1, <3>2
    <2>4. PlanFrames' = {} /\ exporter'.pc = "poll"
      <3>1. Len(<<>>) = 0
        OBVIOUS
      <3> QED
        BY <2>1, <3>1 DEF PlanFrames, NoBatch
    <2> QED
      BY <2>1, <2>3, <2>4 DEF OnceInv
  <1>9. ASSUME StopExporter PROVE OnceInv'
    <2>1. exporter'.pc = "stopped" /\ UNCHANGED twice
      BY <1>9 DEF StopExporter, NoBatch, history
    <2> QED
      BY <2>1 DEF OnceInv
  <1>10. ASSUME Kill \/ PowerLoss \/ Forget \/ Close PROVE OnceInv'
    BY <1>10, DownIs DEF OnceInv
  <1>11. ASSUME Open PROVE OnceInv'
    <2>1. exporter' = NoBatch /\ life' = {} /\ UNCHANGED twice
      BY <1>11 DEF Open, Types
    <2>2. exporter'.pc = "poll"
      BY <2>1 DEF NoBatch
    <2> QED
      BY <2>1, <2>2 DEF OnceInv
  <1> QED
    BY <1>1, <1>2, <1>3, <1>4, <1>5, <1>6, <1>7, <1>8, <1>9, <1>10, <1>11, NextActions

-----------------------------------------------------------------------------
(* The invariant, and what follows from it without further assumptions.    *)

IInv == Types /\ FilesInv /\ ExportInv /\ IdsInv /\ HeldInv /\ OnceInv

LEMMA IInvInit == Init => IInv
  <1> SUFFICES ASSUME Init PROVE IInv
    OBVIOUS
  <1>1. Len(<<>>) = 0 /\ <<>> \in Seq(SegmentType)
    OBVIOUS
  <1>2. FilesOk(segs) /\ Believed(segs) /\ Stored(segs) = {} /\ DiskRecords(segs) = 0 /\ Flushed(segs) = 0
    <2>1. Slots(<<>>) = {} /\ Stored(<<>>) = {}
      BY <1>1 DEF Slots, Stored
    <2>2. FilesOk(<<>>) /\ Believed(<<>>)
      BY <1>1 DEF FilesOk, Laid, Marked, Believed
    <2>3. DiskRecords(<<>>) = 0
      BY <2>1, FS_EmptySet DEF DiskRecords
    <2> QED
      BY <2>1, <2>2, <2>3 DEF Init, Flushed
  <1>3. Types
    BY NoThreads DEF Init, Types
  <1>4. FilesInv
    BY <1>2, BudgetIs DEF Init, FilesInv
  <1>5. Carried = {} /\ BatchFrames = {} /\ PlanFrames = {}
    BY <1>1 DEF Init, NoBatch, Carried, BatchFrames, PlanFrames
  <1>6. ExportInv
    BY <1>1, <1>5 DEF Init, NoBatch, ExportInv
  <1>7. Held = {} /\ Seen = {}
    BY <1>2, <1>5 DEF Held, Seen, Init, NoGroup
  <1>8. IdsInv
    <2>1. leader.group = <<>> /\ next_id = 1 /\ MaxRecords \in Nat
      BY EmbeddedLogAssumption DEF Init, NoGroup
    <2> QED
      BY <1>1, <1>7, <2>1 DEF IdsInv
  <1>9. HeldInv
    BY <1>5, <1>7 DEF HeldInv
  <1>10. OnceInv
    BY <1>5 DEF Init, NoBatch, OnceInv
  <1> QED
    BY <1>3, <1>4, <1>6, <1>8, <1>9, <1>10 DEF IInv

LEMMA IInvNext == IInv /\ [Next]_vars => IInv'
  <1> SUFFICES ASSUME IInv, [Next]_vars PROVE IInv'
    OBVIOUS
  <1>1. Types /\ FilesInv /\ ExportInv /\ IdsInv /\ HeldInv /\ OnceInv
    BY DEF IInv
  <1>2. accepted \subseteq Nat
    <2>1. accepted \subseteq Seen
      BY DEF Seen
    <2>2. next_id \in Nat
      BY <1>1 DEF Types
    <2> QED
      BY <1>1, <2>1, <2>2 DEF IdsInv
  <1> QED
    BY <1>1, <1>2, TypesNext, FilesNext, ExportNext, IdsNext, HeldInvNext, OnceNext DEF IInv

THEOREM IInvCorrect == Spec => []IInv
  BY IInvInit, IInvNext, PTL DEF Spec

(* Every variable has its type, the files are those open and the reader    *)
(* rely on, and next_offset - acked does not underflow, after any crash.   *)
THEOREM LogTypeCorrect == Spec => []TypeOK
  <1>1. IInv => TypeOK
    <2> SUFFICES ASSUME IInv PROVE TypeOK
      OBVIOUS
    <2>1. Types /\ FilesInv /\ IdsInv
      BY DEF IInv
    <2>2. FilesOk(segs) /\ segs \in Seq(SegmentType)
      BY <2>1 DEF FilesInv, FilesOk
    <2>3. ASSUME NEW i \in 1..Len(segs)
          PROVE  /\ segs[i].os \in 0..Len(segs[i].recs)
                 /\ segs[i].synced \in 0..segs[i].os
                 /\ running => segs[i].end = IF i < Len(segs) THEN segs[i + 1].base
                                             ELSE segs[i].base + Len(segs[i].recs)
      <3>1. segs[i].os \in Nat /\ segs[i].synced \in Nat /\ Frames(segs, i) \in Nat
        BY <2>2, FileTypes
      <3>2. segs[i].synced <= segs[i].os /\ segs[i].os <= Frames(segs, i)
        BY <2>2 DEF FilesOk, Marked
      <3>3. running => segs[i].end = IF i < Len(segs) THEN segs[i + 1].base
                                     ELSE segs[i].base + Frames(segs, i)
        BY <2>1 DEF FilesInv, Believed
      <3> QED
        BY <3>1, <3>2, <3>3 DEF Frames
    <2>4. CursorInLog
      <3>1. running => NextOffset(segs) = Reach(segs) /\ acked <= Flushed(segs)
        BY <2>1, NextIsReach DEF FilesInv
      <3>2. Reach(segs) \in Nat /\ Flushed(segs) \in Nat /\ Flushed(segs) <= Reach(segs) /\ acked \in Nat
        BY <2>1, <2>2, StoredOffsets DEF Types
      <3> QED
        BY <3>1, <3>2 DEF CursorInLog
    <2>5. UNION {accepted, promised, delivered, discarded, gave_up} \subseteq 1..MaxRecords
      <3>1. UNION {accepted, promised, delivered, discarded, gave_up} \subseteq Seen
        BY DEF Seen
      <3>2. next_id \in Nat /\ MaxRecords \in Nat /\ next_id <= MaxRecords + 1
        BY <2>1, EmbeddedLogAssumption DEF Types, IdsInv
      <3>3. \A x \in Seen : x \in 1..next_id - 1
        BY <2>1 DEF IdsInv
      <3>4. \A x \in Seen : x \in 1..MaxRecords
        BY <3>2, <3>3
      <3> QED
        BY <3>1, <3>4
    <2>6. /\ {acked, cp, tick.cp, flusher.cp} \subseteq Nat
          /\ leader.pc \in {"idle", "write", "wait_room", "woken"}
          /\ exporter.pc \in {"poll", "read", "send", "sink", "commit", "stopped"}
          /\ tick.pc \in {"sleep", "store"} /\ flusher.pc \in {"none", "persist", "store"}
          /\ running \in BOOLEAN
      BY <2>1 DEF Types, LeaderType, ExporterType, TickType, FlusherType
    <2> QED
      BY <2>3, <2>4, <2>5, <2>6 DEF TypeOK
  <1> QED
    BY <1>1, IInvCorrect, PTL

(* Between two restarts a record reaches the sink once, whatever fails.    *)
THEOREM NoDuplicateInLifeCorrect == Spec => []NoDuplicateInLife
  <1>1. IInv => NoDuplicateInLife
    BY DEF IInv, OnceInv, NoDuplicateInLife
  <1> QED
    BY <1>1, IInvCorrect, PTL

(* The disk budget is exceeded by at most one record, and by that one only *)
(* under dropOldest.                                                       *)
THEOREM WithinBudgetCorrect == Spec => []WithinBudget
  <1>1. IInv => WithinBudget
    BY DEF IInv, FilesInv, Budget, WithinBudget
  <1> QED
    BY <1>1, IInvCorrect, PTL

-----------------------------------------------------------------------------
(* Nothing that was accepted is lost, as long as the power is not.         *)

(* What the engine has of a batch was planned without a gap: a frame at or *)
(* above the cursor and not above one that the engine carries is carried.  *)
CoveredInv ==
    \A f \in Stored(segs), g \in Carried : f.off >= acked /\ f.off <= g.off => f \in Carried

(* What is no longer pending was stored by the sink, or given up.          *)
AnsweredInv ==
    /\ exporter.pc \in {"send", "sink"} => Ids(exporter.batch) \ exporter.pending \subseteq delivered
    /\ exporter.pc = "commit" => Ids(exporter.batch) \subseteq delivered \union gave_up

LEMMA CoveredKept ==
  ASSUME Types, FilesInv, HeldInv, CoveredInv, LogKept \/ LogGrown, Carried' = Carried
  PROVE  CoveredInv'
  <1>1. SUFFICES ASSUME NEW f \in Stored(segs'), NEW g \in Carried, f.off >= acked', f.off <= g.off
                 PROVE  f \in Carried
    BY DEF CoveredInv
  <1>2. g.off < Reach(segs) /\ g.off \in Nat /\ Reach(segs) \in Nat
    BY HeldTypes DEF HeldInv
  <1>3. f \in Stored(segs)
    <2>1. SUFFICES ASSUME f \notin Stored(segs) PROVE FALSE
      OBVIOUS
    <2>2. f = Frame(Reach(segs), Head(leader.group))
      BY <1>1, <2>1 DEF LogKept, LogGrown, Trimmed
    <2>3. f.off = Reach(segs)
      BY <2>2 DEF Frame
    <2> QED
      BY <1>1, <1>2, <2>3
  <1>4. f.off \in Nat /\ acked \in Nat /\ acked' \in Nat /\ acked <= acked'
    BY <1>3, HeldTypes DEF LogKept, LogGrown, Types
  <1> QED
    BY <1>1, <1>3, <1>4 DEF CoveredInv

LEMMA CoveredNext ==
  ASSUME Types, FilesInv, ExportInv, HeldInv, CoveredInv, [Next]_vars
  PROVE  CoveredInv'
  <1>1. CASE UNCHANGED vars
    BY <1>1 DEF vars, log, CoveredInv, Carried, PlanFrames, BatchFrames
  <1>2. ASSUME Carried' = {} PROVE CoveredInv'
    BY <1>2 DEF CoveredInv
  <1>3. ASSUME \/ \E n \in 1..MaxGroup, needs_fsync \in BOOLEAN : BeginGroup(n, needs_fsync)
               \/ WriteRecord \/ DropAndWrite \/ RejectRecord \/ WaitForRoom \/ FinishGroup
               \/ SpuriousWakeup \/ TickSnapshot \/ TickStore
               \/ FlushSync \/ FlushSnapshot \/ FlushStore
        PROVE  CoveredInv'
    <2>1. UNCHANGED exporter
      BY <1>3 DEF BeginGroup, WriteRecord, DropAndWrite, RejectRecord, WaitForRoom, FinishGroup,
         SpuriousWakeup, TickSnapshot, TickStore, FlushSync, FlushSnapshot, FlushStore
    <2>2. LogKept \/ LogGrown
      BY <1>3, IdleKeeps, LeaderKeeps, FinishKeeps, SyncKeeps, WriteGrows, DropGrows DEF Idle
    <2>3. Carried' = Carried
      BY <2>1 DEF Carried, PlanFrames, BatchFrames
    <2> QED
      BY <2>2, <2>3, CoveredKept
  <1>4. ASSUME Plan PROVE CoveredInv'
    <2>1. running /\ UNCHANGED <<segs, acked>>
      BY <1>4 DEF Plan, InnerFree, log
    <2>2. PICK plan \in PlanRead(segs, acked, BatchRecords) :
             exporter' = [NoBatch EXCEPT !.pc = "read", !.plan = plan]
      BY <1>4 DEF Plan
    <2>3. exporter'.plan = plan /\ exporter'.batch = <<>>
      BY <2>2 DEF NoBatch
    <2>4. Carried' = {plan[i].frame : i \in 1..Len(plan)}
      <3>1. Len(<<>>) = 0
        OBVIOUS
      <3> QED
        BY <2>3, <3>1 DEF Carried, PlanFrames, BatchFrames
    <2>5. ASSUME NEW f \in Stored(segs), NEW i \in 1..Len(plan),
                 f.off >= acked, f.off <= plan[i].frame.off
          PROVE  f \in Carried'
      <3>1. PICK j \in 1..Len(plan) : plan[j].frame = f
        BY <2>1, <2>5, PlanTypeIs
      <3> QED
        BY <2>4, <3>1
    <2> QED
      BY <2>1, <2>4, <2>5 DEF CoveredInv
  <1>5. ASSUME Read PROVE CoveredInv'
    <2>1. running /\ exporter.pc = "read" /\ UNCHANGED <<segs, acked>>
      BY <1>5 DEF Read, log
    <2>2. exporter' = IF ReadBatch = <<>> THEN NoBatch
                      ELSE [NoBatch EXCEPT !.pc = "send", !.batch = ReadBatch,
                                           !.pending = Ids(ReadBatch)]
      BY <1>5 DEF Read, ReadBatch
    <2>3. exporter'.plan = <<>> /\ exporter'.batch = ReadBatch
      BY <2>2 DEF NoBatch
    <2>4. /\ Carried' = {ReadBatch[i] : i \in 1..Len(ReadBatch)}
          /\ Carried = PlanFrames
      <3>1. Len(<<>>) = 0 /\ exporter.batch = <<>>
        BY <2>1 DEF ExportInv
      <3> QED
        BY <2>3, <3>1 DEF Carried, PlanFrames, BatchFrames
    <2>5. Len(exporter.plan) \in Nat /\ Len(ReadBatch) \in Nat /\ Len(ReadBatch) <= Len(exporter.plan)
      <3>1. Len(exporter.plan) \in Nat
        BY DEF Types, ExporterType
      <3> QED
        BY <3>1, BatchIs
    <2>6. ASSUME NEW f \in Stored(segs), NEW i \in 1..Len(ReadBatch),
                 f.off >= acked, f.off <= ReadBatch[i].off
          PROVE  f \in Carried'
      <3>1. i \in 1..Len(exporter.plan) /\ ReadBatch[i] = exporter.plan[i].frame
        BY <2>5, BatchIs
      <3>2. exporter.plan[i].frame \in Carried
        BY <2>4, <3>1 DEF PlanFrames
      <3>3. f \in PlanFrames
        BY <2>4, <2>6, <3>1, <3>2 DEF CoveredInv
      <3>4. PICK j \in 1..Len(exporter.plan) : f = exporter.plan[j].frame
        BY <3>3 DEF PlanFrames
      <3>5. j <= i
        <4>1. f.off \in Nat /\ exporter.plan[i].frame.off \in Nat
          BY <2>4, <3>2, <3>3, HeldTypes
        <4>2. ~(exporter.plan[i].frame.off < f.off)
          BY <2>6, <3>1, <4>1
        <4>3. ~(i < j)
          BY <3>1, <3>4, <4>2 DEF ExportInv
        <4> QED
          BY <2>5, <4>3
      <3>6. j \in 1..Len(ReadBatch)
        BY <2>5, <3>5
      <3>7. ReadBatch[j] = f
        BY <3>4, <3>6, BatchIs
      <3> QED
        BY <2>4, <3>6, <3>7
    <2> QED
      BY <2>1, <2>4, <2>6 DEF CoveredInv
  <1>6. ASSUME \/ CallSink \/ SendAllAcked \/ SendFailed
               \/ \E failed \in SUBSET exporter.pending : SendPartial(failed)
        PROVE  CoveredInv'
    <2>1. \/ exporter' = [exporter EXCEPT !.pc = "sink"]
          \/ exporter' = [exporter EXCEPT !.pc = "commit"]
          \/ exporter' = [exporter EXCEPT !.pc = "send", !.attempt = NextAttempt]
          \/ \E failed \in SUBSET exporter.pending :
                exporter' = [exporter EXCEPT !.pc = "send", !.pending = failed, !.attempt = NextAttempt]
      BY <1>6 DEF CallSink, SendAllAcked, SendFailed, SendPartial, SentAgain
    <2>2. exporter'.plan = exporter.plan /\ exporter'.batch = exporter.batch
      BY <2>1 DEF Types, ExporterType
    <2>3. Carried' = Carried
      BY <2>2 DEF Carried, PlanFrames, BatchFrames
    <2>4. LogKept
      BY <1>6, IdleKeeps DEF Idle, Answer
    <2> QED
      BY <2>3, <2>4, CoveredKept
  <1>7. ASSUME Commit \/ StopExporter PROVE CoveredInv'
    BY <1>2, <1>7, EmptyExport DEF Commit, StopExporter, NoBatch
  <1>8. ASSUME Kill \/ PowerLoss \/ Forget \/ Close PROVE CoveredInv'
    BY <1>2, <1>8, DownIs, EmptyExport DEF NoBatch
  <1>9. ASSUME Open PROVE CoveredInv'
    <2>1. exporter' = NoBatch
      BY <1>9 DEF Open, Types
    <2> QED
      BY <1>2, <2>1, EmptyExport DEF NoBatch
  <1> QED
    BY <1>1, <1>3, <1>4, <1>5, <1>6, <1>7, <1>8, <1>9, NextActions

LEMMA AnsweredNext ==
  ASSUME Types, AnsweredInv, [Next]_vars
  PROVE  AnsweredInv'
  <1>1. CASE UNCHANGED vars
    BY <1>1 DEF vars, history, AnsweredInv
  <1>2. ASSUME \/ \E n \in 1..MaxGroup, needs_fsync \in BOOLEAN : BeginGroup(n, needs_fsync)
               \/ WriteRecord \/ DropAndWrite \/ RejectRecord \/ WaitForRoom \/ FinishGroup
               \/ SpuriousWakeup \/ TickSnapshot \/ TickStore
               \/ FlushSync \/ FlushSnapshot \/ FlushStore
        PROVE  AnsweredInv'
    <2>1. UNCHANGED <<exporter, delivered, gave_up>>
      BY <1>2 DEF BeginGroup, WriteRecord, DropAndWrite, RejectRecord, WaitForRoom, FinishGroup,
         SpuriousWakeup, TickSnapshot, TickStore, FlushSync, FlushSnapshot, FlushStore, history
    <2> QED
      BY <2>1 DEF AnsweredInv
  <1>3. ASSUME exporter'.pc \in {"poll", "read", "stopped"} PROVE AnsweredInv'
    BY <1>3 DEF AnsweredInv
  <1>4. ASSUME Plan \/ Commit \/ StopExporter PROVE AnsweredInv'
    <2>1. ASSUME Plan PROVE exporter'.pc = "read"
      <3>1. PICK plan \in PlanRead(segs, acked, BatchRecords) :
               exporter' = [NoBatch EXCEPT !.pc = "read", !.plan = plan]
        BY <2>1 DEF Plan
      <3> QED
        BY <3>1 DEF NoBatch
    <2>2. Commit \/ StopExporter => exporter'.pc \in {"poll", "stopped"}
      BY DEF Commit, StopExporter, NoBatch
    <2> QED
      BY <1>3, <1>4, <2>1, <2>2
  <1>5. ASSUME Read PROVE AnsweredInv'
    <2>1. exporter' = IF ReadBatch = <<>> THEN NoBatch
                      ELSE [NoBatch EXCEPT !.pc = "send", !.batch = ReadBatch,
                                           !.pending = Ids(ReadBatch)]
      BY <1>5 DEF Read, ReadBatch
    <2>2. \/ exporter'.pc = "poll"
          \/ exporter'.pc = "send" /\ exporter'.pending = Ids(exporter'.batch)
      BY <2>1 DEF NoBatch
    <2> QED
      BY <1>3, <2>2 DEF AnsweredInv
  <1>6. ASSUME CallSink PROVE AnsweredInv'
    BY <1>6 DEF CallSink, Types, ExporterType, AnsweredInv, history
  <1>7. ASSUME SendAllAcked PROVE AnsweredInv'
    BY <1>7 DEF SendAllAcked, Sending, Deliver, Types, ExporterType, AnsweredInv
  <1>8. ASSUME SendFailed PROVE AnsweredInv'
    BY <1>8 DEF SendFailed, Sending, Types, ExporterType, AnsweredInv
  <1>9. ASSUME NEW failed \in SUBSET exporter.pending, SendPartial(failed) PROVE AnsweredInv'
    BY <1>9 DEF SendPartial, SentAgain, Sending, Deliver, Types, ExporterType, AnsweredInv
  <1>10. ASSUME Kill \/ PowerLoss \/ Forget \/ Close PROVE AnsweredInv'
    BY <1>3, <1>10, DownIs DEF NoBatch
  <1>11. ASSUME Open PROVE AnsweredInv'
    BY <1>3, <1>11 DEF Open, Types, NoBatch
  <1> QED
    BY <1>1, <1>2, <1>4, <1>5, <1>6, <1>7, <1>8, <1>9, <1>10, <1>11, NextActions

(* What was acknowledged to a producer left the BufWriter.                 *)
FlushedInv == \A f \in Stored(segs) : f.id \in accepted => f.off < Flushed(segs)

(* The checkpoint, and what is about to be written to it, are not ahead of *)
(* the cursor, nor of the files.                                           *)
CheckpointInv ==
    /\ running => cp <= acked /\ tick.cp <= acked /\ flusher.cp <= acked
    /\ ~running => cp <= Reach(segs)
    /\ ~Persistent => cp = 0

KeptAt(id, offset) == \E f \in Stored(segs) : f.id = id /\ f.off >= offset

(* What was accepted, or is about to be, is gone or will be exported.      *)
KeptInv ==
    /\ running => \A id \in accepted \union leader.written : id \in Gone \/ KeptAt(id, acked)
    /\ ~running => \A id \in accepted : id \in Gone \/ KeptAt(id, cp)

LEMMA FlushedNext ==
  ASSUME Types, FilesInv, ExportInv, IdsInv, FlushedInv, [Next]_vars
  PROVE  FlushedInv'
  <1>1. CASE UNCHANGED vars
    BY <1>1 DEF vars, log, history, FlushedInv
  <1>2. CASE FinishGroup
    <2>1. /\ LogKept /\ Stored(segs') = Stored(segs)
          /\ leader.written # {} => Flushed(segs') = Reach(segs)
          /\ accepted' = accepted \union leader.written
      BY <1>2, FinishKeeps DEF FinishGroup
    <2>2. Flushed(segs) \in Nat /\ Flushed(segs') \in Nat /\ Flushed(segs) <= Flushed(segs')
      BY <2>1, StoredOffsets DEF LogKept, Trimmed, FilesInv
    <2>3. \A f \in Stored(segs) : f.off \in Nat /\ f.off < Reach(segs)
      BY HeldTypes DEF Held
    <2> QED
      BY <2>1, <2>2, <2>3 DEF FlushedInv
  <1>3. ASSUME Next, ~FinishGroup PROVE FlushedInv'
    <2>1. accepted' \subseteq accepted
      <3>1. CASE \/ \E n \in 1..MaxGroup, needs_fsync \in BOOLEAN : BeginGroup(n, needs_fsync)
                 \/ WriteRecord \/ DropAndWrite \/ RejectRecord \/ WaitForRoom
                 \/ SpuriousWakeup \/ Plan \/ Read \/ CallSink \/ Commit
                 \/ SendAllAcked \/ SendFailed \/ StopExporter \/ TickSnapshot \/ TickStore
                 \/ FlushSync \/ FlushSnapshot \/ FlushStore \/ Open
        BY <3>1 DEF BeginGroup, WriteRecord, DropAndWrite, RejectRecord, WaitForRoom, SpuriousWakeup, Plan,
           Read, CallSink, Commit, SendAllAcked, SendFailed, StopExporter, TickSnapshot, TickStore,
           FlushSync, FlushSnapshot, FlushStore, Open, history
      <3>2. CASE \E failed \in SUBSET exporter.pending : SendPartial(failed)
        BY <3>2 DEF SendPartial
      <3>3. CASE Kill \/ PowerLoss \/ Forget \/ Close
        BY <3>3, DownIs
      <3> QED
        BY <1>3, <3>1, <3>2, <3>3, NextActions
    <2>2. Flushed(segs) \in Nat /\ Reach(segs) \in Nat /\ Flushed(segs) <= Reach(segs)
      BY StoredOffsets DEF FilesInv
    <2>3. \A f \in Stored(segs) : f.off \in Nat
      BY HeldTypes DEF Held
    <2>4. CASE LogKept
      <3>1. Stored(segs') \subseteq Stored(segs) /\ Flushed(segs) <= Flushed(segs') /\ Flushed(segs') \in Nat
        BY <2>4, StoredOffsets DEF LogKept, Trimmed
      <3> QED
        BY <2>1, <2>2, <2>3, <3>1 DEF FlushedInv
    <2>5. CASE LogGrown
      <3>1. /\ Stored(segs') \subseteq Stored(segs) \union {Frame(Reach(segs), Head(leader.group))}
            /\ Flushed(segs) <= Flushed(segs') /\ Flushed(segs') \in Nat /\ leader.group # <<>>
        BY <2>5, StoredOffsets DEF LogGrown
      <3>2. Head(leader.group) \notin accepted
        <4>1. /\ Head(leader.group) = leader.group[1] /\ 1 \in 1..Len(leader.group)
              /\ leader.group[1] \in Nat
          BY <3>1, TailIs DEF Types, LeaderType
        <4>2. accepted \subseteq Seen
          BY DEF Seen
        <4>3. ~(leader.group[1] < leader.group[1])
          BY <4>1
        <4> QED
          BY <4>1, <4>2, <4>3 DEF IdsInv
      <3>3. ASSUME NEW f \in Stored(segs'), f.id \in accepted' PROVE f.off < Flushed(segs')
        <4>1. f.id \in accepted
          BY <2>1, <3>3
        <4>2. f \in Stored(segs)
          BY <3>1, <3>2, <4>1 DEF Frame
        <4> QED
          BY <2>2, <2>3, <3>1, <4>1, <4>2 DEF FlushedInv
      <3> QED
        BY <3>3 DEF FlushedInv
    <2>6. CASE LogLost
      <3>1. /\ FilesOk(segs')
            /\ segs' # <<>> => segs'[Len(segs')].os = Frames(segs', Len(segs'))
        BY <2>6 DEF LogLost
      <3>2. Flushed(segs') = Reach(segs')
        BY <3>1 DEF Flushed, Reach
      <3>3. \A f \in Stored(segs') : f.off < Reach(segs')
        BY <3>1, StoredOffsets
      <3> QED
        BY <3>2, <3>3 DEF FlushedInv
    <2>7. CASE LogOpened
      <3>1. FilesOk(segs') /\ Same(segs, segs') /\ Flushed(segs') = Reach(segs)
        BY <2>7 DEF LogOpened
      <3>2. Reach(segs') = Reach(segs)
        BY <3>1, SameFiles DEF FilesInv, FilesOk
      <3>3. \A f \in Stored(segs') : f.off < Reach(segs')
        BY <3>1, StoredOffsets
      <3> QED
        BY <3>1, <3>2, <3>3 DEF FlushedInv
    <2> QED
      BY <1>3, <2>4, <2>5, <2>6, <2>7, NextLog
  <1> QED
    BY <1>1, <1>2, <1>3

LEMMA CheckpointNext ==
  ASSUME "power" \notin Crashes, Types, FilesInv, ExportInv, CheckpointInv, [Next]_vars
  PROVE  CheckpointInv'
  <1>1. CASE UNCHANGED vars
    BY <1>1 DEF vars, log, CheckpointInv, Persistent
  <1>2. acked \in Nat /\ cp \in Nat /\ tick.cp \in Nat /\ flusher.cp \in Nat
    BY DEF Types, TickType, FlusherType
  <1>3. ASSUME LogKept \/ LogGrown PROVE running /\ running' /\ acked' \in Nat /\ acked <= acked' /\ store_type' = store_type
    BY <1>3 DEF LogKept, LogGrown
  <1>4. ASSUME \/ \E n \in 1..MaxGroup, needs_fsync \in BOOLEAN : BeginGroup(n, needs_fsync)
               \/ WriteRecord \/ DropAndWrite \/ RejectRecord \/ WaitForRoom \/ FinishGroup
               \/ SpuriousWakeup \/ Plan \/ Read \/ CallSink \/ Commit \/ Answer \/ StopExporter
        PROVE  CheckpointInv'
    <2>1. UNCHANGED <<cp, tick, flusher>>
      <3>1. CASE \/ \E n \in 1..MaxGroup, needs_fsync \in BOOLEAN : BeginGroup(n, needs_fsync)
                 \/ WriteRecord \/ DropAndWrite \/ RejectRecord \/ WaitForRoom \/ FinishGroup
                 \/ SpuriousWakeup \/ Plan \/ Read \/ CallSink \/ Commit
                 \/ SendAllAcked \/ SendFailed \/ StopExporter
        BY <3>1 DEF BeginGroup, WriteRecord, DropAndWrite, RejectRecord, WaitForRoom, FinishGroup,
           SpuriousWakeup, Plan, Read, CallSink, Commit, SendAllAcked, SendFailed, StopExporter
      <3>2. CASE \E failed \in SUBSET exporter.pending : SendPartial(failed)
        BY <3>2 DEF SendPartial
      <3> QED
        BY <1>4, <3>1, <3>2 DEF Answer
    <2>2. LogKept \/ LogGrown
      BY <1>4, IdleKeeps, CommitKeeps, LeaderKeeps, FinishKeeps, WriteGrows, DropGrows DEF Idle
    <2> QED
      BY <1>2, <1>3, <2>1, <2>2 DEF CheckpointInv, Persistent
  <1>5. ASSUME TickSnapshot PROVE CheckpointInv'
    <2>1. LogKept /\ acked' = acked
      BY <1>5, SyncKeeps
    <2>2. tick'.cp = acked /\ UNCHANGED <<cp, flusher>>
      BY <1>5 DEF TickSnapshot
    <2> QED
      BY <1>2, <1>3, <2>1, <2>2 DEF CheckpointInv, Persistent
  <1>6. ASSUME FlushSync PROVE CheckpointInv'
    <2>1. LogKept /\ acked' = acked
      BY <1>6, SyncKeeps
    <2>2. flusher'.cp = 0 /\ UNCHANGED <<cp, tick>>
      BY <1>6 DEF FlushSync, NoFlush
    <2> QED
      BY <1>2, <1>3, <2>1, <2>2 DEF CheckpointInv, Persistent
  <1>7. ASSUME FlushSnapshot PROVE CheckpointInv'
    <2>1. LogKept /\ acked' = acked
      BY <1>7, IdleKeeps DEF Idle
    <2>2. flusher'.cp = acked /\ UNCHANGED <<cp, tick>>
      BY <1>7 DEF FlushSnapshot, Types, FlusherType
    <2> QED
      BY <1>2, <1>3, <2>1, <2>2 DEF CheckpointInv, Persistent
  <1>8. ASSUME TickStore PROVE CheckpointInv'
    <2>1. LogKept /\ acked' = acked
      BY <1>8, IdleKeeps DEF Idle
    <2>2. tick'.cp = 0 /\ UNCHANGED flusher /\ cp' = IF Persistent THEN tick.cp ELSE cp
      BY <1>8 DEF TickStore, NoTick
    <2> QED
      BY <1>2, <1>3, <2>1, <2>2 DEF CheckpointInv, Persistent
  <1>9. ASSUME FlushStore PROVE CheckpointInv'
    <2>1. LogKept /\ acked' = acked
      BY <1>9, IdleKeeps DEF Idle
    <2>2. flusher'.cp = 0 /\ UNCHANGED tick /\ cp' = IF Persistent THEN flusher.cp ELSE cp
      BY <1>9 DEF FlushStore, NoFlush
    <2> QED
      BY <1>2, <1>3, <2>1, <2>2 DEF CheckpointInv, Persistent
  <1>10. ASSUME Kill \/ Forget \/ Close PROVE CheckpointInv'
    <2>1. running /\ ~running' /\ store_type' = store_type /\ acked' = acked
      BY <1>10, DownIs
    <2>2. LogLost
      BY <1>10, DownLoses
    <2>3. Reach(segs') \in Nat /\ Reach(segs) \in Nat /\ Flushed(segs) \in Nat /\ Flushed(segs) <= Reach(segs)
      BY <2>2, StoredOffsets DEF LogLost, FilesInv
    <2>4. cp <= acked /\ acked <= Flushed(segs)
      BY <2>1 DEF CheckpointInv, FilesInv
    <2>5. CASE Kill
      <3>1. Flushed(segs) <= Reach(segs') /\ cp' = cp /\ Persistent
        BY <2>5, DownLoses DEF Kill
      <3> QED
        BY <1>2, <2>1, <2>3, <2>4, <3>1 DEF CheckpointInv, Persistent
    <2>6. CASE Close
      <3>1. Reach(segs') = Reach(segs) /\ cp' = acked /\ Persistent
        BY <2>6, DownLoses DEF Close
      <3> QED
        BY <1>2, <2>1, <2>3, <2>4, <3>1 DEF CheckpointInv, Persistent
    <2>7. CASE Forget
      <3>1. ~Persistent /\ cp' = cp
        BY <2>7 DEF Forget
      <3> QED
        BY <2>1, <2>3, <3>1 DEF CheckpointInv, Persistent
    <2> QED
      BY <1>10, <2>5, <2>6, <2>7
  <1>11. ~PowerLoss
    BY DEF PowerLoss
  <1>12. ASSUME Open PROVE CheckpointInv'
    <2>1. LogOpened
      BY <1>12, OpenOpens
    <2>2. /\ ~running /\ running' /\ store_type' = store_type
          /\ UNCHANGED <<cp, tick, flusher>> /\ tick = NoTick /\ flusher = NoFlush
      BY <1>12 DEF Open, Types
    <2>3. acked' = cp /\ tick.cp = 0 /\ flusher.cp = 0
      BY <2>1, <2>2 DEF LogOpened, CheckpointInv, NoTick, NoFlush
    <2> QED
      BY <1>2, <2>2, <2>3 DEF CheckpointInv, Persistent
  <1> QED
    BY <1>1, <1>4, <1>5, <1>6, <1>7, <1>8, <1>9, <1>10, <1>11, <1>12, NextActions DEF Answer

(* What was acknowledged to a producer, or is about to be. *)
Owed == accepted \union leader.written

LEMMA OwedNext ==
  ASSUME Types, FilesInv, ExportInv, Next
  PROVE  /\ Gone \subseteq Gone'
         /\ ~(WriteRecord \/ DropAndWrite) => Owed' \subseteq Owed
         /\ WriteRecord \/ DropAndWrite => Owed' = Owed \union {Head(leader.group)}
  <1>1. CASE WriteRecord \/ DropAndWrite
    <2>1. LogGrown
      BY <1>1, WriteGrows, DropGrows
    <2>2. UNCHANGED <<accepted, delivered, gave_up>>
      BY <1>1 DEF WriteRecord, DropAndWrite, history
    <2>3. /\ leader'.written = leader.written \union {Head(leader.group)}
          /\ discarded \subseteq discarded'
      BY <2>1 DEF LogGrown, Types, LeaderType
    <2> QED
      BY <1>1, <2>2, <2>3 DEF Owed, Gone
  <1>2. CASE ~(WriteRecord \/ DropAndWrite)
    <2>1. SUFFICES Gone \subseteq Gone' /\ Owed' \subseteq Owed
      BY <1>2
    <2>2. CASE \E n \in 1..MaxGroup, needs_fsync \in BOOLEAN : BeginGroup(n, needs_fsync)
      <3>1. UNCHANGED <<accepted, delivered, discarded, gave_up>> /\ leader'.written = {}
        BY <2>2 DEF BeginGroup, history
      <3> QED
        BY <3>1 DEF Owed, Gone
    <2>3. CASE RejectRecord \/ WaitForRoom \/ SpuriousWakeup \/ Commit
      <3>1. UNCHANGED <<accepted, delivered, discarded, gave_up>>
        BY <2>3 DEF RejectRecord, WaitForRoom, SpuriousWakeup, Commit, history
      <3>2. leader'.written = leader.written
        BY <2>3 DEF RejectRecord, WaitForRoom, SpuriousWakeup, Commit, Woken, Types, LeaderType
      <3> QED
        BY <3>1, <3>2 DEF Owed, Gone
    <2>4. CASE FinishGroup
      <3>1. /\ UNCHANGED <<delivered, discarded, gave_up>>
            /\ accepted' = accepted \union leader.written
            /\ leader'.written = {}
        BY <2>4 DEF FinishGroup, NoGroup
      <3> QED
        BY <3>1 DEF Owed, Gone
    <2>5. CASE Plan \/ Read \/ CallSink \/ StopExporter \/ TickSnapshot \/ TickStore
               \/ FlushSync \/ FlushSnapshot \/ FlushStore \/ Open
      <3>1. UNCHANGED <<accepted, delivered, discarded, gave_up, leader>>
        BY <2>5 DEF Plan, Read, CallSink, StopExporter, TickSnapshot, TickStore, FlushSync,
           FlushSnapshot, FlushStore, Open, history
      <3> QED
        BY <3>1 DEF Owed, Gone
    <2>6. CASE SendAllAcked \/ SendFailed
      <3>1. /\ UNCHANGED <<accepted, discarded, leader>>
            /\ delivered \subseteq delivered' /\ gave_up \subseteq gave_up'
        BY <2>6 DEF SendAllAcked, SendFailed, Deliver
      <3> QED
        BY <3>1 DEF Owed, Gone
    <2>7. ASSUME NEW failed \in SUBSET exporter.pending, SendPartial(failed)
          PROVE  Gone \subseteq Gone' /\ Owed' \subseteq Owed
      BY <2>7 DEF SendPartial, Deliver, Owed, Gone
    <2>8. CASE Kill \/ PowerLoss \/ Forget \/ Close
      <3>1. /\ UNCHANGED <<delivered, discarded, gave_up>>
            /\ accepted' \subseteq accepted /\ leader'.written = {}
        BY <2>8, DownIs DEF NoGroup
      <3> QED
        BY <3>1 DEF Owed, Gone
    <2> QED
      BY <1>2, <2>2, <2>3, <2>4, <2>5, <2>6, <2>7, <2>8, NextActions
  <1> QED
    BY <1>1, <1>2

(* A commit moves the cursor past frames that the engine has answered for. *)
LEMMA CommitAnswered ==
  ASSUME Types, FilesInv, ExportInv, HeldInv, CoveredInv, AnsweredInv, Commit,
         NEW f \in Stored(segs), f.off >= acked
  PROVE  f.off >= acked' \/ f.id \in Gone
  <1>1. PICK g \in BatchFrames : acked' = acked \/ acked' = g.off + 1
    BY CommitKeeps
  <1>2. SUFFICES ASSUME ~(f.off >= acked') PROVE f.id \in Gone
    OBVIOUS
  <1>3. f.off \in Nat /\ g.off \in Nat /\ acked \in Nat /\ g \in Carried
    BY HeldTypes DEF Types
  <1>4. f.off <= g.off
    BY <1>1, <1>2, <1>3
  <1>5. f \in Carried
    BY <1>3, <1>4 DEF CoveredInv
  <1>6. exporter.pc = "commit"
    BY DEF Commit
  <1>7. f \in BatchFrames
    <2>1. exporter.plan = <<>> /\ Len(<<>>) = 0
      BY <1>6 DEF ExportInv
    <2> QED
      BY <1>5, <2>1 DEF Carried, PlanFrames
  <1>8. f.id \in Ids(exporter.batch)
    BY <1>7, IdsAre DEF Types, ExporterType, BatchFrames
  <1> QED
    BY <1>6, <1>8 DEF AnsweredInv, Gone

LEMMA KeptNext ==
  ASSUME "power" \notin Crashes, Types, FilesInv, ExportInv, HeldInv, CoveredInv,
         AnsweredInv, FlushedInv, CheckpointInv, KeptInv, [Next]_vars
  PROVE  KeptInv'
  <1> USE DEF Owed
  <1>1. CASE UNCHANGED vars
    BY <1>1 DEF vars, log, history, KeptInv, KeptAt, Gone
  <1>2. CASE Next
    <2>1. Gone \subseteq Gone'
      BY <1>2, OwedNext
    <2>2. \A f \in Stored(segs) : f.off \in Nat /\ f.off < Reach(segs)
      BY HeldTypes
    <2>3. acked \in Nat /\ cp \in Nat /\ Reach(segs) \in Nat
      BY HeldTypes DEF Types
    <2>4. CASE LogKept
      <3>1. /\ running /\ running' /\ acked' \in Nat
            /\ \A f \in Stored(segs) : f \in Stored(segs') \/ f.off < acked
        BY <2>4 DEF LogKept
      <3>2. Owed' \subseteq Owed
        <4>1. CASE WriteRecord \/ DropAndWrite
          <5>1. LogGrown /\ LogKept
            BY <2>4, <4>1, WriteGrows, DropGrows
          <5>2. Reach(segs') = Reach(segs) + 1 /\ Reach(segs') = Reach(segs)
            BY <5>1 DEF LogGrown, LogKept, Trimmed
          <5> QED
            BY <2>3, <5>2
        <4> QED
          BY <1>2, <4>1, OwedNext
      <3>3. ASSUME NEW f \in Stored(segs), f.off >= acked
            PROVE  f.id \in Gone \/ f.off >= acked'
        <4>1. CASE Commit
          BY <3>3, <4>1, CommitAnswered
        <4>2. CASE ~Commit
          <5>1. acked' = acked
            <6>1. CASE Idle
              BY <6>1, IdleKeeps
            <6>2. CASE RejectRecord \/ WaitForRoom
              BY <6>2, LeaderKeeps
            <6>3. CASE FinishGroup
              BY <6>3, FinishKeeps
            <6>4. CASE TickSnapshot \/ FlushSync
              BY <6>4, SyncKeeps
            <6>5. CASE WriteRecord \/ DropAndWrite
              <7>1. LogGrown /\ LogKept
                BY <2>4, <6>5, WriteGrows, DropGrows
              <7>2. Reach(segs') = Reach(segs) + 1 /\ Reach(segs') = Reach(segs)
                BY <7>1 DEF LogGrown, LogKept, Trimmed
              <7> QED
                BY <2>3, <7>2
            <6>6. CASE Kill \/ PowerLoss \/ Forget \/ Close
              BY <3>1, <6>6, DownIs
            <6>7. CASE Open
              BY <3>1, <6>7 DEF Open
            <6> QED
              BY <1>2, <4>2, <6>1, <6>2, <6>3, <6>4, <6>5, <6>6, <6>7, NextActions DEF Idle, Answer
          <5> QED
            BY <3>3, <5>1
        <4> QED
          BY <4>1, <4>2
      <3>4. ASSUME NEW id \in Owed' PROVE id \in Gone' \/ KeptAt(id, acked)'
        <4>1. id \in Gone \/ KeptAt(id, acked)
          BY <3>1, <3>2, <3>4 DEF KeptInv
        <4>2. CASE id \in Gone
          BY <2>1, <4>2
        <4>3. CASE KeptAt(id, acked) /\ id \notin Gone
          <5>1. PICK f \in Stored(segs) : f.id = id /\ f.off >= acked
            BY <4>3 DEF KeptAt
          <5>2. f \in Stored(segs')
            BY <2>2, <2>3, <3>1, <5>1
          <5>3. f.off >= acked'
            BY <3>3, <4>3, <5>1
          <5> QED
            BY <5>1, <5>2, <5>3 DEF KeptAt
        <4> QED
          BY <4>1, <4>2, <4>3
      <3> QED
        BY <3>1, <3>4 DEF KeptInv
    <2>5. CASE (WriteRecord \/ DropAndWrite) /\ LogGrown
      <3> DEFINE new == Frame(Reach(segs), Head(leader.group))
      <3>1. /\ running /\ running' /\ acked' \in Nat /\ acked' <= Reach(segs)
            /\ new \in Stored(segs')
            /\ \A f \in Stored(segs) : \/ f.off < acked
                                       \/ f.id \in discarded'
                                       \/ f \in Stored(segs') /\ f.off >= acked'
        BY <2>5 DEF LogGrown
      <3>2. Owed' = Owed \union {Head(leader.group)}
        BY <1>2, <2>5, OwedNext
      <3>3. new.id = Head(leader.group) /\ new.off = Reach(segs)
        BY DEF Frame
      <3> HIDE DEF new
      <3>4. ASSUME NEW id \in Owed' PROVE id \in Gone' \/ KeptAt(id, acked)'
        <4>1. CASE id = Head(leader.group)
          BY <2>3, <3>1, <3>3, <4>1 DEF KeptAt
        <4>2. CASE id \in Owed /\ id \in Gone
          BY <2>1, <4>2
        <4>3. CASE id \in Owed /\ id \notin Gone
          <5>1. KeptAt(id, acked)
            BY <3>1, <4>3 DEF KeptInv
          <5>2. PICK f \in Stored(segs) : f.id = id /\ f.off >= acked
            BY <5>1 DEF KeptAt
          <5>3. f.id \in discarded' \/ (f \in Stored(segs') /\ f.off >= acked')
            BY <2>2, <2>3, <3>1, <5>2
          <5> QED
            BY <5>2, <5>3 DEF KeptAt, Gone
        <4> QED
          BY <3>2, <3>4, <4>1, <4>2, <4>3
      <3> QED
        BY <3>1, <3>4 DEF KeptInv
    <2>6. CASE Kill \/ PowerLoss \/ Forget \/ Close
      <3>1. running /\ ~running' /\ accepted' \subseteq accepted /\ acked' = acked
        BY <2>6, DownIs
      <3>2. ~PowerLoss
        BY DEF PowerLoss
      <3>3. CASE Forget
        <4>1. accepted' = {}
          BY <3>3 DEF Forget
        <4> QED
          BY <3>1, <4>1 DEF KeptInv
      <3>4. ASSUME cp' \in Nat, cp' <= acked,
                   \A f \in Stored(segs) : f.id \in accepted => f \in Stored(segs')
            PROVE  KeptInv'
        <4>1. SUFFICES ASSUME NEW id \in accepted' PROVE id \in Gone' \/ KeptAt(id, cp)'
          BY <3>1 DEF KeptInv
        <4>2. id \in Gone \/ KeptAt(id, acked)
          BY <3>1, <4>1 DEF KeptInv
        <4>3. CASE KeptAt(id, acked)
          <5>1. PICK f \in Stored(segs) : f.id = id /\ f.off >= acked
            BY <4>3 DEF KeptAt
          <5>2. f \in Stored(segs') /\ f.off >= cp'
            BY <2>2, <2>3, <3>1, <3>4, <4>1, <5>1
          <5> QED
            BY <5>1, <5>2 DEF KeptAt
        <4> QED
          BY <2>1, <4>2, <4>3
      <3>5. CASE Kill
        <4>1. cp' = cp /\ cp <= acked
          BY <3>1, <3>5 DEF Kill, CheckpointInv
        <4>2. \A f \in Stored(segs) : f.id \in accepted => f \in Stored(segs')
          BY <2>6, <3>5, DownLoses DEF FlushedInv
        <4> QED
          BY <2>3, <3>4, <4>1, <4>2
      <3>6. CASE Close
        <4>1. cp' = acked /\ Stored(segs') = Stored(segs)
          BY <2>6, <3>6, DownLoses DEF Close
        <4> QED
          BY <2>3, <3>4, <4>1
      <3> QED
        BY <2>6, <3>2, <3>3, <3>5, <3>6
    <2>7. CASE Open /\ LogOpened
      <3>1. /\ ~running /\ running' /\ acked' \in Nat /\ acked' <= cp /\ Same(segs, segs')
            /\ FilesOk(segs')
        BY <2>7 DEF LogOpened
      <3>2. Stored(segs') = Stored(segs)
        BY <3>1, SameFiles DEF FilesInv, FilesOk
      <3>3. Owed' = accepted
        BY <2>7, <3>1 DEF Open, Types, NoGroup
      <3>4. ASSUME NEW id \in accepted PROVE id \in Gone' \/ KeptAt(id, acked)'
        <4>1. id \in Gone \/ KeptAt(id, cp)
          BY <3>1 DEF KeptInv
        <4>2. CASE KeptAt(id, cp)
          <5>1. PICK f \in Stored(segs) : f.id = id /\ f.off >= cp
            BY <4>2 DEF KeptAt
          <5>2. f \in Stored(segs') /\ f.off >= acked'
            BY <2>2, <2>3, <3>1, <3>2, <5>1
          <5> QED
            BY <5>1, <5>2 DEF KeptAt
        <4> QED
          BY <2>1, <4>1, <4>2
      <3> QED
        BY <3>1, <3>3, <3>4 DEF KeptInv
    <2> QED
      BY <1>2, <2>4, <2>5, <2>6, <2>7, NextLog
  <1> QED
    BY <1>1, <1>2

LossInv == CoveredInv /\ AnsweredInv /\ FlushedInv /\ CheckpointInv /\ KeptInv

LEMMA LossCorrect ==
  ASSUME "power" \notin Crashes
  PROVE  Spec => [](IInv /\ LossInv)
  <1>1. Init => LossInv
    <2> SUFFICES ASSUME Init PROVE LossInv
      OBVIOUS
    <2>1. Len(<<>>) = 0
      OBVIOUS
    <2>2. Stored(segs) = {} /\ Carried = {}
      BY <2>1 DEF Init, Stored, Carried, PlanFrames, BatchFrames, NoBatch
    <2>3. Reach(segs) = 0
      BY DEF Init, Reach
    <2>4. CoveredInv /\ FlushedInv
      BY <2>2 DEF CoveredInv, FlushedInv
    <2>5. AnsweredInv
      BY DEF Init, NoBatch, AnsweredInv
    <2>6. CheckpointInv
      BY DEF Init, NoTick, NoFlush, CheckpointInv
    <2>7. KeptInv
      BY DEF Init, NoGroup, KeptInv
    <2> QED
      BY <2>4, <2>5, <2>6, <2>7 DEF LossInv
  <1>2. IInv /\ LossInv /\ [Next]_vars => LossInv'
    BY CoveredNext, AnsweredNext, FlushedNext, CheckpointNext, KeptNext DEF IInv, LossInv
  <1> QED
    BY <1>1, <1>2, IInvCorrect, PTL DEF Spec

(* A record whose append returned Ok is stored by the sink, dropped by     *)
(* dropOldest, given up by the engine, or in a file from which this        *)
(* process or the next one exports it, after any kill or clean shutdown.   *)
THEOREM NoLossCorrect ==
  ASSUME "power" \notin Crashes
  PROVE  Spec => []NoLoss
  <1>1. IInv /\ LossInv => NoLoss
    <2> SUFFICES ASSUME IInv, LossInv PROVE NoLoss
      OBVIOUS
    <2>1. Types /\ FilesInv /\ KeptInv
      BY DEF IInv, LossInv
    <2>2. \A f \in Stored(segs) : f.off \in Nat
      BY <2>1, HeldTypes
    <2>3. CASE running
      <3>1. Cursor = acked
        BY <2>3 DEF Cursor
      <3> QED
        BY <2>1, <2>3, <3>1 DEF NoLoss, KeptInv, KeptAt, Due
    <2>4. CASE ~running
      <3>1. Cursor \in Nat /\ Cursor <= cp /\ cp \in Nat
        <4> DEFINE A == {cp, NextOffset(Recover(segs))}
        <4>1. FilesOk(segs) /\ (segs = <<>> \/ segs[Len(segs)].os = Frames(segs, Len(segs)))
          BY <2>1, <2>4 DEF FilesInv
        <4>2. NextOffset(Recover(segs)) = Reach(segs) /\ Reach(segs) \in Nat
          BY <4>1, RecoverIs, StoredOffsets
        <4>3. A \in SUBSET Nat /\ A # {} /\ cp \in A /\ cp \in Nat
          BY <2>1, <4>2 DEF Types
        <4>4. Cursor = Min(A)
          BY <2>4 DEF Cursor
        <4> HIDE DEF A
        <4> QED
          BY <4>3, <4>4, MinIs
      <3>2. ASSUME NEW id \in accepted PROVE id \in Gone \/ Due(id)
        <4>1. id \in Gone \/ KeptAt(id, cp)
          BY <2>1, <2>4 DEF KeptInv
        <4>2. CASE KeptAt(id, cp)
          <5>1. PICK f \in Stored(segs) : f.id = id /\ f.off >= cp
            BY <4>2 DEF KeptAt
          <5> QED
            BY <2>2, <3>1, <5>1 DEF Due
        <4> QED
          BY <4>1, <4>2
      <3> QED
        BY <3>2 DEF NoLoss
    <2> QED
      BY <2>3, <2>4
  <1> QED
    BY <1>1, LossCorrect, PTL

-----------------------------------------------------------------------------
(* Order, for a sink that stores a batch whole or not at all. *)

OrderInv ==
    /\ \A a \in delivered, b \in Owed : b < a => b \in Gone
    /\ exporter.pc \in {"send", "sink"} => exporter.pending = Ids(exporter.batch)

LEMMA PendingNext ==
  ASSUME "partial" \notin Outcomes, Types, OrderInv, [Next]_vars
  PROVE  exporter'.pc \in {"send", "sink"} => exporter'.pending = Ids(exporter'.batch)
  <1>1. CASE UNCHANGED vars
    BY <1>1 DEF vars, OrderInv
  <1>2. CASE \/ \E n \in 1..MaxGroup, needs_fsync \in BOOLEAN : BeginGroup(n, needs_fsync)
             \/ WriteRecord \/ DropAndWrite \/ RejectRecord \/ WaitForRoom \/ FinishGroup
             \/ SpuriousWakeup \/ TickSnapshot \/ TickStore
             \/ FlushSync \/ FlushSnapshot \/ FlushStore \/ Open
    <2>1. UNCHANGED exporter
      BY <1>2 DEF BeginGroup, WriteRecord, DropAndWrite, RejectRecord, WaitForRoom, FinishGroup,
         SpuriousWakeup, TickSnapshot, TickStore, FlushSync, FlushSnapshot, FlushStore, Open
    <2> QED
      BY <2>1 DEF OrderInv
  <1>3. CASE Plan
    <2>1. PICK plan \in PlanRead(segs, acked, BatchRecords) :
             exporter' = [NoBatch EXCEPT !.pc = "read", !.plan = plan]
      BY <1>3 DEF Plan
    <2> QED
      BY <2>1 DEF NoBatch
  <1>4. CASE Commit \/ StopExporter
    BY <1>4 DEF Commit, StopExporter, NoBatch
  <1>5. CASE Read
    <2>1. exporter' = IF ReadBatch = <<>> THEN NoBatch
                      ELSE [NoBatch EXCEPT !.pc = "send", !.batch = ReadBatch,
                                           !.pending = Ids(ReadBatch)]
      BY <1>5 DEF Read, ReadBatch
    <2> QED
      BY <2>1 DEF NoBatch
  <1>6. CASE CallSink \/ SendAllAcked \/ SendFailed
    <2>1. /\ exporter.pc \in {"send", "sink"}
          /\ \/ exporter' = [exporter EXCEPT !.pc = "sink"]
             \/ exporter' = [exporter EXCEPT !.pc = "commit"]
             \/ exporter' = [exporter EXCEPT !.pc = "send", !.attempt = NextAttempt]
      BY <1>6 DEF CallSink, SendAllAcked, SendFailed, Sending
    <2> QED
      BY <2>1 DEF Types, ExporterType, OrderInv
  <1>7. ASSUME NEW failed \in SUBSET exporter.pending, SendPartial(failed) PROVE FALSE
    BY <1>7 DEF SendPartial
  <1>8. CASE Kill \/ PowerLoss \/ Forget \/ Close
    BY <1>8, DownIs DEF NoBatch
  <1> QED
    BY <1>1, <1>2, <1>3, <1>4, <1>5, <1>6, <1>7, <1>8, NextActions

(* Only an answer of the sink delivers. *)
LEMMA DeliveredNext ==
  ASSUME "partial" \notin Outcomes, Next, ~SendAllAcked
  PROVE  delivered' = delivered
  <1>1. CASE \/ \E n \in 1..MaxGroup, needs_fsync \in BOOLEAN : BeginGroup(n, needs_fsync)
             \/ WriteRecord \/ DropAndWrite \/ RejectRecord \/ WaitForRoom \/ FinishGroup
             \/ SpuriousWakeup \/ TickSnapshot \/ TickStore
             \/ FlushSync \/ FlushSnapshot \/ FlushStore \/ Open
             \/ Plan \/ Read \/ CallSink \/ Commit \/ SendFailed \/ StopExporter
    BY <1>1 DEF BeginGroup, WriteRecord, DropAndWrite, RejectRecord, WaitForRoom, FinishGroup,
       SpuriousWakeup, TickSnapshot, TickStore, FlushSync, FlushSnapshot, FlushStore, Open,
       Plan, Read, CallSink, Commit, SendFailed, StopExporter, history
  <1>2. ASSUME NEW failed \in SUBSET exporter.pending, SendPartial(failed) PROVE FALSE
    BY <1>2 DEF SendPartial
  <1>3. CASE Kill \/ PowerLoss \/ Forget \/ Close
    BY <1>3, DownIs
  <1> QED
    BY <1>1, <1>2, <1>3, NextActions

LEMMA OrderNext ==
  ASSUME "partial" \notin Outcomes, IInv, LossInv, OrderInv, [Next]_vars
  PROVE  OrderInv'
  <1> USE DEF IInv, LossInv
  <1>1. CASE UNCHANGED vars
    BY <1>1 DEF vars, history, OrderInv, Owed, Gone
  <1>2. CASE Next /\ ~SendAllAcked
    <2>1. delivered' = delivered
      BY <1>2, DeliveredNext
    <2>2. Gone \subseteq Gone' /\ (~(WriteRecord \/ DropAndWrite) => Owed' \subseteq Owed)
      BY <1>2, OwedNext
    <2>3. ASSUME WriteRecord \/ DropAndWrite, NEW a \in delivered, NEW b \in Owed', b < a
          PROVE  b \in Owed
      <3>1. Owed' = Owed \union {Head(leader.group)} /\ LogGrown
        BY <1>2, <2>3, OwedNext, WriteGrows, DropGrows
      <3>2. /\ Head(leader.group) = leader.group[1] /\ 1 \in 1..Len(leader.group)
            /\ leader.group[1] \in Nat
        BY <3>1, TailIs DEF LogGrown, Types, LeaderType
      <3>3. a \in Seen
        BY <2>3 DEF Seen
      <3>4. a \in Nat /\ next_id \in Nat
        BY <3>3 DEF IdsInv, Types
      <3>5. a < Head(leader.group)
        BY <3>2, <3>3 DEF IdsInv
      <3> QED
        BY <2>3, <3>1, <3>2, <3>4, <3>5
    <2>4. \A a \in delivered', b \in Owed' : b < a => b \in Gone'
      BY <2>1, <2>2, <2>3 DEF OrderInv
    <2> QED
      BY <1>2, <2>4, PendingNext DEF OrderInv
  <1>3. CASE SendAllAcked
    <2>1. /\ running /\ exporter.pc = "sink"
          /\ UNCHANGED <<segs, acked, accepted, leader, discarded, gave_up>>
          /\ delivered' = delivered \union exporter.pending
      BY <1>3 DEF SendAllAcked, Sending, Deliver, log
    <2>2. exporter.pending = Ids(exporter.batch)
      BY <2>1 DEF OrderInv
    <2>3. ASSUME NEW a \in exporter.pending, NEW b \in Owed, b < a
          PROVE  b \in Gone \/ b \in exporter.pending
      <3>1. CASE KeptAt(b, acked)
        <4>1. PICK f \in Stored(segs) : f.id = b /\ f.off >= acked
          BY <3>1 DEF KeptAt
        <4>2. Ids(exporter.batch) = {x.id : x \in BatchFrames}
          BY IdsAre DEF Types, ExporterType, BatchFrames
        <4>3. PICK g \in BatchFrames : g.id = a
          BY <2>2, <4>2
        <4>4. f \in Held /\ g \in Held /\ g \in Carried /\ f.id \in Nat /\ g.id \in Nat
          BY HeldTypes
        <4>5. f.off <= g.off
          BY <2>3, <4>1, <4>3, <4>4, OneFrame
        <4>6. f \in Carried
          BY <4>1, <4>4, <4>5 DEF CoveredInv
        <4>7. PlanFrames = {}
          <5>1. exporter.plan = <<>> /\ Len(<<>>) = 0
            BY <2>1 DEF ExportInv
          <5> QED
            BY <5>1 DEF PlanFrames
        <4>8. f \in BatchFrames
          BY <4>6, <4>7 DEF Carried
        <4> QED
          BY <2>2, <4>1, <4>2, <4>8
      <3> QED
        BY <2>1, <3>1 DEF KeptInv, Owed
    <2>4. Owed' = Owed /\ Gone' = Gone \union exporter.pending
      BY <2>1 DEF Owed, Gone
    <2>5. \A a \in delivered', b \in Owed' : b < a => b \in Gone'
      BY <2>1, <2>3, <2>4 DEF OrderInv
    <2>6. Next
      BY <1>3 DEF Next, Answer
    <2> QED
      BY <2>5, <2>6, PendingNext DEF OrderInv
  <1> QED
    BY <1>1, <1>2, <1>3

(* The sink never stores a record before one that was appended earlier,    *)
(* unless that one was dropped or given up, if it stores batches whole and *)
(* the power stays on.                                                     *)
THEOREM OrderPreservedCorrect ==
  ASSUME "power" \notin Crashes, "partial" \notin Outcomes
  PROVE  Spec => []OrderPreserved
  <1>1. Init => OrderInv
    BY DEF Init, NoBatch, OrderInv
  <1>2. IInv /\ LossInv /\ OrderInv /\ [Next]_vars => OrderInv'
    BY OrderNext
  <1>3. OrderInv => OrderPreserved
    BY DEF OrderInv, OrderPreserved, Owed
  <1> QED
    BY <1>1, <1>2, <1>3, LossCorrect, PTL DEF Spec

-----------------------------------------------------------------------------
(* The checkpoint never goes back, as long as nobody calls flush. *)

MonotoneInv ==
    /\ flushes \in Nat
    /\ flusher.pc = "none"
    /\ tick.pc = "store" => tick.cp >= cp

LEMMA FlushesNat ==
  ASSUME flushes \in Nat, [Next]_vars
  PROVE  flushes' \in Nat
  <1>1. CASE UNCHANGED vars
    BY <1>1 DEF vars, bounds
  <1>2. CASE \/ \E n \in 1..MaxGroup, needs_fsync \in BOOLEAN : BeginGroup(n, needs_fsync)
             \/ WriteRecord \/ DropAndWrite \/ RejectRecord \/ WaitForRoom \/ FinishGroup
             \/ SpuriousWakeup \/ Plan \/ Read \/ CallSink \/ Commit \/ Open
             \/ SendAllAcked \/ SendFailed \/ StopExporter \/ TickSnapshot \/ TickStore
             \/ FlushSnapshot \/ FlushStore
    BY <1>2 DEF BeginGroup, WriteRecord, DropAndWrite, RejectRecord, WaitForRoom, FinishGroup, SpuriousWakeup,
       Plan, Read, CallSink, Commit, Open, SendAllAcked, SendFailed, StopExporter, TickSnapshot, TickStore,
       FlushSnapshot, FlushStore, bounds
  <1>5. FlushSync => flushes' = flushes + 1
    BY DEF FlushSync
  <1>3. ASSUME NEW failed \in SUBSET exporter.pending, SendPartial(failed) PROVE flushes' \in Nat
    BY <1>3 DEF SendPartial, bounds
  <1>4. CASE Kill \/ PowerLoss \/ Forget \/ Close
    BY <1>4, DownIs
  <1> QED
    BY <1>1, <1>2, <1>3, <1>4, <1>5, NextActions

LEMMA MonotoneNext ==
  ASSUME MaxFlushes = 0, Types, CheckpointInv, MonotoneInv, [Next]_vars
  PROVE  MonotoneInv' /\ cp' >= cp
  <1>1. cp \in Nat /\ acked \in Nat /\ tick.cp \in Nat
    BY DEF Types, TickType
  <1> flushes' \in Nat
    BY FlushesNat DEF MonotoneInv
  <1>2. CASE UNCHANGED <<cp, tick, flusher>>
    BY <1>1, <1>2 DEF MonotoneInv
  <1>3. CASE \/ \E n \in 1..MaxGroup, needs_fsync \in BOOLEAN : BeginGroup(n, needs_fsync)
             \/ WriteRecord \/ DropAndWrite \/ RejectRecord \/ WaitForRoom \/ FinishGroup
             \/ SpuriousWakeup \/ Plan \/ Read \/ CallSink \/ Commit
             \/ SendAllAcked \/ SendFailed \/ StopExporter \/ Open
    BY <1>2, <1>3 DEF BeginGroup, WriteRecord, DropAndWrite, RejectRecord, WaitForRoom, FinishGroup,
       SpuriousWakeup, Plan, Read, CallSink, Commit, SendAllAcked, SendFailed, StopExporter, Open
  <1>4. ASSUME NEW failed \in SUBSET exporter.pending, SendPartial(failed)
        PROVE  UNCHANGED <<cp, tick, flusher>>
    BY <1>4 DEF SendPartial
  <1>5. CASE TickSnapshot
    <2>1. running /\ tick' = [pc |-> "store", cp |-> acked] /\ UNCHANGED <<cp, flusher>>
      BY <1>5 DEF TickSnapshot, InnerFree
    <2> QED
      BY <1>1, <2>1 DEF MonotoneInv, CheckpointInv
  <1>6. CASE TickStore
    BY <1>1, <1>6 DEF TickStore, NoTick, MonotoneInv
  <1>7. ~FlushSync /\ ~FlushSnapshot /\ ~FlushStore
    BY DEF FlushSync, FlushSnapshot, FlushStore, MonotoneInv
  <1>8. CASE Kill \/ PowerLoss \/ Forget \/ Close
    <2>1. running /\ tick' = NoTick /\ flusher' = NoFlush
      BY <1>8, DownIs
    <2>2. cp' = cp \/ cp' = acked
      BY <1>8 DEF Kill, PowerLoss, Forget, Close
    <2> QED
      BY <1>1, <2>1, <2>2 DEF NoTick, NoFlush, MonotoneInv, CheckpointInv
  <1>9. CASE UNCHANGED vars
    BY <1>2, <1>9 DEF vars
  <1> QED
    BY <1>2, <1>3, <1>4, <1>5, <1>6, <1>7, <1>8, <1>9, NextActions

(* The checkpoint file never goes back, in a process that never calls      *)
(* flush and keeps its power.                                              *)
THEOREM CheckpointMonotoneCorrect ==
  ASSUME MaxFlushes = 0, "power" \notin Crashes
  PROVE  Spec => CheckpointMonotone
  <1>1. Init => MonotoneInv
    BY DEF Init, NoTick, NoFlush, MonotoneInv
  <1>2. IInv /\ LossInv /\ MonotoneInv /\ [Next]_vars => MonotoneInv' /\ [cp' >= cp]_cp
    BY MonotoneNext DEF IInv, LossInv
  <1> QED
    BY <1>1, <1>2, LossCorrect, PTL DEF Spec, CheckpointMonotone

-----------------------------------------------------------------------------
(* The stream implements StoreAndForward. *)

(* What was dropped is in no file; what the engine carries is in a file at *)
(* or above the cursor, unless it was dropped meanwhile; what is written   *)
(* is younger than what was acknowledged.                                  *)
SettledInv ==
    /\ store_type \in {"disk", "memory"}
    /\ \A f \in Stored(segs) : f.id \notin discarded
    /\ \A f \in Carried : f.id \in discarded \/ (f \in Stored(segs) /\ f.off >= acked)
    /\ \A w \in leader.written, a \in accepted : a < w

(* Only dropOldest discards. *)
LEMMA DiscardedNext ==
  ASSUME Next, ~DropAndWrite
  PROVE  discarded' = discarded
  <1>1. CASE \/ \E n \in 1..MaxGroup, needs_fsync \in BOOLEAN : BeginGroup(n, needs_fsync)
             \/ WriteRecord \/ RejectRecord \/ WaitForRoom \/ FinishGroup
             \/ SpuriousWakeup \/ TickSnapshot \/ TickStore
             \/ FlushSync \/ FlushSnapshot \/ FlushStore \/ Open
             \/ Plan \/ Read \/ CallSink \/ Commit \/ SendAllAcked \/ SendFailed \/ StopExporter
    BY <1>1 DEF BeginGroup, WriteRecord, RejectRecord, WaitForRoom, FinishGroup,
       SpuriousWakeup, TickSnapshot, TickStore, FlushSync, FlushSnapshot, FlushStore, Open,
       Plan, Read, CallSink, Commit, SendAllAcked, SendFailed, StopExporter, history
  <1>2. ASSUME NEW failed \in SUBSET exporter.pending, SendPartial(failed) PROVE discarded' = discarded
    BY <1>2 DEF SendPartial
  <1>3. CASE Kill \/ PowerLoss \/ Forget \/ Close
    BY <1>3, DownIs
  <1> QED
    BY <1>1, <1>2, <1>3, NextActions

(* The head of the group is younger than whatever was heard of. *)
LEMMA HeadIsNew ==
  ASSUME Types, IdsInv, leader.group # <<>>
  PROVE  /\ Head(leader.group) \in Nat
         /\ \A x \in Seen : x < Head(leader.group)
         /\ Head(leader.group) \notin Seen
  <1>1. /\ Head(leader.group) = leader.group[1] /\ 1 \in 1..Len(leader.group)
        /\ leader.group[1] \in Nat
    BY TailIs DEF Types, LeaderType
  <1>2. \A x \in Seen : x < leader.group[1]
    BY <1>1 DEF IdsInv
  <1>3. ~(leader.group[1] < leader.group[1])
    BY <1>1
  <1> QED
    BY <1>1, <1>2, <1>3

(* The log grows, or it is kept. *)
LEMMA NotBoth ==
  ASSUME Types, FilesInv, LogKept
  PROVE  ~WriteRecord /\ ~DropAndWrite
  <1>1. ASSUME WriteRecord \/ DropAndWrite PROVE FALSE
    <2>1. LogGrown
      BY <1>1, WriteGrows, DropGrows
    <2>2. Reach(segs') = Reach(segs) + 1 /\ Reach(segs') = Reach(segs) /\ Reach(segs) \in Nat
      BY <2>1, HeldTypes DEF LogGrown, LogKept, Trimmed
    <2> QED
      BY <2>2
  <1> QED
    BY <1>1

LEMMA WrittenNext ==
  ASSUME Types, FilesInv, IdsInv, SettledInv, Next
  PROVE  \A w \in leader'.written, a \in accepted' : a < w
  <1>1. CASE leader'.written = {}
    BY <1>1
  <1>2. CASE leader'.written = leader.written /\ accepted' = accepted
    BY <1>2 DEF SettledInv
  <1>3. CASE \E n \in 1..MaxGroup, needs_fsync \in BOOLEAN : BeginGroup(n, needs_fsync)
    BY <1>1, <1>3 DEF BeginGroup
  <1>4. CASE WriteRecord \/ DropAndWrite
    <2>1. LogGrown /\ accepted' = accepted
      BY <1>4, WriteGrows, DropGrows DEF WriteRecord, DropAndWrite, history
    <2>2. leader'.written = leader.written \union {Head(leader.group)} /\ leader.group # <<>>
      BY <2>1 DEF LogGrown, Types, LeaderType
    <2>3. \A a \in accepted : a < Head(leader.group)
      BY <2>2, HeadIsNew DEF Seen
    <2> QED
      BY <2>1, <2>2, <2>3 DEF SettledInv
  <1>5. CASE RejectRecord \/ WaitForRoom \/ SpuriousWakeup \/ Commit
    <2>1. accepted' = accepted
      BY <1>5 DEF RejectRecord, WaitForRoom, SpuriousWakeup, Commit, history
    <2>2. leader'.written = leader.written
      BY <1>5 DEF RejectRecord, WaitForRoom, SpuriousWakeup, Commit, Woken, Types, LeaderType
    <2> QED
      BY <1>2, <2>1, <2>2
  <1>6. CASE FinishGroup
    BY <1>1, <1>6 DEF FinishGroup, NoGroup
  <1>7. CASE \/ Plan \/ Read \/ CallSink \/ SendAllAcked \/ SendFailed \/ StopExporter \/ TickSnapshot
             \/ TickStore \/ FlushSync \/ FlushSnapshot \/ FlushStore \/ Open
    BY <1>2, <1>7 DEF Plan, Read, CallSink, SendAllAcked, SendFailed, StopExporter, TickSnapshot, TickStore,
       FlushSync, FlushSnapshot, FlushStore, Open, history
  <1>8. ASSUME NEW failed \in SUBSET exporter.pending, SendPartial(failed)
        PROVE  leader'.written = leader.written /\ accepted' = accepted
    BY <1>8 DEF SendPartial
  <1>9. CASE Kill \/ PowerLoss \/ Forget \/ Close
    BY <1>1, <1>9, DownIs DEF NoGroup
  <1> QED
    BY <1>2, <1>3, <1>4, <1>5, <1>6, <1>7, <1>8, <1>9, NextActions

(* The files hold nothing that was dropped. *)
LEMMA StoredNext ==
  ASSUME Types, FilesInv, ExportInv, IdsInv, HeldInv, SettledInv, Next
  PROVE  \A f \in Stored(segs') : f.id \notin discarded'
  <1>1. ASSUME Stored(segs') \subseteq Stored(segs), ~DropAndWrite
        PROVE  \A f \in Stored(segs') : f.id \notin discarded'
    BY <1>1, DiscardedNext DEF SettledInv
  <1>2. CASE LogKept
    BY <1>1, <1>2, NotBoth DEF LogKept, Trimmed
  <1>3. CASE (WriteRecord \/ DropAndWrite) /\ LogGrown
    <2> DEFINE new == Frame(Reach(segs), Head(leader.group))
    <2>1. /\ Stored(segs') \subseteq Stored(segs) \union {new}
          /\ new.id = Head(leader.group) /\ leader.group # <<>>
          /\ \A x \in discarded' \ discarded : \E g \in Stored(segs) : x = g.id
      BY <1>3 DEF LogGrown, Frame
    <2> HIDE DEF new
    <2>2. new.id \notin discarded'
      <3>1. \A g \in Stored(segs) : g.id \in Seen
        BY DEF Seen, Held
      <3>2. discarded \subseteq Seen
        BY DEF Seen
      <3> QED
        BY <2>1, <3>1, <3>2, HeadIsNew
    <2>3. ASSUME NEW f \in Stored(segs'), f \in Stored(segs), f.id \in discarded'
          PROVE  FALSE
      <3>1. f.id \notin discarded
        BY <2>3 DEF SettledInv
      <3>2. DropAndWrite
        BY <2>3, <3>1, DiscardedNext
      <3>3. PICK g \in Stored(segs) : f.id = g.id /\ g \notin Stored(segs')
        BY <2>3, <3>1, <3>2, DropGrows
      <3>4. f \in Held /\ g \in Held /\ f.id \in Nat /\ g.id \in Nat
        BY <2>3, HeldTypes
      <3>5. f = g
        BY <3>3, <3>4, OneFrame
      <3> QED
        BY <2>3, <3>3, <3>5
    <2> QED
      BY <2>1, <2>2, <2>3
  <1>4. CASE (Kill \/ PowerLoss \/ Forget \/ Close) /\ LogLost
    <2>1. ASSUME DropAndWrite PROVE FALSE
      BY <1>4, <2>1, DownIs DEF DropAndWrite
    <2> QED
      BY <1>1, <1>4, <2>1 DEF LogLost
  <1>5. CASE Open /\ LogOpened
    <2>1. Stored(segs') = Stored(segs)
      BY <1>5, SameFiles DEF LogOpened, FilesInv, FilesOk
    <2>2. ~DropAndWrite
      BY <1>5 DEF Open, DropAndWrite, Writing
    <2> QED
      BY <1>1, <2>1, <2>2
  <1> QED
    BY <1>2, <1>3, <1>4, <1>5, NextLog

(* What the engine carries is due, or was dropped. *)
LEMMA CarriedDue ==
  ASSUME Types, FilesInv, ExportInv, SettledInv, LogKept \/ LogGrown, acked' = acked \/ LogGrown,
         discarded \subseteq discarded', NEW f \in Carried
  PROVE  f.id \in discarded' \/ (f \in Stored(segs') /\ f.off >= acked')
  <1>1. f.id \in discarded \/ (f \in Stored(segs) /\ f.off >= acked)
    BY DEF SettledInv
  <1>2. f.off \in Nat /\ acked \in Nat
    BY HeldTypes DEF Types
  <1>3. CASE LogGrown
    BY <1>1, <1>2, <1>3 DEF LogGrown
  <1>4. CASE LogKept /\ acked' = acked
    BY <1>1, <1>2, <1>4 DEF LogKept
  <1> QED
    BY <1>3, <1>4

LEMMA SettledNext ==
  ASSUME Types, FilesInv, ExportInv, IdsInv, HeldInv, SettledInv, [Next]_vars
  PROVE  SettledInv'
  <1>1. CASE UNCHANGED vars
    BY <1>1 DEF vars, log, history, SettledInv, Carried, PlanFrames, BatchFrames
  <1>2. CASE Next
    <2> DEFINE Settled(f) == f.id \in discarded' \/ (f \in Stored(segs') /\ f.off >= acked')
    <2>1. discarded \subseteq discarded'
      BY <1>2, DiscardedNext, DropGrows DEF LogGrown
    <2>2. store_type' = store_type
      BY <1>2, NextLog DEF LogKept, LogGrown, LogLost, LogOpened
    <2>3. SUFFICES ASSUME NEW f \in Carried' PROVE Settled(f)
      BY <1>2, <2>2, WrittenNext, StoredNext DEF SettledInv
    <2>4. ASSUME Carried' = {} PROVE Settled(f)
      BY <2>3, <2>4
    <2>5. ASSUME LogKept \/ LogGrown, acked' = acked \/ LogGrown, Carried' \subseteq Carried PROVE Settled(f)
      BY <2>1, <2>3, <2>5, CarriedDue
    <2>6. ASSUME \/ \E n \in 1..MaxGroup, needs_fsync \in BOOLEAN : BeginGroup(n, needs_fsync)
                 \/ WriteRecord \/ DropAndWrite \/ RejectRecord \/ WaitForRoom \/ FinishGroup
                 \/ SpuriousWakeup \/ TickSnapshot \/ TickStore
                 \/ FlushSync \/ FlushSnapshot \/ FlushStore
          PROVE  Settled(f)
      <3>1. UNCHANGED exporter
        BY <2>6 DEF BeginGroup, WriteRecord, DropAndWrite, RejectRecord, WaitForRoom, FinishGroup,
           SpuriousWakeup, TickSnapshot, TickStore, FlushSync, FlushSnapshot, FlushStore
      <3>2. (LogKept /\ acked' = acked) \/ LogGrown
        BY <2>6, IdleKeeps, LeaderKeeps, FinishKeeps, SyncKeeps, WriteGrows, DropGrows DEF Idle
      <3>3. Carried' = Carried
        BY <3>1 DEF Carried, PlanFrames, BatchFrames
      <3> QED
        BY <2>5, <3>2, <3>3
    <2>7. ASSUME Plan PROVE Settled(f)
      <3>1. running /\ UNCHANGED <<segs, acked>>
        BY <2>7 DEF Plan, InnerFree, log
      <3>2. PICK plan \in PlanRead(segs, acked, BatchRecords) :
               exporter' = [NoBatch EXCEPT !.pc = "read", !.plan = plan]
        BY <2>7 DEF Plan
      <3>3. exporter'.plan = plan /\ exporter'.batch = <<>> /\ Len(<<>>) = 0
        BY <3>2 DEF NoBatch
      <3>4. Carried' = {plan[i].frame : i \in 1..Len(plan)}
        BY <3>3 DEF Carried, PlanFrames, BatchFrames
      <3>5. \A i \in 1..Len(plan) : plan[i].frame \in Stored(segs) /\ plan[i].frame.off >= acked
        BY <3>1, PlanTypeIs
      <3> QED
        BY <2>3, <3>1, <3>4, <3>5
    <2>8. ASSUME Read PROVE Settled(f)
      <3>1. LogKept /\ acked' = acked
        BY <2>8, IdleKeeps DEF Idle
      <3>2. exporter' = IF ReadBatch = <<>> THEN NoBatch
                        ELSE [NoBatch EXCEPT !.pc = "send", !.batch = ReadBatch,
                                             !.pending = Ids(ReadBatch)]
        BY <2>8 DEF Read, ReadBatch
      <3>3. exporter'.plan = <<>> /\ exporter'.batch = ReadBatch /\ Len(<<>>) = 0
        BY <3>2 DEF NoBatch
      <3>4. Carried' = {ReadBatch[i] : i \in 1..Len(ReadBatch)}
        BY <3>3 DEF Carried, PlanFrames, BatchFrames
      <3>5. Len(exporter.plan) \in Nat
        BY DEF Types, ExporterType
      <3>6. \A i \in 1..Len(ReadBatch) : i \in 1..Len(exporter.plan) /\ ReadBatch[i] = exporter.plan[i].frame
        BY <3>5, BatchIs
      <3>7. Carried' \subseteq Carried
        BY <3>4, <3>6 DEF Carried, PlanFrames
      <3> QED
        BY <2>5, <3>1, <3>7
    <2>9. ASSUME \/ CallSink \/ SendAllAcked \/ SendFailed
                 \/ \E failed \in SUBSET exporter.pending : SendPartial(failed)
          PROVE  Settled(f)
      <3>1. \/ exporter' = [exporter EXCEPT !.pc = "sink"]
            \/ exporter' = [exporter EXCEPT !.pc = "commit"]
            \/ exporter' = [exporter EXCEPT !.pc = "send", !.attempt = NextAttempt]
            \/ \E failed \in SUBSET exporter.pending :
                  exporter' = [exporter EXCEPT !.pc = "send", !.pending = failed, !.attempt = NextAttempt]
        BY <2>9 DEF CallSink, SendAllAcked, SendFailed, SendPartial, SentAgain
      <3>2. exporter'.plan = exporter.plan /\ exporter'.batch = exporter.batch
        BY <3>1 DEF Types, ExporterType
      <3>3. Carried' = Carried
        BY <3>2 DEF Carried, PlanFrames, BatchFrames
      <3>4. LogKept /\ acked' = acked
        BY <2>9, IdleKeeps DEF Idle, Answer
      <3> QED
        BY <2>5, <3>3, <3>4
    <2>10. ASSUME Commit \/ StopExporter PROVE Settled(f)
      BY <2>4, <2>10, EmptyExport DEF Commit, StopExporter, NoBatch
    <2>11. ASSUME Kill \/ PowerLoss \/ Forget \/ Close \/ Open PROVE Settled(f)
      <3>1. ~running' \/ ~running
        BY <2>11, DownIs DEF Open
      <3> QED
        BY <1>2, <2>4, <3>1, CarriedNext
    <2> HIDE DEF Settled
    <2> QED
      BY <1>2, <2>6, <2>7, <2>8, <2>9, <2>10, <2>11, NextActions
  <1> QED
    BY <1>1, <1>2

(* The records that are due, by the frames that hold them. *)
LEMMA DueIs ==
  /\ running => \A id : id \in DueRecords <=> id \in accepted /\ KeptAt(id, acked)
  /\ ~running => \A id : id \in DueRecords <=> id \in accepted /\ KeptAt(id, cp)
  /\ running' => \A id : id \in DueRecords' <=> id \in accepted' /\ KeptAt(id, acked)'
  /\ ~running' => \A id : id \in DueRecords' <=> id \in accepted' /\ KeptAt(id, cp)'
  BY DEF DueRecords, KeptAt

LEMMA SeenRecords ==
  ASSUME Types, FilesInv, ExportInv, IdsInv
  PROVE  /\ Seen \subseteq 1..MaxRecords
         /\ \A a \in exporter.pending : \E g \in BatchFrames : g.id = a
         /\ exporter.pending \subseteq Seen
  <1>1. Seen \subseteq 1..MaxRecords
    <2>1. next_id \in Nat /\ next_id <= MaxRecords + 1 /\ MaxRecords \in Nat
      BY EmbeddedLogAssumption DEF Types, IdsInv
    <2>2. 1..next_id - 1 \subseteq 1..MaxRecords
      BY <2>1
    <2> QED
      BY <2>2 DEF IdsInv
  <1>2. Ids(exporter.batch) = {f.id : f \in BatchFrames}
    BY IdsAre DEF Types, ExporterType, BatchFrames
  <1>3. \A a \in exporter.pending : \E g \in BatchFrames : g.id = a
    BY <1>2 DEF ExportInv
  <1>4. BatchFrames \subseteq Held
    BY HeldTypes
  <1> QED
    BY <1>1, <1>3, <1>4 DEF Seen

(* The same records are due as long as neither the cursor moves nor a      *)
(* frame above it goes.                                                    *)
LEMMA DueKept ==
  ASSUME Types, FilesInv, LogKept, acked' = acked
  PROVE  /\ \A id : KeptAt(id, acked)' <=> KeptAt(id, acked)
         /\ accepted' = accepted => DueRecords' = DueRecords
  <1>1. running /\ running' /\ Stored(segs') \subseteq Stored(segs)
        /\ \A f \in Stored(segs) : f \in Stored(segs') \/ f.off < acked
    BY DEF LogKept, Trimmed
  <1>2. \A f \in Stored(segs) : f.off \in Nat
    BY HeldTypes
  <1>3. acked \in Nat
    BY DEF Types
  <1>4. ASSUME NEW id PROVE KeptAt(id, acked)' <=> KeptAt(id, acked)
    BY <1>1, <1>2, <1>3 DEF KeptAt
  <1>5. ASSUME accepted' = accepted PROVE DueRecords' = DueRecords
    <2>1. \A id : id \in DueRecords' <=> id \in DueRecords
      BY <1>1, <1>4, <1>5, DueIs
    <2> QED
      BY <2>1 DEF DueRecords
  <1> QED
    BY <1>4, <1>5

(* Nor does a record that is just appended become due. *)
LEMMA DueGrown ==
  ASSUME Types, FilesInv, IdsInv, SettledInv, LogGrown, accepted' = accepted,
         NEW id \in accepted, KeptAt(id, acked)'
  PROVE  \E f \in Stored(segs) : f.id = id /\ f \in Stored(segs') /\ f.off >= acked'
  <1>1. PICK f \in Stored(segs') : f.id = id /\ f.off >= acked'
    BY DEF KeptAt
  <1>2. leader.group # <<>> /\ Stored(segs') \subseteq Stored(segs) \union {Frame(Reach(segs), Head(leader.group))}
    BY DEF LogGrown
  <1>3. id # Head(leader.group)
    BY <1>2, HeadIsNew DEF Seen
  <1>4. f # Frame(Reach(segs), Head(leader.group))
    BY <1>1, <1>3 DEF Frame
  <1> QED
    BY <1>1, <1>2, <1>4

LEMMA AcceptStep ==
  ASSUME Types, FilesInv, ExportInv, IdsInv, SettledInv, KeptInv, FinishGroup
  PROVE  Promise!Next
  <1> DEFINE ids == leader.written
             early == {w \in ids : ~KeptAt(w, acked)}
  <1>1. /\ running /\ accepted' = accepted \union ids
        /\ UNCHANGED <<store_type, running, delivered, discarded, gave_up>>
    BY DEF FinishGroup
  <1>2. LogKept /\ acked' = acked
    BY FinishKeeps
  <1>3. early \subseteq ids /\ early \subseteq Gone
    BY <1>1 DEF KeptInv
  <1>4. early \in SUBSET (ids \intersect Promise!Out)
    BY <1>3 DEF Gone, Promise!Out
  <1>5. \A id : KeptAt(id, acked)' <=> KeptAt(id, acked)
    BY <1>2, DueKept
  <1>6. \A id : id \in DueRecords' <=> id \in DueRecords \/ id \in ids \ early
    BY <1>1, <1>5, DueIs
  <1>7. DueRecords' = DueRecords \union (ids \ early)
    <2> HIDE DEF early
    <2> QED
      BY <1>6
  <1>8. \A a \in ids, b \in accepted : b < a
    BY DEF SettledInv
  <1>9. ids \in SUBSET (1..MaxRecords)
    BY SeenRecords DEF Seen
  <1> HIDE DEF ids, early
  <1>10. Promise!Accept(ids)
    BY <1>1, <1>4, <1>7, <1>8 DEF Promise!Accept
  <1> QED
    BY <1>9, <1>10 DEF Promise!Next

LEMMA SendStep ==
  ASSUME Types, FilesInv, ExportInv, IdsInv, SettledInv, KeptInv,
         "partial" \notin Outcomes => OrderInv',
         NEW ids \in SUBSET exporter.pending,
         \/ SendAllAcked /\ ids = exporter.pending
         \/ \E failed \in SUBSET exporter.pending :
               SendPartial(failed) /\ ids = exporter.pending \ failed
  PROVE  Promise!Next
  <1>1. /\ running /\ running' /\ exporter.pc = "sink" /\ delivered' = delivered \union ids
        /\ UNCHANGED <<store_type, accepted, leader, discarded, gave_up>>
    <2>1. CASE SendAllAcked /\ ids = exporter.pending
      BY <2>1 DEF SendAllAcked, Sending, Deliver
    <2>2. ASSUME NEW failed \in SUBSET exporter.pending, SendPartial(failed), ids = exporter.pending \ failed
          PROVE  /\ running /\ running' /\ exporter.pc = "sink" /\ delivered' = delivered \union ids
                 /\ UNCHANGED <<store_type, accepted, leader, discarded, gave_up>>
      BY <2>2 DEF SendPartial, Sending, Deliver
    <2> QED
      BY <2>1, <2>2
  <1>2. LogKept /\ acked' = acked
    BY IdleKeeps DEF Idle, Answer
  <1>3. DueRecords' = DueRecords
    BY <1>1, <1>2, DueKept
  <1>4. ASSUME NEW a \in ids, a \in accepted PROVE a \in DueRecords \union discarded
    <2>1. PICK g \in BatchFrames : g.id = a
      BY SeenRecords
    <2>2. g \in Carried
      BY HeldTypes
    <2>3. g.id \in discarded \/ KeptAt(a, acked)
      BY <2>1, <2>2 DEF SettledInv, KeptAt
    <2> QED
      BY <1>1, <1>4, <2>1, <2>3, DueIs
  <1>5. ASSUME "partial" \notin Outcomes, NEW a \in ids, NEW b \in DueRecords, b < a
        PROVE  b \in ids \union Promise!Out
    <2>1. a \in delivered' /\ b \in Owed'
      BY <1>1 DEF Owed, DueRecords
    <2>2. b \in Gone'
      BY <1>5, <2>1 DEF OrderInv
    <2> QED
      BY <1>1, <2>2 DEF Gone, Promise!Out
  <1>6. ids \in SUBSET (1..MaxRecords)
    BY SeenRecords
  <1>7. Promise!Send(ids)
    BY <1>1, <1>3, <1>4, <1>5 DEF Promise!Send
  <1> QED
    BY <1>6, <1>7 DEF Promise!Next

LEMMA FailedStep ==
  ASSUME Types, FilesInv, ExportInv, IdsInv, SendFailed
  PROVE  [Promise!Next]_(Promise!vars)
  <1>1. /\ running /\ UNCHANGED <<store_type, running, accepted, delivered, discarded>>
        /\ \/ MaxRetries # -1 /\ gave_up' = gave_up \union exporter.pending
           \/ gave_up' = gave_up
    BY DEF SendFailed, Sending, GiveUp
  <1>2. DueRecords' = DueRecords
    BY <1>1, IdleKeeps, DueKept DEF Idle, Answer
  <1>3. exporter.pending \in SUBSET (1..MaxRecords)
    BY SeenRecords
  <1>4. CASE MaxRetries # -1 /\ gave_up' = gave_up \union exporter.pending
    <2>1. Promise!GiveUp(exporter.pending)
      BY <1>1, <1>2, <1>4 DEF Promise!GiveUp
    <2> QED
      BY <1>3, <2>1 DEF Promise!Next
  <1>5. CASE gave_up' = gave_up
    BY <1>1, <1>2, <1>5 DEF Promise!vars
  <1> QED
    BY <1>1, <1>4, <1>5

LEMMA CommitStep ==
  ASSUME Types, FilesInv, ExportInv, IdsInv, HeldInv, CoveredInv, AnsweredInv, Commit
  PROVE  Promise!Next
  <1> DEFINE ids == DueRecords \ DueRecords'
  <1>1. running /\ running' /\ segs' = segs /\ acked' \in Nat /\ acked <= acked'
        /\ UNCHANGED <<store_type, accepted, delivered, discarded, gave_up>>
    BY CommitKeeps DEF LogKept, Commit, history
  <1>2. \A f \in Stored(segs) : f.off \in Nat
    BY HeldTypes
  <1>3. acked \in Nat
    BY DEF Types
  <1>4. ASSUME NEW id, KeptAt(id, acked)' PROVE KeptAt(id, acked)
    BY <1>1, <1>2, <1>3, <1>4 DEF KeptAt
  <1>5. DueRecords' \subseteq DueRecords
    BY <1>1, <1>4, DueIs
  <1>6. ASSUME NEW id \in ids PROVE id \in Gone
    <2>1. id \in accepted /\ KeptAt(id, acked) /\ ~KeptAt(id, acked)'
      BY <1>1, <1>6, DueIs
    <2>2. PICK f \in Stored(segs) : f.id = id /\ f.off >= acked
      BY <2>1 DEF KeptAt
    <2>3. ~(f.off >= acked')
      BY <1>1, <2>1, <2>2 DEF KeptAt
    <2> QED
      BY <2>2, <2>3, CommitAnswered
  <1>7. ids \subseteq Promise!Out
    BY <1>6 DEF Gone, Promise!Out
  <1>8. ids \in SUBSET (1..MaxRecords)
    BY SeenRecords DEF Seen, DueRecords
  <1>9. DueRecords' = DueRecords \ ids
    BY <1>5
  <1> HIDE DEF ids
  <1>10. Promise!Settle(ids)
    BY <1>1, <1>7, <1>9 DEF Promise!Settle
  <1> QED
    BY <1>8, <1>10 DEF Promise!Next

LEMMA WriteStep ==
  ASSUME Types, FilesInv, IdsInv, SettledInv, WriteRecord
  PROVE  UNCHANGED Promise!vars
  <1>1. /\ running /\ running' /\ acked' = acked
        /\ UNCHANGED <<store_type, running, accepted, delivered, discarded, gave_up>>
    BY DEF WriteRecord, Writing, history
  <1>2. LogGrown
    BY WriteGrows
  <1>3. \A f \in Stored(segs) : f.off \in Nat
    BY HeldTypes
  <1>4. acked \in Nat
    BY DEF Types
  <1>5. ASSUME NEW id \in accepted, KeptAt(id, acked)' PROVE KeptAt(id, acked)
    BY <1>1, <1>2, <1>5, DueGrown DEF KeptAt
  <1>6. ASSUME NEW id \in accepted, KeptAt(id, acked) PROVE KeptAt(id, acked)'
    <2>1. PICK f \in Stored(segs) : f.id = id /\ f.off >= acked
      BY <1>6 DEF KeptAt
    <2>2. f \in Stored(segs') /\ f.off >= acked'
      BY <1>1, <1>2, <1>3, <1>4, <2>1 DEF LogGrown, SettledInv
    <2> QED
      BY <2>1, <2>2 DEF KeptAt
  <1>7. \A id : id \in DueRecords' <=> id \in DueRecords
    BY <1>1, <1>5, <1>6, DueIs
  <1>8. DueRecords' = DueRecords
    BY <1>7 DEF DueRecords
  <1> QED
    BY <1>1, <1>8 DEF Promise!vars

LEMMA DropStep ==
  ASSUME Types, FilesInv, ExportInv, IdsInv, HeldInv, SettledInv, DropAndWrite
  PROVE  Promise!Next
  <1> DEFINE ids == discarded' \ discarded
  <1>1. /\ running /\ running' /\ OnFull = "dropOldest"
        /\ UNCHANGED <<store_type, accepted, delivered, gave_up>>
    BY DEF DropAndWrite, Writing
  <1>2. /\ LogGrown
        /\ \A x \in ids : \E f \in Stored(segs) : x = f.id /\ f.off < acked' /\ f \notin Stored(segs')
    BY DropGrows
  <1>3. \A f \in Stored(segs) : f \in Held /\ f.off \in Nat /\ f.id \in Nat
    BY HeldTypes
  <1>4. acked \in Nat /\ acked' \in Nat /\ acked <= acked' /\ discarded \subseteq discarded'
    BY <1>2 DEF LogGrown, Types
  <1>5. \A f \in Stored(segs') : f.id \notin discarded'
    <2>1. Next
      BY DEF Next, Leader
    <2> QED
      BY <2>1, StoredNext
  <1>6. ASSUME NEW id \in DueRecords' PROVE id \in DueRecords /\ id \notin ids
    <2>1. id \in accepted /\ KeptAt(id, acked)'
      BY <1>1, <1>6, DueIs
    <2>2. PICK f \in Stored(segs) : f.id = id /\ f \in Stored(segs') /\ f.off >= acked'
      BY <1>1, <1>2, <2>1, DueGrown
    <2>3. f.off >= acked /\ id \notin discarded'
      BY <1>3, <1>4, <1>5, <2>2
    <2> QED
      BY <1>1, <2>1, <2>2, <2>3, DueIs DEF KeptAt
  <1>7. ASSUME NEW id \in DueRecords, id \notin ids PROVE id \in DueRecords'
    <2>1. id \in accepted /\ KeptAt(id, acked)
      BY <1>1, DueIs
    <2>2. PICK f \in Stored(segs) : f.id = id /\ f.off >= acked
      BY <2>1 DEF KeptAt
    <2>3. f.id \notin discarded'
      BY <1>7, <2>2 DEF SettledInv
    <2>4. f \in Stored(segs') /\ f.off >= acked'
      BY <1>2, <1>3, <1>4, <2>2, <2>3 DEF LogGrown
    <2> QED
      BY <1>1, <2>1, <2>2, <2>4, DueIs DEF KeptAt
  <1>8. ASSUME NEW a \in ids, NEW b \in DueRecords' PROVE a < b
    <2>1. b \in accepted /\ KeptAt(b, acked)'
      BY <1>1, DueIs
    <2>2. PICK f \in Stored(segs) : f.id = b /\ f \in Stored(segs') /\ f.off >= acked'
      BY <1>1, <1>2, <2>1, DueGrown
    <2>3. PICK g \in Stored(segs) : a = g.id /\ g.off < acked'
      BY <1>2
    <2>4. g.off < f.off
      BY <1>3, <1>4, <2>2, <2>3
    <2> QED
      BY <1>3, <2>2, <2>3, <2>4 DEF HeldInv
  <1>9. DueRecords' = DueRecords \ ids
    <2> HIDE DEF ids
    <2> QED
      BY <1>6, <1>7
  <1>10. ids \in SUBSET (1..MaxRecords)
    <2>1. \A f \in Stored(segs) : f.id \in Seen
      BY <1>3 DEF Seen
    <2> QED
      BY <1>2, <2>1, SeenRecords
  <1>11. discarded' = discarded \union ids
    BY <1>4
  <1> HIDE DEF ids
  <1>12. Promise!Drop(ids)
    BY <1>1, <1>8, <1>9, <1>11 DEF Promise!Drop
  <1> QED
    BY <1>10, <1>12 DEF Promise!Next

LEMMA StopStep ==
  ASSUME "power" \notin Crashes, Types, FilesInv, FlushedInv, CheckpointInv, KeptInv, SettledInv,
         Kill \/ PowerLoss \/ Forget \/ Close
  PROVE  Promise!Next
  <1>1. /\ running /\ ~running' /\ UNCHANGED <<store_type, delivered, discarded, gave_up>>
    BY DownIs
  <1>2. ~PowerLoss
    BY DEF PowerLoss
  <1>3. CASE Forget
    <2>1. store_type = "memory" /\ accepted' = {}
      BY <1>3 DEF Forget, Persistent, SettledInv
    <2>2. DueRecords' = {}
      BY <2>1 DEF DueRecords
    <2>3. Promise!Stop
      BY <1>1, <2>1, <2>2 DEF Promise!Stop
    <2> QED
      BY <2>3 DEF Promise!Next
  <1>4. CASE Kill \/ Close
    <2>1. store_type = "disk" /\ accepted' = accepted
      BY <1>4 DEF Kill, Close, Persistent, history
    <2>2. /\ Stored(segs') \subseteq Stored(segs)
          /\ \A f \in Stored(segs) : f.id \in accepted => f \in Stored(segs')
      BY <1>4, DownLoses DEF LogLost, FlushedInv
    <2>3. acked \in Nat /\ cp' \in Nat /\ cp' <= acked
      <3>1. cp \in Nat /\ acked \in Nat /\ cp <= acked
        BY <1>1 DEF Types, CheckpointInv
      <3>2. cp' = cp \/ cp' = acked
        BY <1>4 DEF Kill, Close
      <3> QED
        BY <3>1, <3>2
    <2>4. \A f \in Stored(segs) : f.off \in Nat
      BY HeldTypes
    <2>5. ASSUME NEW id \in DueRecords PROVE id \in DueRecords'
      <3>1. id \in accepted /\ KeptAt(id, acked)
        BY <1>1, DueIs
      <3>2. PICK f \in Stored(segs) : f.id = id /\ f.off >= acked
        BY <3>1 DEF KeptAt
      <3>3. f \in Stored(segs') /\ f.off >= cp'
        BY <2>2, <2>3, <2>4, <3>1, <3>2
      <3> QED
        BY <1>1, <2>1, <3>1, <3>2, <3>3, DueIs DEF KeptAt
    <2>6. ASSUME NEW id \in DueRecords' \ DueRecords
          PROVE  id \in (accepted \intersect (delivered \union gave_up)) \ discarded
      <3>1. id \in accepted /\ KeptAt(id, cp)'
        BY <1>1, <2>1, <2>6, DueIs
      <3>2. id \in Gone
        BY <1>1, <2>6, <3>1, DueIs DEF KeptInv
      <3>3. id \notin discarded
        BY <2>2, <3>1 DEF KeptAt, SettledInv
      <3> QED
        BY <3>1, <3>2, <3>3 DEF Gone
    <2>7. /\ DueRecords \subseteq DueRecords'
          /\ DueRecords' \ DueRecords \subseteq (accepted \intersect (delivered \union gave_up)) \ discarded
      BY <2>5, <2>6
    <2>8. Promise!Stop
      BY <1>1, <2>1, <2>7 DEF Promise!Stop
    <2> QED
      BY <2>8 DEF Promise!Next
  <1> QED
    BY <1>2, <1>3, <1>4

LEMMA StartStep ==
  ASSUME Types, FilesInv, CheckpointInv, Open
  PROVE  Promise!Next
  <1>1. /\ ~running /\ running' /\ UNCHANGED <<store_type, cp, accepted, delivered, discarded, gave_up>>
    BY DEF Open
  <1>2. LogOpened
    BY OpenOpens
  <1>3. Stored(segs') = Stored(segs)
    BY <1>2, SameFiles DEF LogOpened, FilesInv, FilesOk
  <1>4. acked' = cp
    BY <1>1, <1>2 DEF LogOpened, CheckpointInv
  <1>5. \A id : KeptAt(id, acked)' <=> KeptAt(id, cp)
    BY <1>3, <1>4 DEF KeptAt
  <1>6. \A id : id \in DueRecords' <=> id \in DueRecords
    BY <1>1, <1>5, DueIs
  <1>7. DueRecords' = DueRecords
    BY <1>6 DEF DueRecords
  <1>8. Promise!Start
    BY <1>1, <1>7 DEF Promise!Start
  <1> QED
    BY <1>8 DEF Promise!Next

LEMMA PromiseStep ==
  ASSUME "power" \notin Crashes, IInv, LossInv, SettledInv,
         "partial" \notin Outcomes => OrderInv', [Next]_vars
  PROVE  [Promise!Next]_(Promise!vars)
  <1>1. /\ Types /\ FilesInv /\ ExportInv /\ IdsInv /\ HeldInv
        /\ CoveredInv /\ AnsweredInv /\ FlushedInv /\ CheckpointInv /\ KeptInv
    BY DEF IInv, LossInv
  <1>2. CASE UNCHANGED vars
    BY <1>2 DEF vars, log, history, Promise!vars, DueRecords
  <1>3. ASSUME LogKept, acked' = acked, UNCHANGED <<accepted, delivered, discarded, gave_up>>
        PROVE  UNCHANGED Promise!vars
    <2>1. UNCHANGED <<store_type, running>>
      BY <1>1, <1>3 DEF LogKept, Types
    <2>2. DueRecords' = DueRecords
      BY <1>1, <1>3, DueKept
    <2> QED
      BY <1>3, <2>1, <2>2 DEF Promise!vars
  <1>4. CASE \/ \E n \in 1..MaxGroup, needs_fsync \in BOOLEAN : BeginGroup(n, needs_fsync)
             \/ SpuriousWakeup \/ Plan \/ Read \/ CallSink \/ StopExporter
             \/ TickStore \/ FlushSnapshot \/ FlushStore
    <2>1. LogKept /\ acked' = acked
      BY <1>1, <1>4, IdleKeeps DEF Idle
    <2>2. UNCHANGED <<accepted, delivered, discarded, gave_up>>
      BY <1>4 DEF BeginGroup, SpuriousWakeup, Plan, Read, CallSink, StopExporter, TickStore,
         FlushSnapshot, FlushStore, history
    <2> QED
      BY <1>3, <2>1, <2>2
  <1>5. CASE RejectRecord \/ WaitForRoom \/ TickSnapshot \/ FlushSync
    <2>1. LogKept /\ acked' = acked
      BY <1>1, <1>5, LeaderKeeps, SyncKeeps
    <2>2. UNCHANGED <<accepted, delivered, discarded, gave_up>>
      BY <1>5 DEF RejectRecord, WaitForRoom, TickSnapshot, FlushSync, history
    <2> QED
      BY <1>3, <2>1, <2>2
  <1>6. CASE SendAllAcked
    BY <1>1, <1>6, SendStep
  <1>7. ASSUME NEW failed \in SUBSET exporter.pending, SendPartial(failed)
        PROVE  Promise!Next
    <2>1. exporter.pending \ failed \in SUBSET exporter.pending
      OBVIOUS
    <2> QED
      BY <1>1, <1>7, <2>1, SendStep
  <1> QED
    BY <1>1, <1>2, <1>4, <1>5, <1>6, <1>7, WriteStep, DropStep, AcceptStep, FailedStep, CommitStep,
       StopStep, StartStep, NextActions

(* The stream implements StoreAndForward: what was accepted stays due      *)
(* until it was stored, given up, or dropped as one of the oldest; nothing *)
(* due is overtaken; and a restart brings back what was settled, but never *)
(* what was dropped.                                                       *)
THEOREM ImplementsStoreAndForwardCorrect ==
  ASSUME "power" \notin Crashes
  PROVE  Spec => ImplementsStoreAndForward
  <1>1. Init => Promise!Init /\ SettledInv /\ OrderInv
    <2> SUFFICES ASSUME Init PROVE Promise!Init /\ SettledInv /\ OrderInv
      OBVIOUS
    <2>1. store_type \in {"disk", "memory"}
      BY EmbeddedLogAssumption DEF Init
    <2>2. DueRecords = {}
      BY DEF Init, DueRecords
    <2>3. Promise!Init
      BY <2>1, <2>2 DEF Init, Promise!Init
    <2>4. OrderInv
      BY DEF Init, NoBatch, OrderInv
    <2>5. Stored(segs) = {} /\ Carried = {}
      <3>1. Len(<<>>) = 0
        OBVIOUS
      <3> QED
        BY <3>1 DEF Init, Stored, Carried, PlanFrames, BatchFrames, NoBatch
    <2>6. SettledInv
      BY <2>1, <2>5 DEF Init, NoGroup, SettledInv
    <2> QED
      BY <2>3, <2>4, <2>6
  <1>2. IInv /\ SettledInv /\ [Next]_vars => SettledInv'
    BY SettledNext DEF IInv
  <1> DEFINE Ordered == "partial" \notin Outcomes => OrderInv
  <1>3. IInv /\ LossInv /\ Ordered /\ [Next]_vars => Ordered'
    BY OrderNext
  <1>4. IInv /\ LossInv /\ SettledInv /\ Ordered' /\ [Next]_vars => [Promise!Next]_(Promise!vars)
    BY PromiseStep
  <1>5. Init => Ordered
    BY <1>1
  <1> HIDE DEF Ordered
  <1> QED
    BY <1>1, <1>2, <1>3, <1>4, <1>5, LossCorrect, PTL
       DEF Spec, ImplementsStoreAndForward, Promise!Spec
=============================================================================
