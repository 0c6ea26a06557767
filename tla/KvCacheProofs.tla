--------------------------- MODULE KvCacheProofs ---------------------------
(***************************************************************************)
(* Proofs about KvCache for every size of the cache, of the batches and of *)
(* the ubatches.  IInv is the inductive invariant: the properties of       *)
(* KvCache, the bounds of the batch under way, and what the list of        *)
(* pending ranges may cover in each phase.                                 *)
(***************************************************************************)
EXTENDS KvCache, FiniteSetTheorems, WellFoundedInduction, TLAPS

(* The batch under way: its ubatch is a non-empty part of what is left of  *)
(* it, and its positions stay in bounds.                                   *)
BatchOK ==
  phase # "idle" =>
    /\ sid \in Seqs
    /\ width >= 1 /\ width <= left
    /\ next + left - 1 <= MaxPos

(* Pending ranges are ranges of cells.                                     *)
PendingOK == \A r \in pending : 0 <= r[1] /\ r[1] <= r[2] /\ r[2] <= Size

IInv ==
  /\ TypeOK /\ BatchOK /\ PendingOK
  /\ EmptyAgrees /\ UsedCount /\ NoStaleShift
  /\ StalePendingIsFree /\ SearchSkipsNoSlot

-----------------------------------------------------------------------------
(* Lemmas on sets of cells.                                                *)

LEMMA MinProperties ==
  ASSUME NEW S \in SUBSET Nat, S # {}
  PROVE  Min(S) \in S /\ \A x \in S : Min(S) <= x
<1> DEFINE Less == OpToRel(<, Nat)
<1>1. \A x, y \in Nat : <<x, y>> \in Less <=> x < y
  BY DEF OpToRel
<1>2. IsWellFoundedOn(Less, Nat)
  BY NatLessThanWellFounded
<1> HIDE DEF Less
<1>3. PICK m \in S : \A k \in S : ~ (<<k, m>> \in Less)
  BY <1>2, WFMin
<1>4. ASSUME NEW k \in S PROVE m <= k
  <2>1. k \in Nat /\ m \in Nat
    OBVIOUS
  <2>2. ~ (k < m)
    BY <2>1, <1>1, <1>3, Zenon
  <2> QED
    BY <2>1, <2>2
<1> QED
  BY <1>4 DEF Min

LEMMA CellsFinite == IsFiniteSet(Cells) /\ Cardinality(Cells) = Size
<1>1. Size \in Nat /\ Size >= 1 /\ 0 \in Int /\ Size - 1 \in Int
  BY KvAssumption
<1>2. /\ IsFiniteSet(Cells)
      /\ Cardinality(Cells) = IF 0 > Size - 1 THEN 0 ELSE Size - 1 - 0 + 1
  BY <1>1, FS_Interval, Zenon DEF Cells
<1> QED
  BY <1>1, <1>2

(* The occupied cells of any assignment of positions can be counted.       *)
LEMMA OccupiedBound ==
  ASSUME NEW p
  PROVE  LET occ == {i \in Cells : p[i] >= 0}
         IN  IsFiniteSet(occ) /\ Cardinality(occ) \in 0 .. Size
<1> DEFINE occ == {i \in Cells : p[i] >= 0}
<1>1. occ \in SUBSET Cells
  OBVIOUS
<1>2. IsFiniteSet(occ) /\ Cardinality(occ) <= Size
  BY <1>1, CellsFinite, FS_Subset
<1> QED
  BY <1>2, FS_CardinalityType, KvAssumption

(* Emptying cells lowers the count by the number of those in use.          *)
LEMMA FreeCount ==
  ASSUME NEW p, NEW q, NEW freed \in SUBSET Cells,
         \A i \in Cells : q[i] >= 0 <=> p[i] >= 0 /\ i \notin freed
  PROVE  Cardinality({i \in Cells : q[i] >= 0})
           = Cardinality({i \in Cells : p[i] >= 0})
             - Cardinality({i \in freed : p[i] >= 0})
<1> DEFINE occ == {i \in Cells : p[i] >= 0}
<1>1. {i \in Cells : q[i] >= 0} = occ \ freed
  OBVIOUS
<1>2. {i \in freed : p[i] >= 0} = occ \cap freed
  OBVIOUS
<1>3. IsFiniteSet(occ)
  BY OccupiedBound
<1> HIDE DEF occ
<1>4. Cardinality(occ \ freed) = Cardinality(occ) - Cardinality(occ \cap freed)
  BY <1>3, FS_Difference
<1> QED
  BY <1>1, <1>2, <1>4 DEF occ

(* Filling a free slot raises the count by its width.                      *)
LEMMA TakeCount ==
  ASSUME NEW p, NEW q, NEW h \in Nat, NEW n \in Nat, n >= 1, h + n <= Size,
         \A i \in Slot(h, n) : ~ (p[i] >= 0),
         \A i \in Cells : q[i] >= 0 <=> p[i] >= 0 \/ i \in Slot(h, n)
  PROVE  Cardinality({i \in Cells : q[i] >= 0})
           = Cardinality({i \in Cells : p[i] >= 0}) + n
<1> DEFINE occ == {i \in Cells : p[i] >= 0}
<1>1. Slot(h, n) \subseteq Cells
  BY KvAssumption DEF Slot, Cells
<1>2. {i \in Cells : q[i] >= 0} = occ \cup Slot(h, n)
  BY <1>1
<1>3. occ \cap Slot(h, n) = {}
  OBVIOUS
<1>4. IsFiniteSet(occ) /\ Cardinality(occ) \in Nat
  BY OccupiedBound
<1>5. IsFiniteSet(Slot(h, n)) /\ Cardinality(Slot(h, n)) = n
  BY FS_Interval, h \in Int, h + n - 1 \in Int, ~ (h > h + n - 1) DEF Slot
<1> HIDE DEF occ
<1>6. Cardinality(occ \cup Slot(h, n))
        = Cardinality(occ) + Cardinality(Slot(h, n)) - Cardinality(occ \cap Slot(h, n))
  BY <1>4, <1>5, FS_Union
<1>7. Cardinality(occ \cap Slot(h, n)) = 0
  BY <1>3, FS_EmptySet
<1> QED
  BY <1>2, <1>4, <1>5, <1>6, <1>7 DEF occ

(* Pending ranges cover cells.                                             *)
LEMMA PendingInCells ==
  ASSUME TypeOK, PendingOK
  PROVE  PendingCells \subseteq Cells
<1> SUFFICES ASSUME NEW r \in pending, NEW i \in Slot(r[1], r[2] - r[1])
             PROVE  i \in Cells
  BY DEF PendingCells
<1>1. r[1] \in 0 .. Size /\ r[2] \in 0 .. Size /\ r[1] <= r[2]
  BY DEF TypeOK, PendingOK
<1> QED
  BY <1>1, KvAssumption DEF Slot, Cells

-----------------------------------------------------------------------------
(* Calls that edit sequences.                                              *)

(* Emptying cells keeps the count and the two notions of a free cell.      *)
LEMMA FreeCellsKeeps ==
  ASSUME TypeOK, UsedCount, NEW freed \in SUBSET Cells,
         NEW s1 \in [Cells -> SUBSET Seqs],
         \A i \in Cells \ freed : pos[i] < 0 <=> s1[i] = {},
         FreeCells(freed, s1)
  PROVE  /\ pos' \in [Cells -> -1 .. MaxPos] /\ seqs' \in [Cells -> SUBSET Seqs]
         /\ used' \in 0 .. Size
         /\ EmptyAgrees' /\ UsedCount'
         /\ \A i \in Cells : pos'[i] = IF i \in freed THEN -1 ELSE pos[i]
         /\ \A i \in freed : seqs'[i] = {}
<1>1. MaxPos \in Nat
  BY KvAssumption
<1>2. pos' \in [Cells -> -1 .. MaxPos] /\ seqs' \in [Cells -> SUBSET Seqs]
  BY <1>1 DEF FreeCells, TypeOK
<1>3. \A i \in Cells : pos'[i] = IF i \in freed THEN -1 ELSE pos[i]
  BY DEF FreeCells
<1>4. \A i \in Cells : seqs'[i] = IF i \in freed THEN {} ELSE s1[i]
  BY DEF FreeCells
<1>5. EmptyAgrees'
  BY <1>3, <1>4 DEF EmptyAgrees
<1>6. \A i \in Cells : pos'[i] >= 0 <=> pos[i] >= 0 /\ i \notin freed
  BY <1>1, <1>3 DEF TypeOK
<1>7. Cardinality({i \in Cells : pos'[i] >= 0})
        = Cardinality({i \in Cells : pos[i] >= 0})
          - Cardinality({i \in freed : pos[i] >= 0})
  BY <1>6, FreeCount
<1>8. UsedCount'
  BY <1>7 DEF FreeCells, UsedCount, Occupied
<1>9. used' \in 0 .. Size
  BY <1>8, OccupiedBound DEF UsedCount, Occupied
<1> QED
  BY <1>2, <1>3, <1>4, <1>5, <1>8, <1>9

(* What an edit has to keep for the whole invariant to be kept.            *)
LEMMA EditKeeps ==
  ASSUME IInv, Edit,
         pos' \in [Cells -> -1 .. MaxPos], seqs' \in [Cells -> SUBSET Seqs],
         delta' \in [Cells -> Int], shift' \in BOOLEAN,
         head' \in 0 .. Size, used' \in 0 .. Size,
         EmptyAgrees', UsedCount',
         \A i \in Cells : pos[i] < 0 => pos'[i] < 0,
         \A i \in Cells : delta'[i] # 0 => shift'
  PROVE  IInv'
<1>1. phase = "idle" /\ phase' = "idle" /\ pending' = pending /\ ret' = "none"
  BY DEF Edit, batchVars
<1>2. TypeOK'
  BY <1>1 DEF IInv, TypeOK, Edit, batchVars
<1>3. BatchOK' /\ SearchSkipsNoSlot'
  BY <1>1 DEF BatchOK, SearchSkipsNoSlot
<1>4. PendingOK'
  BY <1>1 DEF IInv, PendingOK
<1>5. NoStaleShift'
  BY <1>1 DEF NoStaleShift
<1>6. PendingCells' = PendingCells
  BY <1>1 DEF PendingCells
<1>7. StalePendingIsFree'
  BY <1>1, <1>6, PendingInCells DEF IInv, StalePendingIsFree
<1> QED
  BY <1>2, <1>3, <1>4, <1>5, <1>7 DEF IInv

LEMMA HeadBackType ==
  ASSUME TypeOK, NEW freed \in SUBSET Cells
  PROVE  HeadBack(freed) \in 0 .. Size
<1>1. head \in 0 .. Size /\ freed \in SUBSET (0 .. Size)
  BY KvAssumption DEF TypeOK, Cells
<1>2. freed \in SUBSET Nat
  BY <1>1
<1>3. freed # {} => Min(freed) \in freed
  BY <1>2, MinProperties
<1>4. HeadBack(freed) = head \/ (freed # {} /\ HeadBack(freed) = Min(freed))
  BY DEF HeadBack
<1> QED
  BY <1>1, <1>3, <1>4, Zenon

LEMMA ClearKeeps == IInv /\ Clear => IInv'
<1> SUFFICES ASSUME IInv, Clear PROVE IInv'
  OBVIOUS
<1> USE KvAssumption
<1>1. pos' \in [Cells -> -1 .. MaxPos] /\ seqs' \in [Cells -> SUBSET Seqs]
  BY DEF Clear
<1>2. \A i \in Cells : pos'[i] = -1 /\ seqs'[i] = {}
  BY DEF Clear
<1>3. EmptyAgrees'
  BY <1>2 DEF EmptyAgrees
<1>4. Occupied' = {}
  BY <1>2 DEF Occupied
<1>5. UsedCount'
  BY <1>4, FS_EmptySet DEF UsedCount, Clear
<1>6. /\ Edit /\ head' \in 0 .. Size /\ used' \in 0 .. Size
      /\ delta' = delta /\ shift' = shift
  BY DEF Clear
<1>7. delta' \in [Cells -> Int] /\ shift' \in BOOLEAN
  BY <1>6 DEF IInv, TypeOK
<1>8. \A i \in Cells : delta'[i] # 0 => shift'
  BY <1>6 DEF IInv, NoStaleShift
<1> QED
  BY <1>1, <1>2, <1>3, <1>5, <1>6, <1>7, <1>8, EditKeeps

(* SeqRm and SeqKeep: cells are emptied, the shift is untouched.           *)
LEMMA FreeingEditKeeps ==
  ASSUME IInv, Edit, NEW freed \in SUBSET Cells,
         NEW s1 \in [Cells -> SUBSET Seqs],
         \A i \in Cells \ freed : pos[i] < 0 <=> s1[i] = {},
         FreeCells(freed, s1), head' = HeadBack(freed),
         UNCHANGED <<delta, shift>>
  PROVE  IInv'
<1>1. TypeOK /\ UsedCount
  BY DEF IInv
<1>2. /\ pos' \in [Cells -> -1 .. MaxPos] /\ seqs' \in [Cells -> SUBSET Seqs]
      /\ used' \in 0 .. Size /\ EmptyAgrees' /\ UsedCount'
      /\ \A i \in Cells : pos'[i] = IF i \in freed THEN -1 ELSE pos[i]
  BY <1>1, FreeCellsKeeps
<1>3. head' \in 0 .. Size
  BY <1>1, HeadBackType
<1>4. \A i \in Cells : pos[i] < 0 => pos'[i] < 0
  BY <1>2
<1>5. /\ delta' \in [Cells -> Int] /\ shift' \in BOOLEAN
      /\ \A i \in Cells : delta'[i] # 0 => shift'
  BY DEF IInv, TypeOK, NoStaleShift
<1> QED
  BY <1>2, <1>3, <1>4, <1>5, EditKeeps

LEMMA SeqRmKeeps ==
  ASSUME NEW s \in Seqs \cup {-1}, NEW p0 \in Bounds, NEW p1 \in Bounds
  PROVE  IInv /\ SeqRm(s, p0, p1) => IInv'
<1> SUFFICES ASSUME IInv, SeqRm(s, p0, p1) PROVE IInv'
  OBVIOUS
<1> DEFINE hit == {i \in Cells : InRange(pos[i], p0, p1) /\ (s < 0 \/ s \in seqs[i])}
           rest == [i \in Cells |-> IF i \notin hit THEN seqs[i]
                                    ELSE IF s < 0 THEN {} ELSE seqs[i] \ {s}]
           freed == {i \in hit : rest[i] = {}}
<1>1. rest \in [Cells -> SUBSET Seqs] /\ freed \in SUBSET Cells
  BY DEF IInv, TypeOK
<1>2. \A i \in hit : pos[i] >= 0
  BY KvAssumption DEF InRange, Bounds, IInv, TypeOK
<1>3. \A i \in Cells \ freed : pos[i] < 0 <=> rest[i] = {}
  BY <1>2, KvAssumption DEF IInv, EmptyAgrees, TypeOK
<1>4. /\ Edit /\ FreeCells(freed, rest) /\ head' = HeadBack(freed)
      /\ UNCHANGED <<delta, shift>>
  BY DEF SeqRm
<1> HIDE DEF freed, rest
<1> QED
  BY <1>1, <1>3, <1>4, FreeingEditKeeps

LEMMA SeqKeepKeeps ==
  ASSUME NEW s \in Seqs
  PROVE  IInv /\ SeqKeep(s) => IInv'
<1> SUFFICES ASSUME IInv, SeqKeep(s) PROVE IInv'
  OBVIOUS
<1> DEFINE freed == {i \in Cells : s \notin seqs[i]}
           kept == [i \in Cells |-> {s}]
<1>1. kept \in [Cells -> SUBSET Seqs] /\ freed \in SUBSET Cells
  OBVIOUS
<1>2. \A i \in Cells \ freed : pos[i] < 0 <=> kept[i] = {}
  BY DEF IInv, EmptyAgrees
<1>3. /\ Edit /\ FreeCells(freed, kept) /\ head' = HeadBack(freed)
      /\ UNCHANGED <<delta, shift>>
  BY DEF SeqKeep
<1> HIDE DEF freed, kept
<1> QED
  BY <1>1, <1>2, <1>3, FreeingEditKeeps

LEMMA SeqCpKeeps ==
  ASSUME NEW s \in Seqs, NEW d \in Seqs, NEW p0 \in Bounds, NEW p1 \in Bounds
  PROVE  IInv /\ SeqCp(s, d, p0, p1) => IInv'
<1> SUFFICES ASSUME IInv, SeqCp(s, d, p0, p1) PROVE IInv'
  OBVIOUS
<1>1. /\ Edit /\ head' = 0 /\ pos' = pos /\ used' = used
      /\ delta' = delta /\ shift' = shift
  BY DEF SeqCp
<1>2. seqs' \in [Cells -> SUBSET Seqs]
  BY DEF SeqCp, IInv, TypeOK
<1>3. \A i \in Cells : seqs'[i] = {} <=> seqs[i] = {}
  BY DEF SeqCp
<1>4. EmptyAgrees' /\ UsedCount'
  BY <1>1, <1>3 DEF IInv, EmptyAgrees, UsedCount, Occupied
<1>5. /\ pos' \in [Cells -> -1 .. MaxPos] /\ delta' \in [Cells -> Int]
      /\ shift' \in BOOLEAN /\ head' \in 0 .. Size /\ used' \in 0 .. Size
      /\ \A i \in Cells : delta'[i] # 0 => shift'
  BY <1>1, KvAssumption DEF IInv, TypeOK, NoStaleShift
<1> QED
  BY <1>1, <1>2, <1>4, <1>5, EditKeeps

LEMMA SeqAddKeeps ==
  ASSUME NEW s \in Seqs, NEW p0 \in Bounds, NEW p1 \in Bounds, NEW k \in Deltas
  PROVE  IInv /\ SeqAdd(s, p0, p1, k) => IInv'
<1> SUFFICES ASSUME IInv, SeqAdd(s, p0, p1, k) PROVE IInv'
  OBVIOUS
<1> DEFINE hit == Shifted(s, p0, p1)
           freed == {i \in hit : pos[i] + k < 0}
<1>1. k \in Int /\ MaxPos \in Nat /\ Size \in Nat
  BY KvAssumption
<1>2. hit \subseteq Cells /\ \A i \in hit : pos[i] >= 0 /\ seqs[i] # {}
  BY KvAssumption DEF Shifted, InRange, Bounds, IInv, TypeOK
<1>3. /\ Edit
      /\ \A i \in hit : pos[i] + k <= MaxPos
      /\ pos' = [i \in Cells |-> IF i \in freed THEN -1
                                 ELSE IF i \in hit THEN pos[i] + k ELSE pos[i]]
      /\ seqs' = [i \in Cells |-> IF i \in freed THEN {} ELSE seqs[i]]
      /\ delta' = [i \in Cells |-> IF i \in hit THEN delta[i] + k ELSE delta[i]]
      /\ used' = used - Cardinality({i \in freed : seqs[i] # {}})
      /\ shift' = (shift \/ hit # {})
      /\ head' = IF freed = {} THEN 0 ELSE Min(freed)
  BY DEF SeqAdd
<1> HIDE DEF hit
<1>4. pos' \in [Cells -> -1 .. MaxPos] /\ seqs' \in [Cells -> SUBSET Seqs]
  BY <1>1, <1>2, <1>3 DEF IInv, TypeOK
<1>5. EmptyAgrees'
  BY <1>1, <1>2, <1>3 DEF IInv, TypeOK, EmptyAgrees
<1>6. freed \in SUBSET Cells
      /\ \A i \in Cells : pos'[i] >= 0 <=> pos[i] >= 0 /\ i \notin freed
  BY <1>1, <1>2, <1>3 DEF IInv, TypeOK
<1>7. {i \in freed : seqs[i] # {}} = {i \in freed : pos[i] >= 0}
  BY <1>2
<1> HIDE DEF freed
<1>8. UsedCount'
  <2>1. Cardinality({i \in Cells : pos'[i] >= 0})
          = Cardinality({i \in Cells : pos[i] >= 0})
            - Cardinality({i \in freed : pos[i] >= 0})
    BY <1>6, FreeCount
  <2>2. used' = used - Cardinality({i \in freed : pos[i] >= 0})
    BY <1>3, <1>7, Zenon
  <2> QED
    BY <2>1, <2>2 DEF IInv, UsedCount, Occupied
<1>9. used' \in 0 .. Size
  BY <1>8, OccupiedBound DEF UsedCount, Occupied
<1>10. head' \in 0 .. Size
  <2>1. CASE freed = {}
    BY <1>1, <1>3, <2>1
  <2>2. CASE freed # {}
    <3>1. freed \in SUBSET Nat
      BY <1>6 DEF Cells
    <3>2. Min(freed) \in freed
      BY <2>2, <3>1, MinProperties
    <3> QED
      BY <1>1, <1>3, <1>6, <2>2, <3>2 DEF Cells
  <2> QED
    BY <2>1, <2>2
<1>11. /\ delta' \in [Cells -> Int] /\ shift' \in BOOLEAN
       /\ \A i \in Cells : delta'[i] # 0 => shift'
  <2>1. delta' \in [Cells -> Int]
    BY <1>1, <1>3 DEF IInv, TypeOK
  <2>2. \A i \in Cells : delta'[i] # 0 => delta[i] # 0 \/ hit # {}
    BY <1>1, <1>3 DEF IInv, TypeOK
  <2> QED
    BY <1>3, <2>1, <2>2, Zenon DEF IInv, TypeOK, NoStaleShift
<1>12. \A i \in Cells : pos[i] < 0 => pos'[i] < 0
  BY <1>1, <1>4, <1>6 DEF IInv, TypeOK
<1> QED
  BY <1>3, <1>4, <1>5, <1>8, <1>9, <1>10, <1>11, <1>12, EditKeeps

LEMMA SeqDivKeeps ==
  ASSUME NEW s \in Seqs, NEW p0 \in Bounds, NEW p1 \in Bounds, NEW k \in Divs
  PROVE  IInv /\ SeqDiv(s, p0, p1, k) => IInv'
<1> SUFFICES ASSUME IInv, SeqDiv(s, p0, p1, k) PROVE IInv'
  OBVIOUS
<1> DEFINE hit == Shifted(s, p0, p1)
<1>1. k \in Nat /\ k >= 2 /\ MaxPos \in Nat
  BY KvAssumption
<1>2. hit \subseteq Cells /\ \A i \in hit : pos[i] >= 0
  BY KvAssumption DEF Shifted, InRange, Bounds, IInv, TypeOK
<1>3. /\ Edit
      /\ pos' = [i \in Cells |-> IF i \in hit THEN pos[i] \div k ELSE pos[i]]
      /\ delta' = [i \in Cells |-> IF i \in hit
                                   THEN delta[i] + (pos[i] \div k - pos[i]) ELSE delta[i]]
      /\ shift' = (shift \/ hit # {})
      /\ seqs' = seqs /\ used' = used /\ head' = head
  BY DEF SeqDiv
<1>4. \A n \in Nat : n \div k \in Nat /\ n \div k <= n
  BY <1>1
<1> HIDE DEF hit
<1>5. pos' \in [Cells -> -1 .. MaxPos]
      /\ \A i \in Cells : pos'[i] < 0 <=> pos[i] < 0
  BY <1>1, <1>2, <1>3, <1>4 DEF IInv, TypeOK
<1>6. EmptyAgrees'
  BY <1>3, <1>5 DEF IInv, EmptyAgrees
<1>7. Occupied' = Occupied
  BY <1>1, <1>5 DEF Occupied, IInv, TypeOK
<1>8. UsedCount'
  BY <1>3, <1>7 DEF IInv, UsedCount
<1>9. \A i \in hit : pos[i] \div k \in Int /\ pos[i] \in Int
  BY <1>1, <1>2, <1>4 DEF IInv, TypeOK
<1>10. /\ delta' \in [Cells -> Int] /\ shift' \in BOOLEAN
       /\ \A i \in Cells : delta'[i] # 0 => shift'
  <2>1. delta' \in [Cells -> Int]
    BY <1>3, <1>9 DEF IInv, TypeOK
  <2>2. \A i \in Cells : delta'[i] # 0 => delta[i] # 0 \/ hit # {}
    BY <1>3, <1>9 DEF IInv, TypeOK
  <2> QED
    BY <1>3, <2>1, <2>2, Zenon DEF IInv, TypeOK, NoStaleShift
<1>11. /\ seqs' \in [Cells -> SUBSET Seqs] /\ used' \in 0 .. Size
       /\ head' \in 0 .. Size
  BY <1>3 DEF IInv, TypeOK
<1> QED
  BY <1>3, <1>5, <1>6, <1>8, <1>10, <1>11, EditKeeps

-----------------------------------------------------------------------------
(* The steps of llama_decode.                                              *)

(* A batch that ends with its cells given back.                            *)
LEMMA RestoreKeeps ==
  ASSUME IInv, NEW h \in 0 .. Size, NEW r \in {"no_slot", "error"},
         Restore(h), EndBatch(r)
  PROVE  IInv'
<1>1. TypeOK /\ PendingOK /\ EmptyAgrees /\ UsedCount
  BY DEF IInv
<1>2. /\ FreeCells(PendingCells, seqs)
      /\ delta' = delta /\ shift' = shift /\ pending' = pending
  BY DEF Restore
<1>3. PendingCells \in SUBSET Cells
  BY <1>1, PendingInCells
<1>4. seqs \in [Cells -> SUBSET Seqs]
      /\ \A i \in Cells \ PendingCells : pos[i] < 0 <=> seqs[i] = {}
  BY <1>1 DEF TypeOK, EmptyAgrees
<1>5. /\ pos' \in [Cells -> -1 .. MaxPos] /\ seqs' \in [Cells -> SUBSET Seqs]
      /\ used' \in 0 .. Size /\ EmptyAgrees' /\ UsedCount'
      /\ \A i \in Cells : pos'[i] = IF i \in PendingCells THEN -1 ELSE pos[i]
  BY <1>1, <1>2, <1>3, <1>4, FreeCellsKeeps
<1>6. head' \in 0 .. Size
  <2> DEFINE starts == {q[1] : q \in pending}
  <2>1. starts \in SUBSET (0 .. Size) /\ (pending # {} => starts # {})
    BY <1>1 DEF TypeOK
  <2>2. \/ head' = h
        \/ pending # {} /\ head' = Min(starts)
    BY DEF Restore
  <2> HIDE DEF starts
  <2>3. starts \in SUBSET Nat
    BY <2>1
  <2>4. starts # {} => Min(starts) \in starts
    BY <2>3, MinProperties
  <2> QED
    BY <2>1, <2>2, <2>4, Zenon
<1>7. /\ phase' = "idle" /\ ret' = r
      /\ sid' = 0 /\ next' = 0 /\ left' = 0 /\ width' = 0 /\ tested' = 0
  BY DEF EndBatch
<1>8. TypeOK'
  BY <1>1, <1>2, <1>5, <1>6, <1>7, KvAssumption DEF TypeOK
<1>9. BatchOK' /\ SearchSkipsNoSlot'
  BY <1>7 DEF BatchOK, SearchSkipsNoSlot
<1>10. PendingOK'
  BY <1>1, <1>2 DEF PendingOK
<1>11. NoStaleShift'
  BY <1>2, <1>7 DEF IInv, NoStaleShift
<1>12. PendingCells' = PendingCells
  BY <1>2 DEF PendingCells
<1>13. \A i \in PendingCells : pos'[i] < 0
  BY <1>3, <1>5
<1>14. StalePendingIsFree'
  BY <1>12, <1>13 DEF StalePendingIsFree
<1> QED
  BY <1>5, <1>8, <1>9, <1>10, <1>11, <1>14 DEF IInv

(* Entering find_slot starts a search that has refuted nothing.            *)
LEMMA EnterSearchKeeps ==
  ASSUME TypeOK, NEW w \in 1 .. NUBatch, NEW u, EnterSearch(w, u)
  PROVE  /\ phase' = "search" /\ width' = w /\ tested' = 0
         /\ head' \in 0 .. Size /\ SearchSkipsNoSlot'
<1>1. phase' = "search" /\ width' = w /\ tested' = 0
  BY DEF EnterSearch
<1>2. head' \in 0 .. Size
  BY KvAssumption DEF EnterSearch, TypeOK
<1>3. Refuted' = head' - tested' .. head' - 1
  BY <1>1, <1>2 DEF Refuted
<1>4. \A n \in Int : n - 0 .. n - 1 = {}
  OBVIOUS
<1>5. head' \in Int
  BY <1>2, KvAssumption
<1>6. Refuted' = {}
  BY <1>1, <1>3, <1>4, <1>5, Zenon
<1> QED
  BY <1>1, <1>2, <1>6 DEF SearchSkipsNoSlot

LEMMA DecodeKeeps ==
  ASSUME NEW n \in 1 .. NBatch, NEW s \in Seqs, NEW p \in 0 .. MaxPos
  PROVE  IInv /\ Decode(n, s, p) => IInv'
<1> SUFFICES ASSUME IInv, Decode(n, s, p) PROVE IInv'
  OBVIOUS
<1> DEFINE w == IF n < NUBatch THEN n ELSE NUBatch
<1>1. /\ EnterSearch(w, used) /\ p + n - 1 <= MaxPos
      /\ sid' = s /\ next' = p /\ left' = n /\ ret' = "none"
      /\ pos' = pos /\ seqs' = seqs /\ used' = used /\ pending' = pending
      /\ delta' = (IF shift THEN [i \in Cells |-> 0] ELSE delta) /\ shift' = FALSE
  BY DEF Decode
<1>2. w \in 1 .. NUBatch /\ w <= n
  BY KvAssumption
<1> HIDE DEF w
<1>3. /\ phase' = "search" /\ width' = w /\ tested' = 0
      /\ head' \in 0 .. Size /\ SearchSkipsNoSlot'
  BY <1>1, <1>2, EnterSearchKeeps DEF IInv
<1>4. delta' \in [Cells -> Int] /\ NoStaleShift'
  <2>1. CASE shift
    <3>1. delta' = [i \in Cells |-> 0]
      BY <1>1, <2>1
    <3> QED
      BY <3>1 DEF NoStaleShift
  <2>2. CASE ~ shift
    <3>1. delta' = delta
      BY <1>1, <2>2
    <3> QED
      BY <2>2, <3>1 DEF IInv, TypeOK, NoStaleShift
  <2> QED
    BY <2>1, <2>2
<1>5. TypeOK'
  <2>1. /\ pos' \in [Cells -> -1 .. MaxPos] /\ seqs' \in [Cells -> SUBSET Seqs]
        /\ used' \in 0 .. Size /\ pending' \subseteq (0 .. Size) \X (0 .. Size)
    BY <1>1 DEF IInv, TypeOK
  <2>2. left' \in 0 .. NBatch /\ width' \in 0 .. NUBatch /\ tested' \in Nat
    BY <1>1, <1>2, <1>3, KvAssumption
  <2>3. /\ shift' \in BOOLEAN /\ sid' \in Seqs \cup {0} /\ next' \in 0 .. MaxPos
        /\ ret' \in {"none", "ok", "no_slot", "error"}
        /\ phase' \in {"idle", "search", "compute"}
    BY <1>1, <1>3, Zenon
  <2> QED
    BY <1>3, <1>4, <2>1, <2>2, <2>3, Zenon DEF TypeOK
<1>6. BatchOK'
  BY <1>1, <1>2, <1>3 DEF BatchOK
<1>7. PendingOK' /\ EmptyAgrees' /\ UsedCount' /\ StalePendingIsFree'
  BY <1>1, <1>3 DEF IInv, PendingOK, EmptyAgrees, UsedCount, Occupied, StalePendingIsFree
<1> QED
  BY <1>3, <1>4, <1>5, <1>6, <1>7 DEF IInv

(* A step of the search that stays in find_slot's loop.                    *)
LEMMA SearchStepKeeps ==
  ASSUME IInv, phase = "search", head' \in 0 .. Size, tested' \in Nat,
         SearchSkipsNoSlot',
         UNCHANGED <<cellVars, pending, ret, phase, sid, next, left, width>>
  PROVE  IInv'
<1>1. TypeOK'
  BY DEF IInv, TypeOK, cellVars
<1>2. BatchOK' /\ PendingOK'
  BY DEF IInv, BatchOK, PendingOK
<1>3. EmptyAgrees' /\ UsedCount' /\ NoStaleShift' /\ StalePendingIsFree'
  BY DEF IInv, EmptyAgrees, UsedCount, Occupied, NoStaleShift, StalePendingIsFree, cellVars
<1> QED
  BY <1>1, <1>2, <1>3 DEF IInv

LEMMA SearchWrapKeeps == IInv /\ SearchWrap => IInv'
<1> SUFFICES ASSUME IInv, SearchWrap PROVE IInv'
  OBVIOUS
<1>1. /\ phase = "search" /\ width <= Size /\ ~ Fits
      /\ tested' = tested + (Size - head) /\ head' = 0
      /\ UNCHANGED <<cellVars, pending, ret, phase, sid, next, left, width>>
  BY DEF SearchWrap
<1>2. /\ head \in 0 .. Size /\ tested \in Nat /\ Size \in Nat
      /\ width \in Nat /\ head + width > Size
  BY <1>1, KvAssumption DEF IInv, TypeOK, Fits
<1>3. \A h \in Cells : h + width <= Size /\ h \in Refuted' => h \in Refuted
  BY <1>1, <1>2 DEF Refuted, Cells
<1>4. \A h : Run(h, width)' <=> Run(h, width)
  BY <1>1 DEF Run, cellVars
<1>5. SearchSkipsNoSlot'
  BY <1>1, <1>3, <1>4 DEF SearchSkipsNoSlot, IInv, Run
<1> QED
  BY <1>1, <1>2, <1>5, SearchStepKeeps

(* The first taken cell of a slot.                                         *)
LEMMA BlockerProperties ==
  ASSUME TypeOK, Fits, Blockers # {}
  PROVE  /\ Min(Blockers) \in head .. head + width - 1
         /\ Min(Blockers) \in Cells /\ pos[Min(Blockers)] >= 0
<1>1. Blockers \in SUBSET Nat
  BY DEF Blockers, Slot, TypeOK
<1>2. Min(Blockers) \in Blockers
  BY <1>1, MinProperties
<1>3. \A b \in Blockers : b \in head .. head + width - 1 /\ b \in Cells /\ pos[b] >= 0
  BY KvAssumption DEF Blockers, Slot, Fits, TypeOK, Cells
<1> QED
  BY <1>2, <1>3, Zenon

(* The starts up to the first taken cell of a slot are no slots either.    *)
LEMMA SkippedStarts ==
  ASSUME TypeOK, Fits, Blockers # {},
         NEW h \in head .. Min(Blockers)
  PROVE  ~ Run(h, width)
<1> DEFINE b == Min(Blockers)
<1>1. b \in head .. head + width - 1 /\ b \in Cells /\ pos[b] >= 0
  BY BlockerProperties
<1> HIDE DEF b
<1>2. head \in Nat /\ width \in Nat /\ h \in head .. b
  BY DEF TypeOK, b
<1>3. b \in Slot(h, width)
  BY <1>1, <1>2 DEF Slot
<1>4. pos[b] \in Int
  BY <1>1 DEF TypeOK
<1> QED
  BY <1>1, <1>3, <1>4 DEF Run

LEMMA SearchOnKeeps == IInv /\ SearchOn => IInv'
<1> SUFFICES ASSUME IInv, SearchOn PROVE IInv'
  OBVIOUS
<1> DEFINE b == Min(Blockers)
<1>1. /\ phase = "search" /\ Fits /\ Blockers # {}
      /\ tested' = tested + (b - head + 1) /\ head' = head + (b - head + 1)
      /\ UNCHANGED <<cellVars, pending, ret, phase, sid, next, left, width>>
  BY DEF SearchOn
<1>2. b \in head .. head + width - 1 /\ b \in Cells
  BY <1>1, BlockerProperties DEF IInv
<1>3. \A h \in head .. b : ~ Run(h, width)
  BY <1>1, SkippedStarts DEF IInv
<1> HIDE DEF b
<1>4. /\ head \in 0 .. Size /\ tested \in Nat /\ Size \in Nat /\ width \in Nat
      /\ b \in 0 .. Size - 1
  BY <1>2, KvAssumption DEF IInv, TypeOK, Cells
<1>5. \A h \in Cells : h \in Refuted' => h \in Refuted \/ h \in head .. b
  BY <1>1, <1>2, <1>4 DEF Refuted, Cells
<1>6. \A h : Run(h, width)' <=> Run(h, width)
  BY <1>1 DEF Run, cellVars
<1>7. SearchSkipsNoSlot'
  BY <1>1, <1>3, <1>5, <1>6 DEF SearchSkipsNoSlot, IInv
<1>8. head' \in 0 .. Size /\ tested' \in Nat
  BY <1>1, <1>2, <1>4
<1> QED
  BY <1>1, <1>7, <1>8, SearchStepKeeps

LEMMA SearchGivesUpKeeps == IInv /\ SearchGivesUp => IInv'
<1> SUFFICES ASSUME IInv, SearchGivesUp PROVE IInv'
  OBVIOUS
<1>1. EndBatch("no_slot")
  BY DEF SearchGivesUp
<1>2. CASE Restore(head)
  BY <1>1, <1>2, RestoreKeeps DEF IInv, TypeOK
<1>3. CASE /\ Fits /\ Blockers # {}
           /\ Restore(head + (Min(Blockers) - head + 1))
  <2> DEFINE h == head + (Min(Blockers) - head + 1)
  <2>1. Min(Blockers) \in Cells
    BY <1>3, BlockerProperties DEF IInv
  <2>2. h \in 0 .. Size
    BY <2>1, KvAssumption DEF IInv, TypeOK, Cells
  <2> QED
    BY <1>1, <1>3, <2>2, RestoreKeeps
<1> QED
  BY <1>2, <1>3 DEF SearchGivesUp

LEMMA TakeSlotKeeps == IInv /\ TakeSlot => IInv'
<1> SUFFICES ASSUME IInv, TakeSlot PROVE IInv'
  OBVIOUS
<1>1. /\ phase = "search" /\ Fits /\ Blockers = {}
      /\ pos' = [i \in Cells |-> IF i \in Slot(head, width)
                                 THEN next + (i - head) ELSE pos[i]]
      /\ seqs' = [i \in Cells |-> IF i \in Slot(head, width)
                                  THEN seqs[i] \cup {sid} ELSE seqs[i]]
      /\ used' = used + width
      /\ pending' = pending \cup {<<head, head + width>>}
      /\ phase' = "compute"
      /\ UNCHANGED <<delta, shift, head, sid, next, left, width, tested, ret>>
  BY DEF TakeSlot
<1>2. /\ head \in 0 .. Size /\ width \in Nat /\ width >= 1 /\ head + width <= Size
      /\ left \in Nat /\ width <= left /\ next \in 0 .. MaxPos
      /\ next + left - 1 <= MaxPos /\ sid \in Seqs
      /\ Size \in Nat /\ MaxPos \in Nat
  BY <1>1, KvAssumption DEF IInv, TypeOK, BatchOK, Fits
<1>3. \A i \in Slot(head, width) : i \in Cells /\ ~ (pos[i] >= 0)
  <2>1. \A i \in Slot(head, width) : ~ (pos[i] >= 0)
    BY <1>1, Zenon DEF Blockers
  <2>2. \A i \in Slot(head, width) : i \in Cells
    BY <1>2 DEF Slot, Cells
  <2> QED
    BY <2>1, <2>2
<1>4. \A i \in Slot(head, width) : next + (i - head) \in 0 .. MaxPos
  BY <1>2 DEF Slot
<1>5. pos' \in [Cells -> -1 .. MaxPos] /\ seqs' \in [Cells -> SUBSET Seqs]
  BY <1>1, <1>2, <1>4 DEF IInv, TypeOK
<1>6. EmptyAgrees'
  <2>1. ASSUME NEW i \in Cells, i \in Slot(head, width)
        PROVE  pos'[i] >= 0 /\ seqs'[i] # {}
    <3>1. pos'[i] = next + (i - head) /\ seqs'[i] = seqs[i] \cup {sid}
      BY <1>1, <2>1
    <3> QED
      BY <1>4, <2>1, <3>1
  <2>2. ASSUME NEW i \in Cells, i \notin Slot(head, width)
        PROVE  pos'[i] = pos[i] /\ seqs'[i] = seqs[i]
    BY <1>1, <2>2
  <2>3. \A i \in Cells : pos'[i] \in Int
    BY <1>5
  <2> QED
    BY <2>1, <2>2, <2>3 DEF IInv, EmptyAgrees
<1>7. \A i \in Cells : pos'[i] >= 0 <=> pos[i] >= 0 \/ i \in Slot(head, width)
  BY <1>1, <1>4
<1>8. UsedCount'
  <2>1. head \in Nat
    BY <1>2
  <2>2. Cardinality({i \in Cells : pos'[i] >= 0})
          = Cardinality({i \in Cells : pos[i] >= 0}) + width
    BY <1>2, <1>3, <1>7, <2>1, TakeCount
  <2> QED
    BY <1>1, <2>2 DEF IInv, UsedCount, Occupied
<1>9. used' \in 0 .. Size
  BY <1>8, OccupiedBound DEF UsedCount, Occupied
<1>10. pending' \subseteq (0 .. Size) \X (0 .. Size)
  BY <1>1, <1>2 DEF IInv, TypeOK
<1>11. TypeOK'
  BY <1>1, <1>5, <1>9, <1>10 DEF IInv, TypeOK
<1>12. BatchOK'
  BY <1>1 DEF IInv, BatchOK
<1>13. PendingOK'
  BY <1>1, <1>2 DEF IInv, PendingOK
<1>14. NoStaleShift'
  BY <1>1 DEF IInv, NoStaleShift
<1>15. StalePendingIsFree' /\ SearchSkipsNoSlot'
  BY <1>1 DEF StalePendingIsFree, SearchSkipsNoSlot
<1> QED
  BY <1>6, <1>8, <1>11, <1>12, <1>13, <1>14, <1>15 DEF IInv

LEMMA NextUBatchKeeps == IInv /\ NextUBatch => IInv'
<1> SUFFICES ASSUME IInv, NextUBatch PROVE IInv'
  OBVIOUS
<1> DEFINE w == IF left - width < NUBatch THEN left - width ELSE NUBatch
<1>1. /\ phase = "compute" /\ left > width
      /\ left' = left - width /\ next' = next + width
      /\ EnterSearch(w, used)
      /\ UNCHANGED <<cellVars, pending, sid, ret>>
  BY DEF NextUBatch
<1>2. /\ left \in 0 .. NBatch /\ width \in Nat /\ width >= 1 /\ left > width
      /\ next \in 0 .. MaxPos /\ next + left - 1 <= MaxPos /\ sid \in Seqs
      /\ NUBatch \in Nat /\ NUBatch >= 1 /\ NBatch \in Nat /\ MaxPos \in Nat
  BY <1>1, KvAssumption DEF IInv, TypeOK, BatchOK
<1>3. w \in 1 .. NUBatch /\ w <= left - width
  BY <1>2
<1> HIDE DEF w
<1>4. /\ phase' = "search" /\ width' = w /\ tested' = 0
      /\ head' \in 0 .. Size /\ SearchSkipsNoSlot'
  BY <1>1, <1>3, EnterSearchKeeps DEF IInv
<1>5. left' \in 0 .. NBatch /\ next' \in 0 .. MaxPos /\ width' \in 0 .. NUBatch
      /\ next' + left' - 1 <= MaxPos /\ width' <= left' /\ width' >= 1
  BY <1>1, <1>2, <1>3, <1>4
<1>6. TypeOK'
  BY <1>1, <1>4, <1>5 DEF IInv, TypeOK, cellVars
<1>7. BatchOK'
  BY <1>1, <1>2, <1>5 DEF BatchOK
<1>8. PendingOK'
  BY <1>1 DEF IInv, PendingOK
<1>9. EmptyAgrees' /\ UsedCount' /\ NoStaleShift' /\ StalePendingIsFree'
  BY <1>1, <1>4
     DEF IInv, EmptyAgrees, UsedCount, Occupied, NoStaleShift, StalePendingIsFree, cellVars
<1> QED
  BY <1>4, <1>6, <1>7, <1>8, <1>9 DEF IInv

LEMMA CommitKeeps == IInv /\ Commit => IInv'
<1> SUFFICES ASSUME IInv, Commit PROVE IInv'
  OBVIOUS
<1>1. /\ phase = "compute" /\ pending' = {} /\ EndBatch("ok")
      /\ UNCHANGED <<cellVars, head>>
  BY DEF Commit
<1>2. /\ phase' = "idle" /\ ret' = "ok"
      /\ sid' = 0 /\ next' = 0 /\ left' = 0 /\ width' = 0 /\ tested' = 0
  BY <1>1 DEF EndBatch
<1>3. TypeOK'
  BY <1>1, <1>2, KvAssumption DEF IInv, TypeOK, cellVars
<1>4. BatchOK' /\ SearchSkipsNoSlot'
  BY <1>2 DEF BatchOK, SearchSkipsNoSlot
<1>5. PendingOK'
  BY <1>1 DEF PendingOK
<1>6. PendingCells' = {}
  BY <1>1 DEF PendingCells
<1>7. StalePendingIsFree'
  BY <1>6 DEF StalePendingIsFree
<1>8. EmptyAgrees' /\ UsedCount' /\ NoStaleShift'
  BY <1>1, <1>2 DEF IInv, EmptyAgrees, UsedCount, Occupied, NoStaleShift, cellVars
<1> QED
  BY <1>3, <1>4, <1>5, <1>7, <1>8 DEF IInv

-----------------------------------------------------------------------------
(* The invariant is inductive.                                             *)

LEMMA InitIInv == Init => IInv
<1> SUFFICES ASSUME Init PROVE IInv
  OBVIOUS
<1> USE KvAssumption
<1>1. Occupied = {}
  BY DEF Init, Occupied
<1>2. UsedCount
  BY <1>1, FS_EmptySet DEF Init, UsedCount
<1>3. TypeOK
  <2>1. shift \in BOOLEAN
    BY Zenon DEF Init
  <2>2. /\ pos \in [Cells -> -1 .. MaxPos] /\ delta \in [Cells -> Int]
        /\ seqs \in [Cells -> SUBSET Seqs]
    BY DEF Init
  <2>3. /\ head \in 0 .. Size /\ used \in 0 .. Size /\ tested \in Nat
        /\ sid \in Seqs \cup {0} /\ next \in 0 .. MaxPos
        /\ left \in 0 .. NBatch /\ width \in 0 .. NUBatch
    BY DEF Init
  <2>4. /\ pending \subseteq (0 .. Size) \X (0 .. Size)
        /\ phase \in {"idle", "search", "compute"}
        /\ ret \in {"none", "ok", "no_slot", "error"}
    BY DEF Init
  <2> QED
    BY <2>1, <2>2, <2>3, <2>4, Zenon DEF TypeOK
<1>4. BatchOK /\ SearchSkipsNoSlot
  BY DEF Init, BatchOK, SearchSkipsNoSlot
<1>5. PendingOK /\ PendingCells = {}
  BY DEF Init, PendingOK, PendingCells
<1>6. StalePendingIsFree /\ NoStaleShift /\ EmptyAgrees
  BY <1>5 DEF Init, StalePendingIsFree, NoStaleShift, EmptyAgrees
<1> QED
  BY <1>2, <1>3, <1>4, <1>5, <1>6 DEF IInv

LEMMA NextIInv == IInv /\ [Next]_vars => IInv'
<1> SUFFICES ASSUME IInv, [Next]_vars PROVE IInv'
  OBVIOUS
<1>1. CASE Edits
  BY <1>1, ClearKeeps, SeqRmKeeps, SeqCpKeeps, SeqKeepKeeps, SeqAddKeeps, SeqDivKeeps
     DEF Edits
<1>2. CASE DecodeEmpty
  <2>1. /\ phase = "idle" /\ phase' = "idle" /\ ret' = "error"
        /\ UNCHANGED <<cellVars, batchVars, head, pending>>
    BY <1>2 DEF DecodeEmpty, batchVars
  <2>2. TypeOK'
    BY <2>1 DEF IInv, TypeOK, cellVars, batchVars
  <2>3. BatchOK' /\ SearchSkipsNoSlot'
    BY <2>1 DEF BatchOK, SearchSkipsNoSlot
  <2>4. PendingOK' /\ PendingCells' = PendingCells
    BY <2>1 DEF IInv, PendingOK, PendingCells
  <2>5. EmptyAgrees' /\ UsedCount' /\ NoStaleShift' /\ StalePendingIsFree'
    BY <2>1, <2>4
       DEF IInv, EmptyAgrees, UsedCount, Occupied, NoStaleShift, StalePendingIsFree, cellVars
  <2> QED
    BY <2>2, <2>3, <2>4, <2>5 DEF IInv
<1>3. CASE DecodeRejected
  BY <1>3, RestoreKeeps DEF DecodeRejected, IInv, TypeOK
<1>4. CASE \E n \in 1 .. NBatch, s \in Seqs, p \in 0 .. MaxPos : Decode(n, s, p)
  BY <1>4, DecodeKeeps
<1>5. CASE SearchWrap \/ SearchOn \/ SearchGivesUp
  BY <1>5, SearchWrapKeeps, SearchOnKeeps, SearchGivesUpKeeps
<1>6. CASE TakeSlot \/ NextUBatch \/ Commit
  BY <1>6, TakeSlotKeeps, NextUBatchKeeps, CommitKeeps
<1>7. CASE ComputeFails
  BY <1>7, RestoreKeeps DEF ComputeFails, IInv, TypeOK
<1>8. CASE UNCHANGED vars
  <2>1. UNCHANGED <<pos, delta, seqs, used, shift, phase, sid, next, left, width,
                    tested, head, pending, ret>>
    BY <1>8 DEF vars, cellVars, batchVars
  <2>2. TypeOK' /\ BatchOK' /\ PendingOK' /\ PendingCells' = PendingCells
    BY <2>1 DEF IInv, TypeOK, BatchOK, PendingOK, PendingCells
  <2>3. EmptyAgrees' /\ UsedCount' /\ NoStaleShift' /\ StalePendingIsFree'
    BY <2>1, <2>2
       DEF IInv, EmptyAgrees, UsedCount, Occupied, NoStaleShift, StalePendingIsFree
  <2>4. Refuted' = Refuted /\ \A h : Run(h, width)' <=> Run(h, width)
    BY <2>1 DEF Refuted, Run
  <2>5. SearchSkipsNoSlot'
    BY <2>1, <2>4 DEF IInv, SearchSkipsNoSlot
  <2> QED
    BY <2>2, <2>3, <2>5 DEF IInv
<1> QED
  BY <1>1, <1>2, <1>3, <1>4, <1>5, <1>6, <1>7, <1>8 DEF Next, Calls, DecodeSteps

(* The invariant holds in every state of the cache.                        *)
THEOREM CacheInvariant == Spec => []IInv
<1>1. Init => IInv
  BY InitIInv
<1>2. IInv /\ [Next]_vars => IInv'
  BY NextIInv
<1> QED
  BY <1>1, <1>2, PTL DEF Spec

(* Every variable keeps its type; in particular the counters of the cache, *)
(* unsigned in the code, never go below zero.                              *)
THEOREM TypeCorrect == Spec => []TypeOK
<1>1. IInv => TypeOK
  BY DEF IInv
<1> QED
  BY <1>1, CacheInvariant, PTL

(* The used counter is the number of occupied cells in every state.        *)
THEOREM CountersAgree == Spec => []UsedCount
<1>1. IInv => UsedCount
  BY DEF IInv
<1> QED
  BY <1>1, CacheInvariant, PTL

(* The two notions of a free cell agree: find_slot asks for the position   *)
(* of a cell, the edits for its set of sequences.                          *)
THEOREM FreeCellsAgree == Spec => []EmptyAgrees
<1>1. IInv => EmptyAgrees
  BY DEF IInv
<1> QED
  BY <1>1, CacheInvariant, PTL

(* Left-over pending ranges never cover a cell in use between batches.     *)
THEOREM StalePendingHarmless == Spec => []StalePendingIsFree
<1>1. IInv => StalePendingIsFree
  BY DEF IInv
<1> QED
  BY <1>1, CacheInvariant, PTL

(* No token is stored under the shift of an earlier occupant of its cell.  *)
THEOREM ShiftNeverStale == Spec => []NoStaleShift
<1>1. IInv => NoStaleShift
  BY DEF IInv
<1> QED
  BY <1>1, CacheInvariant, PTL

(* find_slot never jumps over a start from which the slot would fit,       *)
(* although it moves on past the first cell in its way.                    *)
THEOREM SearchIsComplete == Spec => []SearchSkipsNoSlot
<1>1. IInv => SearchSkipsNoSlot
  BY DEF IInv
<1> QED
  BY <1>1, CacheInvariant, PTL

(* When find_slot gives up, every start has been refuted.                  *)
LEMMA GivesUpRefutes ==
  ASSUME IInv, SearchGivesUp, NEW h \in Cells
  PROVE  ~ Run(h, width)
<1>1. phase = "search" /\ TypeOK
  BY DEF SearchGivesUp, IInv
<1>2. /\ head \in 0 .. Size /\ tested \in Nat /\ Size \in Nat /\ width \in Nat
      /\ h \in 0 .. Size - 1
  BY <1>1, KvAssumption DEF TypeOK, Cells
<1>3. CASE width > Size
  BY <1>2, <1>3 DEF Run
<1>4. CASE /\ Fits /\ Blockers # {}
           /\ tested + (Min(Blockers) - head + 1) >= Size
  <2> DEFINE b == Min(Blockers)
  <2>1. b \in head .. head + width - 1 /\ b \in Cells
    BY <1>1, <1>4, BlockerProperties
  <2>2. h \in head .. b => ~ Run(h, width)
    BY <1>1, <1>4, SkippedStarts
  <2> HIDE DEF b
  <2>3. tested + (b - head + 1) >= Size
    BY <1>4 DEF b
  <2>4. h \in Refuted \/ h \in head .. b
    BY <1>2, <2>1, <2>3 DEF Refuted, Cells
  <2> QED
    BY <1>1, <2>2, <2>4 DEF IInv, SearchSkipsNoSlot
<1> QED
  BY <1>3, <1>4 DEF SearchGivesUp

(* decode answers "no slot" only when no run of free cells is long enough: *)
(* find_slot is complete, wherever its search starts.                      *)
THEOREM FindSlotComplete == Spec => NoSlotOnlyIfNone
<1>1. ASSUME IInv, [Next]_vars, phase = "search", phase' = "idle"
      PROVE  \A h \in Cells : ~ Run(h, width)
  <2>1. SearchGivesUp
    BY <1>1 DEF Next, Edits, Calls, DecodeSteps, Clear, SeqRm, SeqCp, SeqKeep, SeqAdd,
       SeqDiv, Edit, DecodeEmpty, DecodeRejected, Decode, SearchWrap, SearchOn, TakeSlot,
       NextUBatch, Commit, ComputeFails, vars, batchVars
  <2> QED
    BY <1>1, <2>1, GivesUpRefutes
<1>2. IInv /\ [Next]_vars
        => [phase = "search" /\ phase' = "idle" => \A h \in Cells : ~ Run(h, width)]_vars
  BY <1>1
<1>3. Spec => []IInv
  BY CacheInvariant
<1>4. Spec => [][Next]_vars
  BY PTL DEF Spec
<1>5. []IInv /\ [][Next]_vars => NoSlotOnlyIfNone
  BY <1>2, PTL DEF NoSlotOnlyIfNone
<1> QED
  BY <1>3, <1>4, <1>5, PTL

-----------------------------------------------------------------------------
(* How far a decode is from its end.                                       *)

(* A search has not tested every cell, unless it has just wrapped.         *)
TestedOK ==
  phase = "search" => tested < Size \/ (head = 0 /\ tested < 2 * Size)

(* The work left in find_slot is positive and fits below that of one more  *)
(* token of the batch.                                                     *)
LEMMA EffortBounds ==
  ASSUME TypeOK, TestedOK, phase = "search"
  PROVE  Effort \in Int /\ 1 < Effort /\ Effort < 4 * Size + 2
<1>1. tested \in Nat /\ Size \in Nat /\ Size >= 1 /\ tested < 2 * Size
  BY KvAssumption DEF TypeOK, TestedOK
<1> QED
  BY <1>1, SMT DEF Effort

(* A batch with one token less has less left, whatever a search may take.  *)
LEMMA TokensWeigh ==
  ASSUME NEW l \in Nat, NEW w \in Nat, NEW k \in Nat, NEW e \in Int,
         w >= 1, w <= l, e < k
  PROVE  (l - w) * k + e < l * k /\ 0 <= (l - w) * k
<1>1. (l - w) * k = l * k - w * k
  BY SMT
<1>2. w * k = k + (w - 1) * k
  BY SMT
<1>3. \A a, b \in Nat : a * b >= 0 /\ a * b \in Int
  BY SMT
<1>4. w - 1 \in Nat /\ l - w \in Nat
  BY SMT
<1>5. (w - 1) * k >= 0 /\ (l - w) * k >= 0 /\ l * k \in Int /\ w * k \in Int
      /\ (w - 1) * k \in Int
  BY <1>3, <1>4
<1> QED
  BY <1>1, <1>2, <1>5, SMT

(* Every step of a decode makes its work smaller.                          *)
LEMMA StepAdvances ==
  ASSUME IInv, TestedOK, DecodeSteps
  PROVE  TestedOK' /\ 0 <= StepsLeft' /\ StepsLeft' < StepsLeft
<1> DEFINE K == 4 * Size + 2
<1>1. /\ TypeOK /\ Size \in Nat /\ Size >= 1 /\ head \in 0 .. Size /\ tested \in Nat
      /\ left \in Nat /\ width \in Nat /\ K \in Nat /\ K > 0
  BY KvAssumption DEF IInv, TypeOK
<1>2. phase \in {"search", "compute"}
  BY DEF DecodeSteps, SearchWrap, SearchOn, SearchGivesUp, TakeSlot, NextUBatch, Commit,
     ComputeFails
<1>3. width >= 1 /\ width <= left
  BY <1>2 DEF IInv, BatchOK
<1>4. left * K \in Int /\ left * K >= K
  <2>1. (left - left) * K + (K - 1) < left * K
    BY <1>1, <1>3, TokensWeigh
  <2>2. (left - left) * K = 0 /\ left * K \in Int
    BY <1>1, SMT
  <2> QED
    BY <1>1, <2>1, <2>2, SMT
<1> HIDE DEF K
<1>5. phase = "search" => /\ StepsLeft = left * K + Effort
                          /\ Effort \in Int /\ 1 < Effort /\ Effort < K
  BY <1>1, EffortBounds DEF StepsLeft, K
<1>6. phase = "compute" => StepsLeft = left * K
  <2>1. left * (4 * Size + 2) + 0 = left * (4 * Size + 2)
    BY <1>4, SMT DEF K
  <2> QED
    BY <2>1 DEF StepsLeft, K
<1>7. StepsLeft > 0 /\ StepsLeft \in Int
  BY <1>1, <1>2, <1>4, <1>5, <1>6, SMT
<1>8. ASSUME phase' = "idle" PROVE TestedOK' /\ StepsLeft' = 0
  BY <1>8 DEF TestedOK, StepsLeft
<1>9. ASSUME phase = "search", UNCHANGED <<phase, left, width>>, TestedOK', TypeOK',
             Effort' < Effort
      PROVE  0 <= StepsLeft' /\ StepsLeft' < StepsLeft
  <2>1. Effort' \in Int /\ 1 < Effort'
    <3>1. (TypeOK /\ TestedOK /\ phase = "search" => Effort \in Int /\ 1 < Effort)'
      BY EffortBounds, PTL
    <3> QED
      BY <1>9, <3>1
  <2>2. StepsLeft' = left * K + Effort'
    BY <1>9 DEF StepsLeft, K
  <2>3. StepsLeft = left * K + Effort /\ Effort \in Int /\ Effort' < Effort
    BY <1>5, <1>9
  <2>4. left * K \in Int /\ 0 <= left * K
    BY <1>1, <1>4, SMT
  <2> QED
    BY <2>1, <2>2, <2>3, <2>4, SMT
<1>10. CASE SearchWrap
  <2>1. /\ phase = "search" /\ ~ Fits /\ width <= Size
        /\ tested' = tested + (Size - head) /\ head' = 0
        /\ UNCHANGED <<cellVars, pending, ret, phase, sid, next, left, width>>
    BY <1>10 DEF SearchWrap
  <2>2. head + width > Size /\ tested < Size
    BY <1>1, <2>1, SMT DEF Fits, TestedOK
  <2>3. TestedOK'
    BY <1>1, <1>3, <2>1, <2>2, SMT DEF TestedOK
  <2>4. Fits'
    BY <1>1, <2>1, SMT DEF Fits
  <2>5. Effort' < Effort
    BY <1>1, <2>1, <2>4, SMT DEF Effort
  <2>6. IInv'
    BY <1>10, SearchWrapKeeps
  <2> QED
    BY <1>9, <2>1, <2>3, <2>5, <2>6 DEF IInv
<1>11. CASE SearchOn
  <2> DEFINE b == Min(Blockers)
  <2>1. /\ phase = "search" /\ Fits /\ Blockers # {}
        /\ tested + (b - head + 1) < Size
        /\ tested' = tested + (b - head + 1)
        /\ UNCHANGED <<cellVars, pending, ret, phase, sid, next, left, width>>
    BY <1>11 DEF SearchOn
  <2>2. b \in head .. head + width - 1
    BY <1>1, <2>1, BlockerProperties
  <2> HIDE DEF b
  <2>3. tested' < Size /\ tested' >= tested + 1 /\ tested' \in Int
    BY <1>1, <2>1, <2>2, SMT
  <2>4. TestedOK'
    BY <2>3 DEF TestedOK
  <2>5. Effort' < Effort
    BY <1>1, <2>1, <2>3, SMT DEF Effort
  <2>6. IInv'
    BY <1>11, SearchOnKeeps
  <2> QED
    BY <1>9, <2>1, <2>4, <2>5, <2>6 DEF IInv
<1>12. CASE TakeSlot
  <2>1. phase = "search" /\ phase' = "compute" /\ left' = left
    BY <1>12 DEF TakeSlot
  <2>2. StepsLeft' = left * K
    <3>1. left * (4 * Size + 2) + 0 = left * (4 * Size + 2)
      BY <1>4, SMT DEF K
    <3> QED
      BY <2>1, <3>1 DEF StepsLeft, K
  <2>3. TestedOK'
    BY <2>1 DEF TestedOK
  <2> QED
    BY <1>1, <1>4, <1>5, <2>1, <2>2, <2>3, SMT
<1>13. CASE NextUBatch
  <2> DEFINE w == IF left - width < NUBatch THEN left - width ELSE NUBatch
  <2>1. phase = "compute" /\ left' = left - width /\ EnterSearch(w, used)
    BY <1>13 DEF NextUBatch
  <2>2. phase' = "search" /\ tested' = 0
    BY <2>1 DEF EnterSearch
  <2>3. TestedOK'
    BY <1>1, <2>2, SMT DEF TestedOK
  <2>4. IInv'
    BY <1>13, NextUBatchKeeps
  <2>5. Effort' \in Int /\ 1 < Effort' /\ Effort' < K
    <3>1. (TypeOK /\ TestedOK /\ phase = "search"
             => Effort \in Int /\ 1 < Effort /\ Effort < 4 * Size + 2)'
      BY EffortBounds, PTL
    <3> QED
      BY <2>2, <2>3, <2>4, <3>1 DEF IInv, K
  <2>6. StepsLeft' = (left - width) * K + Effort'
    BY <2>1, <2>2 DEF StepsLeft, K
  <2>7. (left - width) * K + Effort' < left * K /\ 0 <= (left - width) * K
    BY <1>1, <1>3, <2>5, TokensWeigh
  <2>8. (left - width) * K \in Int
    BY <1>1, SMT
  <2> QED
    BY <1>6, <2>1, <2>3, <2>5, <2>6, <2>7, <2>8, SMT
<1>14. CASE SearchGivesUp \/ Commit \/ ComputeFails
  <2>1. phase' = "idle"
    BY <1>14 DEF SearchGivesUp, Commit, ComputeFails, EndBatch
  <2> QED
    BY <1>7, <1>8, <2>1, SMT
<1> QED
  BY <1>10, <1>11, <1>12, <1>13, <1>14 DEF DecodeSteps

(* Sequences are edited between batches only.                              *)
LEMMA EditsBetween == ASSUME Edits PROVE Edit
<1>1. Clear => Edit
  BY DEF Clear
<1>2. ASSUME NEW s, NEW p0, NEW p1, SeqRm(s, p0, p1) PROVE Edit
  BY <1>2 DEF SeqRm
<1>3. ASSUME NEW s, NEW d, NEW p0, NEW p1, SeqCp(s, d, p0, p1) PROVE Edit
  BY <1>3 DEF SeqCp
<1>4. ASSUME NEW s, SeqKeep(s) PROVE Edit
  BY <1>4 DEF SeqKeep
<1>5. ASSUME NEW s, NEW p0, NEW p1, NEW k, SeqAdd(s, p0, p1, k) PROVE Edit
  BY <1>5 DEF SeqAdd
<1>6. ASSUME NEW s, NEW p0, NEW p1, NEW k, SeqDiv(s, p0, p1, k) PROVE Edit
  BY <1>6 DEF SeqDiv
<1> QED
  BY <1>1, <1>2, <1>3, <1>4, <1>5, <1>6, Zenon DEF Edits

(* A decode begins with nothing tested.                                    *)
LEMMA DecodeStarts ==
  ASSUME NEW n, NEW s, NEW p, Decode(n, s, p)
  PROVE  TestedOK'
<1>1. tested' = 0
  BY DEF Decode, EnterSearch
<1> QED
  BY <1>1, KvAssumption, SMT DEF TestedOK

(* find_slot's endless loop ends and so does llama_decode: there is a      *)
(* number that every one of their steps makes smaller, for every size of   *)
(* the cache, the batch and the ubatch.                                    *)
THEOREM DecodeEnds == Spec => DecodeAdvances
<1> DEFINE Inv == IInv /\ TestedOK
<1>1. Init => Inv
  BY InitIInv DEF Init, TestedOK
<1>2. ASSUME Inv, [Next]_vars
      PROVE  /\ TestedOK'
             /\ phase # "idle" => UNCHANGED vars \/ (0 <= StepsLeft' /\ StepsLeft' < StepsLeft)
  <2>1. CASE DecodeSteps
    BY <1>2, <2>1, StepAdvances
  <2>2. CASE Edits
    <3>1. Edit
      BY <2>2, EditsBetween
    <3> QED
      BY <3>1 DEF Edit, batchVars, TestedOK
  <2>3. CASE DecodeEmpty \/ DecodeRejected
    <3>1. phase = "idle" /\ phase' = "idle"
      BY <2>3 DEF DecodeEmpty, DecodeRejected, EndBatch, batchVars
    <3> QED
      BY <3>1 DEF TestedOK
  <2>4. ASSUME NEW n, NEW s, NEW p, Decode(n, s, p)
        PROVE  TestedOK' /\ phase = "idle"
    BY <2>4, DecodeStarts DEF Decode
  <2>5. CASE UNCHANGED vars
    BY <1>2, <2>5 DEF TestedOK, vars, batchVars
  <2> QED
    BY <1>2, <2>1, <2>2, <2>3, <2>4, <2>5 DEF Next, Calls
<1>3. Inv /\ [Next]_vars => Inv'
  BY <1>2, NextIInv
<1>4. Inv /\ [Next]_vars
        => [phase # "idle" => 0 <= StepsLeft' /\ StepsLeft' < StepsLeft]_vars
  BY <1>2
<1> HIDE DEF Inv
<1>5. Spec => []Inv /\ [][Next]_vars
  BY <1>1, <1>3, PTL DEF Spec
<1>6. []Inv /\ [][Next]_vars => DecodeAdvances
  BY <1>4, PTL DEF DecodeAdvances
<1> QED
  BY <1>5, <1>6, PTL
=============================================================================
