--------------------------- MODULE KvDefragProofs ---------------------------
(***************************************************************************)
(* Proofs about KvDefrag for every size of the cache and every bound on    *)
(* the moves of a pass.  The cells a pass moves are found by counting:     *)
(* the first part is about the counts, the second about the cells.         *)
(***************************************************************************)
EXTENDS KvDefrag, KvCacheProofs

-----------------------------------------------------------------------------
(* Counting the elements above or below one of a set of cells.             *)

LEMMA CellSet ==
  ASSUME NEW M \in SUBSET Cells
  PROVE  /\ M \in SUBSET Nat /\ IsFiniteSet(M) /\ Cardinality(M) \in Nat
         /\ Cardinality(M) <= Size
<1>1. M \in SUBSET Nat
  BY KvAssumption DEF Cells
<1> QED
  BY <1>1, CellsFinite, FS_Subset, FS_CardinalityType

LEMMA SubsetCount ==
  ASSUME NEW M \in SUBSET Cells, NEW N \in SUBSET M
  PROVE  /\ Cardinality(N) \in Nat /\ Cardinality(N) <= Cardinality(M)
         /\ Cardinality(N) = Cardinality(M) => N = M
<1> QED
  BY CellSet, FS_Subset

LEMMA MaxExists ==
  ASSUME NEW M \in SUBSET Cells, M # {}
  PROVE  \E x \in M : \A y \in M : y <= x
<1> DEFINE N == {k \in Nat : \A y \in M : y <= k}
           m == Min(N)
<1>1. M \in SUBSET Nat /\ Size \in Nat /\ \A y \in M : y <= Size
  BY CellSet, KvAssumption DEF Cells
<1>2. m \in N /\ \A k \in N : m <= k
  <2>1. N \in SUBSET Nat /\ Size \in N
    BY <1>1
  <2> HIDE DEF N
  <2> QED
    BY <2>1, MinProperties
<1>3. m \in Nat /\ \A y \in M : y <= m
  BY <1>2
<1>4. ASSUME m \notin M PROVE FALSE
  <2>1. PICK y \in M : TRUE
    OBVIOUS
  <2>2. m - 1 \in Nat /\ \A z \in M : z <= m - 1
    <3> HIDE DEF m
    <3>1. \A z \in M : z \in Nat /\ z <= m /\ z # m
      BY <1>1, <1>3, <1>4
    <3>2. m \in Nat
      BY <1>3
    <3> HIDE DEF N
    <3> QED
      BY <2>1, <3>1, <3>2, SMT
  <2>3. m <= m - 1
    BY <1>2, <2>2
  <2> QED
    BY <1>3, <2>3, SMT
<1> QED
  BY <1>3, <1>4

(* The elements with fewer than g others above them: g of them.            *)
LEMMA LastOnes ==
  ASSUME NEW M \in SUBSET Cells, NEW g \in Nat, g <= Cardinality(M),
         NEW D, D = {i \in M : Cardinality({j \in M : j > i}) < g}
  PROVE  Cardinality(D) = g
<1> DEFINE Above(i) == {j \in M : j > i}
<1>1. D \in SUBSET M /\ D \in SUBSET Cells /\ Cardinality(D) \in Nat /\ M \in SUBSET Nat
  BY CellSet
<1>2. \A i : Above(i) \in SUBSET M /\ Above(i) \in SUBSET Cells /\ Cardinality(Above(i)) \in Nat
  <2> TAKE i
  <2>1. Above(i) \in SUBSET M /\ Above(i) \in SUBSET Cells
    OBVIOUS
  <2> HIDE DEF Above
  <2> QED
    BY <2>1, CellSet
<1>3. \A i \in M : i \in D <=> Cardinality(Above(i)) < g
  OBVIOUS
<1>4. \A i, j \in M : j \in Above(i) <=> j > i
  OBVIOUS
<1> HIDE DEF Above
<1>5. ASSUME NEW i \in D, NEW j \in M, j > i PROVE j \in D
  <2>1. Above(j) \in SUBSET Above(i)
    <3> SUFFICES ASSUME NEW k \in Above(j) PROVE k \in Above(i)
      OBVIOUS
    <3>1. k \in M /\ k > j
      BY <1>2, <1>4
    <3>2. k \in Nat /\ j \in Nat /\ i \in Nat
      BY <1>1, <3>1
    <3>3. k > i
      BY <1>5, <3>1, <3>2, SMT
    <3> QED
      BY <1>1, <1>4, <3>1, <3>3
  <2>2. Cardinality(Above(j)) <= Cardinality(Above(i)) /\ Cardinality(Above(i)) < g
    BY <1>1, <1>2, <1>3, <2>1, SubsetCount
  <2> QED
    BY <1>2, <1>3, <2>2, SMT
<1>6. Cardinality(D) <= g
  <2>1. CASE D = {}
    <3>1. Cardinality(D) = 0
      BY <2>1, FS_EmptySet, Zenon
    <3> QED
      BY <3>1, SMT
  <2>2. CASE D # {}
    <3> DEFINE m == Min(D)
    <3>1. m \in D /\ \A x \in D : m <= x
      BY <1>1, <2>2, MinProperties
    <3> HIDE DEF m
    <3>2. D \ {m} \in SUBSET Above(m)
      <4> SUFFICES ASSUME NEW x \in D, x # m PROVE x \in Above(m)
        OBVIOUS
      <4>1. x \in Nat /\ m \in Nat /\ m <= x
        BY <1>1, <3>1
      <4> QED
        BY <1>1, <1>4, <3>1, <4>1
    <3>3. Cardinality(D \ {m}) <= Cardinality(Above(m)) /\ Cardinality(D \ {m}) \in Nat
      BY <1>2, <3>2, SubsetCount
    <3>4. Cardinality(D \ {m}) = Cardinality(D) - 1
      BY <1>1, <3>1, CellSet, FS_RemoveElement
    <3>5. Cardinality(Above(m)) < g /\ Cardinality(Above(m)) \in Nat
      BY <1>1, <1>2, <1>3, <3>1
    <3> QED
      BY <1>1, <3>3, <3>4, <3>5, SMT
  <2> QED
    BY <2>1, <2>2
<1>7. Cardinality(D) >= g
  <2>1. CASE D = M
    BY <1>1, <2>1
  <2>2. CASE D # M
    <3>1. M \ D \in SUBSET Cells /\ M \ D # {}
      BY <1>1, <2>2
    <3>2. PICK x \in M \ D : \A y \in M \ D : y <= x
      BY <3>1, MaxExists
    <3>3. Above(x) \in SUBSET D
      <4> SUFFICES ASSUME NEW y \in Above(x), y \notin D PROVE FALSE
        OBVIOUS
      <4>1. y \in M /\ y > x /\ y <= x
        BY <1>2, <1>4, <3>2
      <4> QED
        BY <1>1, <4>1
    <3>4. Cardinality(Above(x)) <= Cardinality(D)
      BY <1>1, <3>3, SubsetCount
    <3>5. ~ (Cardinality(Above(x)) < g) /\ Cardinality(Above(x)) \in Nat
      BY <1>2, <1>3, <3>2
    <3> QED
      BY <1>1, <3>4, <3>5, SMT
  <2> QED
    BY <2>1, <2>2
<1> QED
  BY <1>1, <1>6, <1>7, SMT

BelowIn(D, d) == {e \in D : e < d}

(* Counting the elements below gives each its place, without a gap.        *)
LEMMA Ranks ==
  ASSUME NEW D \in SUBSET Cells, NEW h \in Nat,
         NEW to, \A d \in D : to[d] = h + Cardinality(BelowIn(D, d))
  PROVE  /\ \A d \in D : to[d] \in h .. h + Cardinality(D) - 1
         /\ \A d, e \in D : to[d] = to[e] => d = e
         /\ \A i \in h .. h + Cardinality(D) - 1 : \E d \in D : to[d] = i
<1> DEFINE Below(d) == BelowIn(D, d)
           n == Cardinality(D)
           T == h .. h + n - 1
<1>1. D \in SUBSET Nat /\ IsFiniteSet(D) /\ n \in Nat
  BY CellSet
<1>2. \A d : Below(d) \in SUBSET D /\ Below(d) \in SUBSET Cells /\ Cardinality(Below(d)) \in Nat
  <2> TAKE d
  <2>1. Below(d) \in SUBSET D /\ Below(d) \in SUBSET Cells
    BY DEF BelowIn
  <2> HIDE DEF Below
  <2> QED
    BY <2>1, CellSet
<1>3. \A d, e \in D : e \in Below(d) <=> e < d
  BY DEF BelowIn
<1>4. \A d \in D : to[d] = h + Cardinality(Below(d))
  OBVIOUS
<1> HIDE DEF Below, n
<1>5. ASSUME NEW d \in D PROVE to[d] \in T
  <2>1. d \notin Below(d) /\ d \in Nat
    BY <1>1, <1>3
  <2>2. Cardinality(Below(d)) <= n /\ Cardinality(Below(d)) # n
    BY <1>2, <2>1, SubsetCount DEF n
  <2> QED
    BY <1>1, <1>2, <1>4, <2>2, SMT
<1>6. ASSUME NEW d \in D, NEW e \in D, e < d PROVE to[e] # to[d]
  <2>1. Below(e) \in SUBSET Below(d)
    <3> SUFFICES ASSUME NEW x \in Below(e) PROVE x \in Below(d)
      OBVIOUS
    <3>1. x \in D /\ x < e
      BY <1>2, <1>3
    <3>2. x \in Nat /\ d \in Nat /\ e \in Nat
      BY <1>1, <3>1
    <3>3. x < d
      BY <1>6, <3>1, <3>2, SMT
    <3> QED
      BY <1>3, <3>1, <3>3
  <2>2. e \in Below(d) /\ e \notin Below(e)
    BY <1>1, <1>3, <1>6
  <2>3. Cardinality(Below(e)) # Cardinality(Below(d))
    BY <1>2, <2>1, <2>2, SubsetCount
  <2> QED
    BY <1>2, <1>4, <2>3, SMT
<1>7. \A d, e \in D : to[d] = to[e] => d = e
  <2>1. \A d, e \in D : d # e => d < e \/ e < d
    BY <1>1
  <2> QED
    BY <1>6, <2>1
<1>8. IsFiniteSet(T) /\ Cardinality(T) = n
  <2> DEFINE k == h + n - 1
  <2>1. h \in Int /\ k \in Int /\ (IF h > k THEN 0 ELSE k - h + 1) = n
    BY <1>1, SMT
  <2> HIDE DEF k
  <2>2. IsFiniteSet(h .. k) /\ Cardinality(h .. k) = IF h > k THEN 0 ELSE k - h + 1
    BY <2>1, FS_Interval, Zenon
  <2> QED
    BY <2>1, <2>2 DEF k
<1> DEFINE f == [d \in D |-> to[d]]
<1>9. f \in Injection(D, T)
  <2>1. f \in [D -> T]
    BY <1>5
  <2> QED
    BY <1>7, <2>1 DEF Injection, IsInjective
<1>10. f \in Surjection(D, T)
  <2> HIDE DEF f
  <2> QED
    BY <1>8, <1>9, FS_Injection DEF n
<1>11. \A i \in T : \E d \in D : to[d] = i
  BY <1>10 DEF Surjection
<1> QED
  BY <1>5, <1>7, <1>11 DEF n

(* Of the blocks of a hole as many are moved as the bound allows; when it  *)
(* is not used up, all of them are.                                        *)
LEMMA MovesSpent ==
  ASSUME NEW D \in SUBSET Cells, NEW B \in SUBSET D, NEW b \in Nat,
         NEW S, S = {d \in D : Cardinality({e \in B : e <= d}) <= b}
  PROVE  /\ Cardinality(B \cap S) \in Nat /\ Cardinality(B \cap S) <= b
         /\ Cardinality(B \cap S) < b => S = D
<1> DEFINE Upto(d) == {e \in B : e <= d}
           C == B \cap S
<1>1. /\ D \in SUBSET Nat /\ B \in SUBSET Cells /\ C \in SUBSET Cells
      /\ S \in SUBSET D /\ Cardinality(C) \in Nat
  BY CellSet
<1>2. \A d : Upto(d) \in SUBSET B /\ Upto(d) \in SUBSET Cells /\ Cardinality(Upto(d)) \in Nat
  <2> TAKE d
  <2>1. Upto(d) \in SUBSET B /\ Upto(d) \in SUBSET Cells
    OBVIOUS
  <2> HIDE DEF Upto
  <2> QED
    BY <2>1, CellSet
<1>3. \A d \in D : \A e \in B : e \in Upto(d) <=> e <= d
  OBVIOUS
<1>4. \A d \in D : d \in S <=> Cardinality(Upto(d)) <= b
  OBVIOUS
<1> HIDE DEF Upto
<1>5. Cardinality(C) <= b
  <2>1. CASE C = {}
    <3>1. Cardinality(C) = 0
      BY <2>1, FS_EmptySet, Zenon
    <3> QED
      BY <3>1, SMT
  <2>2. CASE C # {}
    <3>1. PICK m \in C : \A y \in C : y <= m
      BY <1>1, <2>2, MaxExists
    <3>2. C \in SUBSET Upto(m)
      BY <1>1, <1>3, <3>1
    <3>3. Cardinality(C) <= Cardinality(Upto(m)) /\ Cardinality(Upto(m)) <= b
      BY <1>2, <1>4, <3>1, <3>2, SubsetCount
    <3> QED
      BY <1>1, <1>2, <3>3, SMT
  <2> QED
    BY <2>1, <2>2
<1>6. ASSUME S # D PROVE Cardinality(C) >= b
  <2>1. PICK d \in D : d \notin S
    BY <1>1, <1>6
  <2>2. ~ (Cardinality(Upto(d)) <= b)
    BY <1>4, <2>1
  <2>3. B \ S # {}
    <3> SUFFICES ASSUME B \ S = {} PROVE FALSE
      OBVIOUS
    <3>1. Upto(d) \in SUBSET C
      BY <1>2
    <3>2. Cardinality(Upto(d)) <= Cardinality(C)
      BY <1>1, <3>1, SubsetCount
    <3> QED
      BY <1>1, <1>2, <1>5, <2>2, <3>2, SMT
  <2> DEFINE m == Min(B \ S)
  <2>4. m \in B \ S /\ \A x \in B \ S : m <= x
    <3>1. B \ S \in SUBSET Nat
      BY <1>1
    <3> QED
      BY <2>3, <3>1, MinProperties
  <2> HIDE DEF m
  <2>5. Upto(m) \ {m} \in SUBSET C
    <3> SUFFICES ASSUME NEW x \in Upto(m), x # m, x \notin S PROVE FALSE
      BY <1>2
    <3>1. x \in B /\ x <= m /\ m <= x /\ x \in Nat /\ m \in Nat
      BY <1>1, <1>2, <1>3, <2>4
    <3> QED
      BY <3>1, SMT
  <2>6. Cardinality(Upto(m) \ {m}) <= Cardinality(C)
    BY <1>1, <2>5, SubsetCount
  <2>7. Cardinality(Upto(m) \ {m}) = Cardinality(Upto(m)) - 1
    <3>1. m \in Upto(m)
      BY <1>1, <1>3, <2>4
    <3> QED
      BY <1>2, <3>1, CellSet, FS_RemoveElement
  <2>8. ~ (Cardinality(Upto(m)) <= b) /\ Cardinality(Upto(m)) \in Nat
    BY <1>2, <1>4, <2>4
  <2> QED
    BY <1>1, <2>6, <2>7, <2>8, SMT
<1> QED
  BY <1>1, <1>5, <1>6, SMT

-----------------------------------------------------------------------------
(* The invariant.                                                          *)

(* A defragmentation waits between batches, when no range is pending, and  *)
(* cells are moved after the shift has been applied.                       *)
Control ==
  /\ step \in {"none", "fill"}
  /\ do_defrag => pending = {} /\ phase = "idle"
  /\ step = "fill" => do_defrag /\ ~ shift

PassType ==
  /\ ids \in [Cells -> 0 .. Size] /\ rot \in [Cells -> Int]
  /\ hole \in 0 .. Size /\ budget \in Nat

(* No cell is moved before a pass begins.                                  *)
Still == step = "none" => hole = 0 /\ \A i \in Cells : ids[i] = Size

(* The pass has filled what lies behind it, as long as it may move.        *)
Filled == step = "fill" /\ budget > 0 => \A i \in Cells : i < hole => seqs[i] # {}

(* A cell that was moved went behind the pass, alone, and is empty unless  *)
(* the pass has filled it again.                                           *)
MovedOK ==
  /\ \A d \in Cells : ids[d] # Size => ids[d] < hole /\ (seqs[d] = {} \/ d < hole)
  /\ \A d, e \in Cells : ids[d] # Size /\ ids[d] = ids[e] => d = e

(* During a pass the data of a cell in use lies where the cell came from.  *)
DataOK ==
  /\ DataFollowsCells
  /\ step = "fill" => \A i \in Cells : pos[i] >= 0 =>
       /\ \A d \in Cells : ids[d] = i => rot[d] = pos[i]
       /\ (\A d \in Cells : ids[d] # i) => ids[i] = Size /\ rot[i] = pos[i]

DInv ==
  /\ IInv /\ Control /\ PassType /\ Still /\ Filled /\ MovedOK /\ DataOK

LEMMA Types ==
  ASSUME IInv
  PROVE  /\ pos \in [Cells -> -1 .. MaxPos] /\ delta \in [Cells -> Int]
         /\ seqs \in [Cells -> SUBSET Seqs] /\ used \in 0 .. Size /\ Size \in Nat
         /\ \A i \in Cells : pos[i] \in Int /\ delta[i] \in Int /\ i \in Nat
         /\ MaxPos \in Nat /\ MaxPos \in Int
<1>1. /\ pos \in [Cells -> -1 .. MaxPos] /\ delta \in [Cells -> Int]
      /\ seqs \in [Cells -> SUBSET Seqs] /\ used \in 0 .. Size
  BY DEF IInv, TypeOK
<1> QED
  BY <1>1, KvAssumption DEF Cells

-----------------------------------------------------------------------------
(* The steps of KvCache: the data follows the positions and the shifts.    *)

Follows ==
  \A i \in Cells : pos'[i] >= 0 => pos[i] >= 0 /\ pos'[i] - pos[i] = delta'[i] - delta[i]

LEMMA FreeFollows ==
  ASSUME IInv, NEW freed \in SUBSET Cells, NEW s1, FreeCells(freed, s1),
         UNCHANGED delta
  PROVE  Follows
<1>1. \A i \in Cells : pos'[i] = IF i \in freed THEN -1 ELSE pos[i]
  BY DEF FreeCells
<1>2. \A i \in Cells : pos[i] \in Int /\ delta[i] \in Int /\ delta'[i] = delta[i]
  BY Types
<1> QED
  BY <1>1, <1>2, SMT DEF Follows

LEMMA SameFollows ==
  ASSUME IInv, UNCHANGED <<pos, delta>>
  PROVE  Follows
<1>1. \A i \in Cells : pos[i] \in Int /\ delta[i] \in Int
  BY Types
<1> QED
  BY <1>1, SMT DEF Follows

LEMMA EditsFollow ==
  ASSUME IInv, Edits PROVE Follows
<1>1. CASE Clear
  <2>1. \A i \in Cells : pos'[i] = -1
    BY <1>1 DEF Clear
  <2> QED
    BY <2>1, SMT DEF Follows
<1>2. ASSUME NEW s \in Seqs \cup {-1}, NEW p0 \in Bounds, NEW p1 \in Bounds,
             SeqRm(s, p0, p1)
      PROVE  Follows
  <2> DEFINE hit == {i \in Cells : InRange(pos[i], p0, p1) /\ (s < 0 \/ s \in seqs[i])}
             rest == [i \in Cells |-> IF i \notin hit THEN seqs[i]
                                      ELSE IF s < 0 THEN {} ELSE seqs[i] \ {s}]
             freed == {i \in hit : rest[i] = {}}
  <2>1. FreeCells(freed, rest) /\ UNCHANGED delta
    BY <1>2 DEF SeqRm
  <2>2. freed \in SUBSET Cells
    OBVIOUS
  <2> HIDE DEF freed, rest, hit
  <2> QED
    BY <2>1, <2>2, FreeFollows
<1>3. ASSUME NEW s \in Seqs, NEW d \in Seqs, NEW p0 \in Bounds, NEW p1 \in Bounds,
             SeqCp(s, d, p0, p1)
      PROVE  Follows
  BY <1>3, SameFollows DEF SeqCp
<1>4. ASSUME NEW s \in Seqs, SeqKeep(s) PROVE Follows
  <2> DEFINE freed == {i \in Cells : s \notin seqs[i]}
  <2>1. FreeCells(freed, [i \in Cells |-> {s}]) /\ UNCHANGED delta
    BY <1>4 DEF SeqKeep
  <2>2. freed \in SUBSET Cells
    OBVIOUS
  <2> HIDE DEF freed
  <2> QED
    BY <2>1, <2>2, FreeFollows
<1>5. ASSUME NEW s \in Seqs, NEW p0 \in Bounds, NEW p1 \in Bounds, NEW k \in Deltas,
             SeqAdd(s, p0, p1, k)
      PROVE  Follows
  <2> DEFINE hit == Shifted(s, p0, p1)
             freed == {i \in hit : pos[i] + k < 0}
  <2>1. /\ pos' = [i \in Cells |-> IF i \in freed THEN -1
                                   ELSE IF i \in hit THEN pos[i] + k ELSE pos[i]]
        /\ delta' = [i \in Cells |-> IF i \in hit THEN delta[i] + k ELSE delta[i]]
    BY <1>5 DEF SeqAdd
  <2>2. \A i \in hit : i \in Cells /\ p0 <= pos[i]
    BY DEF Shifted, InRange
  <2>3. k \in Int /\ p0 \in Int /\ p0 >= 0
    BY KvAssumption DEF Bounds
  <2>4. \A i \in Cells : pos[i] \in Int /\ delta[i] \in Int
    BY Types
  <2> HIDE DEF freed, hit
  <2>5. ASSUME NEW i \in Cells, pos'[i] >= 0
        PROVE  pos[i] >= 0 /\ pos'[i] - pos[i] = delta'[i] - delta[i]
    <3>1. i \notin freed
      BY <2>1, <2>5, SMT
    <3>2. CASE i \in hit
      BY <2>1, <2>2, <2>3, <2>4, <3>1, <3>2, SMT
    <3>3. CASE i \notin hit
      BY <2>1, <2>4, <2>5, <3>1, <3>3, SMT
    <3> QED
      BY <3>2, <3>3
  <2> QED
    BY <2>5 DEF Follows
<1>6. ASSUME NEW s \in Seqs, NEW p0 \in Bounds, NEW p1 \in Bounds, NEW k \in Divs,
             SeqDiv(s, p0, p1, k)
      PROVE  Follows
  <2> DEFINE hit == Shifted(s, p0, p1)
             q(i) == pos[i] \div k
  <2>1. /\ pos' = [i \in Cells |-> IF i \in hit THEN q(i) ELSE pos[i]]
        /\ delta' = [i \in Cells |-> IF i \in hit
                                     THEN delta[i] + (q(i) - pos[i]) ELSE delta[i]]
    BY <1>6 DEF SeqDiv
  <2>2. \A i \in hit : i \in Cells /\ p0 <= pos[i]
    BY DEF Shifted, InRange
  <2>3. k \in Nat \ {0} /\ p0 \in Int /\ p0 >= 0
    BY KvAssumption DEF Bounds
  <2>4. \A i \in Cells : pos[i] \in Int /\ delta[i] \in Int
    BY Types
  <2>5. \A i \in Cells : q(i) \in Int
    BY <2>3, <2>4, SMT
  <2> HIDE DEF hit, q
  <2>6. ASSUME NEW i \in Cells, pos'[i] >= 0
        PROVE  pos[i] >= 0 /\ pos'[i] - pos[i] = delta'[i] - delta[i]
    BY <2>1, <2>2, <2>3, <2>4, <2>5, <2>6, SMT
  <2> QED
    BY <2>6 DEF Follows
<1> QED
  BY <1>1, <1>2, <1>3, <1>4, <1>5, <1>6, Zenon DEF Edits

LEMMA CacheFollows ==
  ASSUME IInv,
         \/ Edits \/ DecodeEmpty \/ DecodeRejected
         \/ SearchWrap \/ SearchOn \/ SearchGivesUp \/ NextUBatch \/ ComputeFails
  PROVE  Follows
<1>1. ASSUME NEW h, Restore(h) PROVE Follows
  <2>1. FreeCells(PendingCells, seqs) /\ UNCHANGED delta
    BY <1>1 DEF Restore
  <2>2. PendingCells \in SUBSET Cells
    BY PendingInCells DEF IInv
  <2> QED
    BY <2>1, <2>2, FreeFollows
<1>2. CASE DecodeEmpty \/ SearchWrap \/ SearchOn \/ NextUBatch
  BY <1>2, SameFollows DEF DecodeEmpty, SearchWrap, SearchOn, NextUBatch, cellVars
<1>3. CASE DecodeRejected \/ SearchGivesUp \/ ComputeFails
  BY <1>1, <1>3, Zenon DEF DecodeRejected, SearchGivesUp, ComputeFails
<1>4. CASE Edits
  BY <1>4, EditsFollow
<1> QED
  BY <1>2, <1>3, <1>4

(* Outside a pass nothing but the cells and their data changes.            *)
LEMMA OutsidePass ==
  ASSUME DInv, step = "none", UNCHANGED defragVars, IInv',
         rot' \in [Cells -> Int], DataFollowsCells',
         do_defrag' => pending' = {} /\ phase' = "idle"
  PROVE  DInv'
<1> USE DEF defragVars
<1>1. Control'
  BY DEF Control
<1>2. PassType' /\ Still'
  BY DEF DInv, PassType, Still
<1>3. Filled'
  BY DEF Filled
<1>4. MovedOK'
  BY DEF DInv, Still, MovedOK
<1>5. DataOK'
  BY DEF DataOK
<1> QED
  BY <1>1, <1>2, <1>3, <1>4, <1>5 DEF DInv

LEMMA CacheStepKeeps ==
  ASSUME DInv, CacheStep PROVE DInv'
<1>1. /\ step = "none" /\ UNCHANGED defragVars /\ do_defrag' = do_defrag /\ rot' = Untouched
      /\ \/ Edits \/ DecodeEmpty \/ DecodeRejected
         \/ SearchWrap \/ SearchOn \/ SearchGivesUp \/ NextUBatch \/ ComputeFails
  BY DEF CacheStep
<1>2. IInv /\ PassType
  BY DEF DInv
<1>3. IInv'
  <2>1. Next
    BY <1>1, Zenon DEF Next, Calls, DecodeSteps
  <2> QED
    BY <1>2, <2>1, NextIInv
<1>4. \A i \in Cells : /\ pos[i] \in Int /\ delta[i] \in Int /\ rot[i] \in Int
                      /\ pos'[i] \in Int /\ delta'[i] \in Int
  <2>1. pos' \in [Cells -> -1 .. MaxPos] /\ delta' \in [Cells -> Int]
    BY <1>3 DEF IInv, TypeOK
  <2> QED
    BY <1>2, <2>1, Types DEF PassType
<1>5. rot' \in [Cells -> Int] /\ \A i \in Cells : pos'[i] >= 0 => rot'[i] = rot[i]
  BY <1>1, <1>4, SMT DEF Untouched
<1>6. DataFollowsCells'
  <2>1. Follows
    BY <1>1, <1>2, CacheFollows
  <2>2. \A i \in Cells : pos[i] >= 0 => rot[i] + delta[i] = pos[i]
    BY <1>1 DEF DInv, DataOK, DataFollowsCells
  <2>3. ASSUME NEW i \in Cells, pos'[i] >= 0 PROVE rot'[i] + delta'[i] = pos'[i]
    <3>1. /\ pos[i] >= 0 /\ pos'[i] - pos[i] = delta'[i] - delta[i] /\ rot'[i] = rot[i]
          /\ rot[i] + delta[i] = pos[i]
      BY <1>5, <2>1, <2>2, <2>3 DEF Follows
    <3> QED
      BY <1>4, <3>1, SMT
  <2> QED
    BY <2>3 DEF DataFollowsCells
<1>7. ASSUME do_defrag' PROVE pending' = {} /\ phase' = "idle"
  <2>1. pending = {} /\ phase = "idle"
    BY <1>1, <1>7 DEF DInv, Control
  <2>2. CASE Edits
    BY <2>1, <2>2, EditsBetween DEF Edit, batchVars
  <2>3. CASE DecodeEmpty \/ DecodeRejected
    BY <2>1, <2>3 DEF DecodeEmpty, DecodeRejected, EndBatch, Restore, batchVars
  <2>4. CASE SearchWrap \/ SearchOn \/ SearchGivesUp \/ NextUBatch \/ ComputeFails
    BY <2>1, <2>4 DEF SearchWrap, SearchOn, SearchGivesUp, NextUBatch, ComputeFails
  <2> QED
    BY <1>1, <2>2, <2>3, <2>4, Zenon
<1> QED
  BY <1>1, <1>3, <1>5, <1>6, <1>7, OutsidePass

LEMMA StartBatchKeeps ==
  ASSUME DInv, StartBatch PROVE DInv'
<1>1. PICK n \in 1 .. NBatch, s \in Seqs, p \in 0 .. MaxPos : Decode(n, s, p)
  BY DEF StartBatch
<1>2. /\ step = "none" /\ ~ do_defrag' /\ UNCHANGED defragVars
      /\ rot' = IF shift THEN Rotated ELSE rot
  BY DEF StartBatch
<1>3. IInv /\ PassType /\ IInv'
  <2>1. IInv /\ PassType
    BY DEF DInv
  <2>2. Next
    BY <1>1, Zenon DEF Next, Calls
  <2> QED
    BY <2>1, <2>2, NextIInv
<1>4. \A i \in Cells : pos[i] \in Int /\ delta[i] \in Int /\ rot[i] \in Int
  BY <1>3, Types DEF PassType
<1>5. /\ pos' = pos /\ delta' = IF shift THEN [i \in Cells |-> 0] ELSE delta
  BY <1>1 DEF Decode
<1>6. \A i \in Cells : pos[i] >= 0 => rot[i] + delta[i] = pos[i]
  BY <1>2 DEF DInv, DataOK, DataFollowsCells
<1>7. rot' \in [Cells -> Int] /\ DataFollowsCells'
  <2>1. CASE shift
    <3>1. rot' = Rotated /\ \A i \in Cells : delta'[i] = 0
      BY <1>2, <1>5, <2>1
    <3>2. rot' \in [Cells -> Int]
      BY <1>4, <3>1, SMT DEF Rotated
    <3>3. \A i \in Cells : pos[i] >= 0 => rot'[i] = pos[i]
      BY <1>4, <1>6, <3>1, SMT DEF Rotated
    <3>4. \A i \in Cells : pos'[i] >= 0 => rot'[i] + delta'[i] = pos'[i]
      BY <1>4, <1>5, <3>1, <3>3, SMT
    <3> QED
      BY <3>2, <3>4 DEF DataFollowsCells
  <2>2. CASE ~ shift
    <3>1. rot' = rot /\ delta' = delta
      BY <1>2, <1>5, <2>2
    <3> QED
      BY <1>3, <1>5, <1>6, <3>1 DEF DataFollowsCells, PassType
  <2> QED
    BY <2>1, <2>2
<1> QED
  BY <1>2, <1>3, <1>7, OutsidePass

LEMMA StoreUBatchKeeps ==
  ASSUME DInv, StoreUBatch PROVE DInv'
<1>1. /\ step = "none" /\ do_defrag' = do_defrag /\ UNCHANGED defragVars /\ TakeSlot
      /\ rot' = [i \in Cells |-> IF i \in Slot(head, width) THEN pos'[i] ELSE rot[i]]
  BY DEF StoreUBatch
<1>2. IInv /\ PassType /\ IInv'
  <2>1. IInv /\ PassType
    BY DEF DInv
  <2>2. Next
    BY <1>1, Zenon DEF Next, DecodeSteps
  <2> QED
    BY <2>1, <2>2, NextIInv
<1>3. /\ phase = "search" /\ delta' = delta
      /\ pos' = [i \in Cells |-> IF i \in Slot(head, width)
                                 THEN next + (i - head) ELSE pos[i]]
  BY <1>1 DEF TakeSlot
<1>4. \A i \in Cells : /\ pos[i] \in Int /\ delta[i] \in Int /\ rot[i] \in Int
                      /\ pos'[i] \in Int
  <2>1. pos' \in [Cells -> -1 .. MaxPos]
    BY <1>2 DEF IInv, TypeOK
  <2> QED
    BY <1>2, <2>1, Types DEF PassType
<1>5. \A i \in Cells : delta[i] = 0
  BY <1>2, <1>3 DEF IInv, NoStaleShift
<1>6. rot' \in [Cells -> Int]
  BY <1>1, <1>4, SMT
<1>7. DataFollowsCells'
  <2>1. \A i \in Cells : pos[i] >= 0 => rot[i] + delta[i] = pos[i]
    BY <1>1 DEF DInv, DataOK, DataFollowsCells
  <2>2. ASSUME NEW i \in Cells, pos'[i] >= 0 PROVE rot'[i] + delta'[i] = pos'[i]
    <3>1. CASE i \in Slot(head, width)
      <4>1. rot'[i] = pos'[i] /\ delta'[i] = 0
        BY <1>1, <1>3, <1>5, <3>1
      <4> QED
        BY <1>4, <4>1, SMT
    <3>2. CASE i \notin Slot(head, width)
      <4>1. rot'[i] = rot[i] /\ delta'[i] = delta[i] /\ pos'[i] = pos[i]
        BY <1>1, <1>3, <3>2
      <4> QED
        BY <2>1, <2>2, <4>1
    <3> QED
      BY <3>1, <3>2
  <2> QED
    BY <2>2 DEF DataFollowsCells
<1>8. ~ do_defrag'
  BY <1>1, <1>3 DEF DInv, Control
<1> QED
  BY <1>1, <1>2, <1>6, <1>7, <1>8, OutsidePass

LEMMA EndDecodeKeeps ==
  ASSUME DInv, EndDecode PROVE DInv'
<1>1. step = "none" /\ Commit /\ UNCHANGED <<defragVars, rot>>
  BY DEF EndDecode
<1>2. IInv /\ PassType /\ IInv'
  <2>1. IInv /\ PassType
    BY DEF DInv
  <2>2. Next
    BY <1>1, Zenon DEF Next, DecodeSteps
  <2> QED
    BY <2>1, <2>2, NextIInv
<1>3. UNCHANGED <<pos, delta, rot, defragVars>> /\ pending' = {} /\ phase' = "idle"
  BY <1>1 DEF Commit, EndBatch, cellVars
<1>4. rot' \in [Cells -> Int]
  BY <1>2, <1>3 DEF PassType
<1>5. DataFollowsCells'
  BY <1>1, <1>3 DEF DInv, DataOK, DataFollowsCells, defragVars
<1> QED
  BY <1>1, <1>2, <1>3, <1>4, <1>5, OutsidePass

-----------------------------------------------------------------------------
(* The request and the shift.                                              *)

(* A call that leaves the cells and the search alone.                      *)
LEMMA RequestKeeps ==
  ASSUME IInv, UNCHANGED <<pos, seqs, used, head, batchVars, pending>>,
         phase = "idle", ret' \in {"none", "ok", "no_slot", "error"},
         delta' \in [Cells -> Int], shift' \in BOOLEAN,
         \A i \in Cells : delta'[i] # 0 => shift'
  PROVE  IInv'
<1> USE DEF batchVars
<1>1. TypeOK'
  <2>1. /\ pos' \in [Cells -> -1 .. MaxPos] /\ seqs' \in [Cells -> SUBSET Seqs]
        /\ head' \in 0 .. Size /\ used' \in 0 .. Size
        /\ pending' \subseteq (0 .. Size) \X (0 .. Size)
        /\ phase' \in {"idle", "search", "compute"}
        /\ sid' \in Seqs \cup {0} /\ next' \in 0 .. MaxPos
        /\ left' \in 0 .. NBatch /\ width' \in 0 .. NUBatch /\ tested' \in Nat
    BY DEF IInv, TypeOK
  <2> QED
    BY <2>1, Zenon DEF TypeOK
<1>2. BatchOK' /\ SearchSkipsNoSlot'
  BY DEF BatchOK, SearchSkipsNoSlot
<1>3. PendingOK' /\ PendingCells' = PendingCells
  BY DEF IInv, PendingOK, PendingCells
<1>4. EmptyAgrees' /\ UsedCount' /\ StalePendingIsFree'
  BY <1>3 DEF IInv, EmptyAgrees, UsedCount, Occupied, StalePendingIsFree
<1>5. NoStaleShift'
  BY DEF NoStaleShift
<1> QED
  BY <1>1, <1>2, <1>3, <1>4, <1>5 DEF IInv

LEMMA DefragSchedKeeps ==
  ASSUME DInv, DefragSched, pending = {} PROVE DInv'
<1>1. /\ step = "none" /\ phase = "idle" /\ ret' = "none" /\ do_defrag' = TRUE
      /\ UNCHANGED <<cellVars, head, batchVars, pending, defragVars, rot>>
  BY DEF DefragSched, Edit
<1>2. IInv /\ PassType
  BY DEF DInv
<1>3. IInv'
  <2>1. delta \in [Cells -> Int] /\ shift \in BOOLEAN /\ \A i \in Cells : delta[i] # 0 => shift
    <3>1. delta \in [Cells -> Int] /\ \A i \in Cells : delta[i] # 0 => shift
      BY <1>2 DEF IInv, TypeOK, NoStaleShift
    <3>2. shift \in BOOLEAN
      BY <1>2, Zenon DEF IInv, TypeOK
    <3> QED
      BY <3>1, <3>2, Zenon
  <2>2. delta' = delta /\ shift' = shift /\ UNCHANGED <<pos, seqs, used, head, batchVars, pending>>
    BY <1>1 DEF cellVars
  <2>3. /\ delta' \in [Cells -> Int] /\ shift' \in BOOLEAN
        /\ \A i \in Cells : delta'[i] # 0 => shift'
    BY <2>1, <2>2, Zenon
  <2> QED
    BY <1>1, <1>2, <2>2, <2>3, RequestKeeps, Zenon
<1>4. rot' \in [Cells -> Int] /\ DataFollowsCells'
  BY <1>1, <1>2 DEF DInv, DataOK, DataFollowsCells, PassType, cellVars, defragVars
<1>5. pending' = {} /\ phase' = "idle"
  BY <1>1 DEF batchVars
<1> QED
  BY <1>1, <1>3, <1>4, <1>5, OutsidePass

LEMMA UpdateKeeps ==
  ASSUME DInv, Update PROVE DInv'
<1>1. /\ step = "none" /\ phase = "idle" /\ ret' = "none"
      /\ UNCHANGED <<pos, seqs, used, head, batchVars, pending, do_defrag, ids, hole>>
      /\ rot' = IF shift THEN Rotated ELSE rot
      /\ delta' = IF shift THEN [i \in Cells |-> 0] ELSE delta
      /\ shift' = FALSE
      /\ \/ do_defrag /\ step' = "fill" /\ budget' \in MoveBounds
         \/ ~ do_defrag /\ UNCHANGED <<step, budget>>
  BY DEF Update, ApplyShift, Edit
<1>2. IInv /\ PassType
  BY DEF DInv
<1>3. \A i \in Cells : pos[i] \in Int /\ delta[i] \in Int /\ rot[i] \in Int
  BY <1>2, Types DEF PassType
<1>4. \A i \in Cells : pos[i] >= 0 => rot[i] + delta[i] = pos[i]
  BY <1>1 DEF DInv, DataOK, DataFollowsCells
<1>5. /\ delta' \in [Cells -> Int] /\ \A i \in Cells : delta'[i] = 0
      /\ rot' \in [Cells -> Int] /\ \A i \in Cells : pos[i] >= 0 => rot'[i] = pos[i]
  <2>1. CASE shift
    <3>1. rot' = Rotated /\ delta' = [i \in Cells |-> 0]
      BY <1>1, <2>1
    <3> QED
      BY <1>3, <1>4, <3>1, SMT DEF Rotated
  <2>2. CASE ~ shift
    <3>1. rot' = rot /\ delta' = delta
      BY <1>1, <2>2
    <3>2. \A i \in Cells : delta[i] = 0
      BY <1>2, <2>2 DEF IInv, NoStaleShift
    <3>3. delta \in [Cells -> Int] /\ rot \in [Cells -> Int]
      BY <1>2, Types DEF PassType
    <3> QED
      BY <1>3, <1>4, <3>1, <3>2, <3>3, SMT
  <2> QED
    BY <2>1, <2>2
<1>6. IInv'
  <2>1. ~ shift' /\ shift' \in BOOLEAN
    BY <1>1
  <2> QED
    BY <1>1, <1>2, <1>5, <2>1, RequestKeeps
<1>7. Control'
  BY <1>1 DEF DInv, Control, batchVars
<1>8. PassType'
  BY <1>1, <1>2, <1>5, DefragAssumption DEF PassType
<1>9. hole' = 0 /\ \A i \in Cells : ids'[i] = Size
  BY <1>1 DEF DInv, Still
<1>10. Still' /\ MovedOK'
  BY <1>9 DEF Still, MovedOK
<1>11. Filled'
  <2>1. \A i \in Cells : ~ (i < hole')
    BY <1>2, <1>9, Types, SMT
  <2> QED
    BY <2>1 DEF Filled
<1>12. DataOK'
  <2>1. DataFollowsCells'
    BY <1>1, <1>3, <1>5, SMT DEF DataFollowsCells
  <2>2. \A i \in Cells : i # Size
    BY KvAssumption DEF Cells
  <2> QED
    BY <1>1, <1>5, <1>9, <2>1, <2>2 DEF DataOK
<1> QED
  BY <1>6, <1>7, <1>8, <1>10, <1>11, <1>12 DEF DInv

-----------------------------------------------------------------------------
(* A hole is filled.                                                       *)

(* The hole the pass has come to: g empty cells from h on, below used.     *)
LEMMA HoleFacts ==
  ASSUME DInv, AtHole, NEW h, h = Min(Holes), NEW g, g = Gap(h)
  PROVE  /\ h \in Cells /\ h \in Nat /\ hole <= h /\ g \in Nat /\ h + g <= used
         /\ \A i \in h .. h + g - 1 : i \in Cells /\ seqs[i] = {}
         /\ \A i \in Cells : hole <= i /\ i < h => seqs[i] # {}
         /\ hole <= h + g
<1>1. /\ step = "fill" /\ IInv /\ PassType /\ Holes # {}
  BY DEF DInv, AtHole
<1>2. /\ used \in Nat /\ used <= Size /\ Size \in Nat /\ hole \in Nat
  <2>1. used \in 0 .. Size /\ hole \in 0 .. Size /\ Size \in Nat
    BY <1>1, Types DEF PassType
  <2> QED
    BY <2>1, SMT
<1>3. h \in Holes /\ \A x \in Holes : h <= x
  <2>1. Holes \in SUBSET Nat
    BY <1>2 DEF Holes
  <2> QED
    BY <1>1, <2>1, MinProperties
<1>4. h \in Nat /\ hole <= h /\ h < used /\ seqs[h] = {} /\ h \in Cells
  <2>1. h \in hole .. used - 1 /\ seqs[h] = {}
    BY <1>3 DEF Holes
  <2>2. h \in Nat /\ hole <= h /\ h < used /\ h \in 0 .. Size - 1
    BY <1>2, <2>1, SMT
  <2> QED
    BY <2>1, <2>2 DEF Cells
<1> DEFINE E == {used} \cup {i \in h .. used - 1 : seqs[i] # {}}
           e == Min(E)
<1>5. e \in E /\ \A x \in E : e <= x
  <2>1. E \in SUBSET Nat /\ E # {}
    BY <1>2, <1>4
  <2> HIDE DEF E
  <2> QED
    BY <2>1, MinProperties
<1>6. e \in Nat /\ h <= e /\ e <= used /\ g = e - h
  <2>1. \A x \in E : x \in Nat /\ h <= x
    BY <1>2, <1>4
  <2>2. used \in E
    OBVIOUS
  <2>3. g = e - h
    BY DEF Gap
  <2> HIDE DEF E, e
  <2> QED
    BY <1>5, <2>1, <2>2, <2>3
<1>7. ASSUME NEW i \in h .. e - 1 PROVE i \in Cells /\ seqs[i] = {}
  <2>1. i \in h .. used - 1 /\ ~ (e <= i) /\ i \in Cells
    <3> HIDE DEF E, e
    <3> QED
      BY <1>2, <1>4, <1>6, <1>7, SMT DEF Cells
  <2>2. i \notin E
    <3> HIDE DEF E, e
    <3> QED
      BY <1>5, <2>1
  <2> QED
    BY <2>1, <2>2
<1> HIDE DEF e, E
<1>8. h + g = e /\ g \in Nat /\ h + g - 1 = e - 1
  BY <1>4, <1>6, SMT
<1>9. ASSUME NEW i \in Cells, hole <= i, i < h PROVE seqs[i] # {}
  <2>1. i \in Nat
    BY <1>1, Types
  <2>2. i \in hole .. used - 1 /\ ~ (h <= i)
    BY <1>2, <1>4, <1>9, <2>1, SMT
  <2>3. i \notin Holes
    BY <1>3, <2>2
  <2> QED
    BY <2>2, <2>3 DEF Holes
<1>10. hole <= h + g
  BY <1>2, <1>4, <1>8, SMT
<1> QED
  BY <1>4, <1>6, <1>7, <1>8, <1>9, <1>10

(* The cells in use are below the hole or can be moved: "used" being their *)
(* number, those behind the hole are at least as many as it is long.       *)
LEMMA HoleSuffices ==
  ASSUME DInv, AtHole
  PROVE  Suffices(Min(Holes))
<1> DEFINE h == Min(Holes)
           g == Gap(h)
           M == Movable(h)
<1>1. h \in Cells /\ h \in Nat /\ hole <= h /\ g \in Nat /\ h + g <= used
  BY HoleFacts
<1>2. seqs[h] = {}
  <2>1. Holes \in SUBSET Nat /\ Holes # {}
    BY Types DEF AtHole, Holes, DInv, PassType
  <2>2. h \in Holes
    BY <2>1, MinProperties
  <2> QED
    BY <2>2 DEF Holes
<1> HIDE DEF h
<1>3. Occupied \subseteq (0 .. h - 1) \cup M
  <2> SUFFICES ASSUME NEW i \in Cells, pos[i] >= 0, i \notin 0 .. h - 1 PROVE i \in M
    <3> HIDE DEF M
    <3> QED
      BY DEF Occupied
  <2>1. i \in Nat /\ pos[i] \in Int /\ ~ (i < h)
    <3>1. i \in Nat /\ pos[i] \in Int
      BY Types DEF DInv
    <3> QED
      BY <1>1, <3>1, SMT
  <2>2. seqs[i] # {}
    <3>1. ~ (pos[i] < 0)
      BY <2>1, SMT
    <3> QED
      BY <3>1 DEF DInv, IInv, EmptyAgrees
  <2>3. i # h
    BY <1>2, <2>2
  <2>4. i > h
    BY <1>1, <2>1, <2>3, SMT
  <2>5. ids[i] = Size
    <3>1. hole \in Nat /\ ~ (i < hole)
      <4>1. hole \in 0 .. Size
        BY DEF DInv, PassType
      <4> QED
        BY <1>1, <2>1, <2>4, <4>1, Types, SMT DEF DInv
    <3> QED
      BY <2>2, <3>1 DEF DInv, MovedOK
  <2> QED
    BY <2>2, <2>4, <2>5 DEF Movable
<1>4. IsFiniteSet(0 .. h - 1) /\ Cardinality(0 .. h - 1) = h
  <2> DEFINE k == h - 1
  <2>1. 0 \in Int /\ k \in Int /\ (IF 0 > k THEN 0 ELSE k - 0 + 1) = h
    BY <1>1, SMT
  <2> HIDE DEF k
  <2>2. IsFiniteSet(0 .. k) /\ Cardinality(0 .. k) = IF 0 > k THEN 0 ELSE k - 0 + 1
    BY <2>1, FS_Interval, Zenon
  <2> QED
    BY <2>1, <2>2 DEF k
<1>5. M \in SUBSET Cells
  BY DEF Movable
<1> HIDE DEF M
<1>6. IsFiniteSet(M) /\ Cardinality(M) \in Nat
  BY <1>5, CellSet
<1>7. /\ IsFiniteSet((0 .. h - 1) \cup M)
      /\ Cardinality((0 .. h - 1) \cup M)
           = h + Cardinality(M) - Cardinality((0 .. h - 1) \cap M)
  BY <1>4, <1>6, FS_Union
<1>8. Cardinality((0 .. h - 1) \cap M) \in Nat
  BY <1>4, FS_Intersection, FS_CardinalityType
<1>9. Cardinality(Occupied) <= Cardinality((0 .. h - 1) \cup M)
  BY <1>3, <1>7, FS_Subset
<1>10. used = Cardinality(Occupied) /\ used \in Nat
  <2>1. used \in 0 .. Size /\ Size \in Nat
    BY Types DEF DInv
  <2> QED
    BY <2>1 DEF DInv, IInv, UsedCount
<1>11. Cardinality(M) >= g
  BY <1>1, <1>6, <1>7, <1>8, <1>9, <1>10, SMT
<1> QED
  BY <1>11 DEF Suffices, M, h

LEMMA Relocated ==
  ASSUME NEW f, NEW S \in SUBSET Cells, NEW to, NEW blank,
         \A d, e \in S : to[d] = to[e] => d = e
  PROVE  /\ \A d \in S : to[d] \in Cells => Relocate(f, S, to, blank)[to[d]] = f[d]
         /\ \A i \in Cells : (\A d \in S : to[d] # i) =>
              Relocate(f, S, to, blank)[i] = IF i \in S THEN blank ELSE f[i]
<1> DEFINE r == Relocate(f, S, to, blank)
<1>1. ASSUME NEW d \in S, to[d] \in Cells PROVE r[to[d]] = f[d]
  <2> DEFINE c == CHOOSE x \in S : to[x] = to[d]
  <2>1. c \in S /\ to[c] = to[d]
    OBVIOUS
  <2>2. c = d
    <3> HIDE DEF c
    <3> QED
      BY <2>1
  <2>3. r[to[d]] = f[c]
    BY <1>1 DEF Relocate
  <2> QED
    BY <2>2, <2>3
<1>2. ASSUME NEW i \in Cells, \A d \in S : to[d] # i
      PROVE  r[i] = IF i \in S THEN blank ELSE f[i]
  BY <1>2 DEF Relocate
<1> QED
  BY <1>1, <1>2

(* What a hole of g cells from h on and the cells S that are moved into it *)
(* have to do with each other.                                             *)
Fills(S, to, h, g) ==
  /\ S \in SUBSET Cells /\ h \in Nat /\ g \in Nat /\ hole <= h /\ h + g <= used
  /\ \A i \in h .. h + g - 1 : i \in Cells /\ seqs[i] = {}
  /\ \A i \in Cells : hole <= i /\ i < h => seqs[i] # {}
  /\ \A d \in S : d >= h + g /\ seqs[d] # {} /\ ids[d] = Size /\ to[d] \in h .. h + g - 1
  /\ \A d, e \in S : to[d] = to[e] => d = e

(* The step, in these terms.                                               *)
FillsHole(S, to, h, g) ==
  /\ Fills(S, to, h, g)
  /\ pos' = Relocate(pos, S, to, -1)
  /\ seqs' = Relocate(seqs, S, to, {})
  /\ delta' = Relocate(delta, S, to, 0)
  /\ ids' = [i \in Cells |-> IF i \in S THEN to[i] ELSE ids[i]]
  /\ head' = used /\ hole' = h + g /\ budget' \in Nat
  /\ budget' > 0 => \A i \in h .. h + g - 1 : \E d \in S : to[d] = i

LEMMA FillHoleFills ==
  ASSUME DInv, FillHole
  PROVE  \E S, to, h, g : FillsHole(S, to, h, g)
<1> DEFINE h == Min(Holes)
           g == Gap(h)
           M == Movable(h)
           D == Donors(h)
           B == Starts(D)
           S == Moved(D)
           to == [d \in D |-> h + Cardinality({e \in D : e < d})]
<1>1. /\ AtHole /\ Suffices(h)
      /\ pos' = Relocate(pos, S, to, -1)
      /\ seqs' = Relocate(seqs, S, to, {})
      /\ delta' = Relocate(delta, S, to, 0)
      /\ ids' = [i \in Cells |-> IF i \in S THEN to[i] ELSE ids[i]]
      /\ head' = used /\ hole' = h + g
      /\ budget' = budget - Cardinality(B \cap S)
  BY Zenon DEF FillHole
<1>2. /\ h \in Cells /\ h \in Nat /\ hole <= h /\ g \in Nat /\ h + g <= used
      /\ \A i \in h .. h + g - 1 : i \in Cells /\ seqs[i] = {}
      /\ \A i \in Cells : hole <= i /\ i < h => seqs[i] # {}
  <2> HIDE DEF h, g
  <2>1. h = Min(Holes) /\ g = Gap(h)
    BY DEF h, g
  <2> QED
    BY <1>1, <2>1, HoleFacts
<1>3. M \in SUBSET Cells /\ \A i \in M : i > h /\ seqs[i] # {} /\ ids[i] = Size
  BY DEF Movable
<1>4. D = {i \in M : Cardinality({j \in M : j > i}) < g} /\ D \in SUBSET M
  BY DEF Donors
<1>5. B \in SUBSET D
  BY DEF Starts
<1>6. S = {d \in D : Cardinality({e \in B : e <= d}) <= budget} /\ S \in SUBSET D
  BY DEF Moved
<1>7. \A d \in D : to[d] = h + Cardinality(BelowIn(D, d))
  BY DEF BelowIn
<1>8. g <= Cardinality(M)
  <2>1. Cardinality(M) >= g
    BY <1>1 DEF Suffices
  <2>2. Cardinality(M) \in Nat
    BY <1>3, CellSet
  <2> HIDE DEF g, M
  <2> QED
    BY <1>2, <2>1, <2>2
<1>9. budget \in Nat
  BY DEF DInv, PassType
<1> HIDE DEF h, g, M, D, B, S, to
<1>10. Cardinality(D) = g
  BY <1>2, <1>3, <1>4, <1>8, LastOnes
<1>11. D \in SUBSET Cells
  BY <1>3, <1>4
<1>12. /\ \A d \in D : to[d] \in h .. h + g - 1
       /\ \A d, e \in D : to[d] = to[e] => d = e
       /\ \A i \in h .. h + g - 1 : \E d \in D : to[d] = i
  <2>1. /\ \A d \in D : to[d] \in h .. h + Cardinality(D) - 1
        /\ \A d, e \in D : to[d] = to[e] => d = e
        /\ \A i \in h .. h + Cardinality(D) - 1 : \E d \in D : to[d] = i
    <3>1. h \in Nat
      BY <1>2
    <3> QED
      BY <1>7, <1>11, <3>1, Ranks
  <2> QED
    BY <1>10, <2>1
<1>13. /\ Cardinality(B \cap S) \in Nat /\ Cardinality(B \cap S) <= budget
       /\ Cardinality(B \cap S) < budget => S = D
  BY <1>5, <1>6, <1>9, <1>11, MovesSpent
<1>14. budget' \in Nat /\ (budget' > 0 => S = D)
  BY <1>1, <1>9, <1>13, SMT
<1>15. ASSUME NEW d \in S
       PROVE  d >= h + g /\ seqs[d] # {} /\ ids[d] = Size /\ to[d] \in h .. h + g - 1
  <2>1. d \in M /\ d \in D /\ d \in Cells
    BY <1>4, <1>6, <1>11
  <2>2. d > h /\ seqs[d] # {} /\ ids[d] = Size
    BY <1>3, <2>1
  <2>3. d \in Nat
    BY <2>1, Types DEF DInv
  <2>4. d \notin h .. h + g - 1
    BY <1>2, <2>2
  <2>5. d >= h + g
    BY <1>2, <2>2, <2>3, <2>4, SMT
  <2> QED
    BY <1>12, <2>1, <2>2, <2>5
<1>16. \A d, e \in S : to[d] = to[e] => d = e
  BY <1>6, <1>12
<1>17. S \in SUBSET Cells
  BY <1>6, <1>11
<1>18. Fills(S, to, h, g)
  BY <1>2, <1>15, <1>16, <1>17, Zenon DEF Fills
<1>19. budget' > 0 => \A i \in h .. h + g - 1 : \E d \in S : to[d] = i
  BY <1>12, <1>14
<1>20. FillsHole(S, to, h, g)
  BY <1>1, <1>14, <1>18, <1>19, Zenon DEF FillsHole
<1> QED
  BY <1>20

(* What the step does to the cells that are moved, to those they are moved *)
(* to, and to the others.                                                  *)
LEMMA FillEffect ==
  ASSUME IInv, PassType, NEW S, NEW to, NEW h, NEW g, FillsHole(S, to, h, g)
  PROVE  /\ \A d \in S :
              /\ d \in Cells /\ to[d] \in Cells /\ to[d] < h + g /\ ~ (d < h + g)
              /\ ~ (to[d] < hole) /\ seqs[to[d]] = {} /\ seqs[d] # {} /\ ids[d] = Size
              /\ pos'[to[d]] = pos[d] /\ seqs'[to[d]] = seqs[d] /\ delta'[to[d]] = delta[d]
              /\ pos'[d] = -1 /\ seqs'[d] = {} /\ delta'[d] = 0 /\ ids'[d] = to[d]
         /\ \A i \in Cells : i \notin S => ids'[i] = ids[i]
         /\ \A i \in Cells : i \notin S /\ (\A d \in S : to[d] # i) =>
              pos'[i] = pos[i] /\ seqs'[i] = seqs[i] /\ delta'[i] = delta[i]
<1>1. /\ S \in SUBSET Cells /\ h \in Nat /\ g \in Nat /\ hole <= h /\ hole \in Nat
      /\ \A i \in h .. h + g - 1 : i \in Cells /\ seqs[i] = {}
      /\ \A d \in S : d >= h + g /\ seqs[d] # {} /\ ids[d] = Size /\ to[d] \in h .. h + g - 1
      /\ \A d, e \in S : to[d] = to[e] => d = e
  <2>1. hole \in 0 .. Size /\ Size \in Nat
    BY Types DEF PassType
  <2>2. hole \in Nat
    BY <2>1, SMT
  <2> QED
    BY <2>2 DEF FillsHole, Fills
<1>2. /\ pos' = Relocate(pos, S, to, -1)
      /\ seqs' = Relocate(seqs, S, to, {})
      /\ delta' = Relocate(delta, S, to, 0)
      /\ ids' = [i \in Cells |-> IF i \in S THEN to[i] ELSE ids[i]]
  BY DEF FillsHole
<1>3. ASSUME NEW d \in S
      PROVE  /\ d \in Cells /\ to[d] \in Cells /\ to[d] < h + g /\ ~ (d < h + g)
             /\ ~ (to[d] < hole) /\ seqs[to[d]] = {} /\ seqs[d] # {} /\ ids[d] = Size
             /\ \A e \in S : to[e] # d
  <2>1. d \in Cells /\ to[d] \in Cells /\ to[d] \in h .. h + g - 1
        /\ seqs[to[d]] = {} /\ seqs[d] # {} /\ ids[d] = Size
    BY <1>1
  <2>2. d \in Nat /\ d >= h + g
    BY <1>1, <2>1, Types
  <2>3. to[d] < h + g /\ ~ (d < h + g) /\ ~ (to[d] < hole)
    BY <1>1, <2>1, <2>2, SMT
  <2>4. ASSUME NEW e \in S PROVE to[e] # d
    <3>1. to[e] \in h .. h + g - 1
      BY <1>1
    <3> QED
      BY <1>1, <2>2, <3>1, SMT
  <2> QED
    BY <2>1, <2>3, <2>4
<1>4. /\ \A d \in S : to[d] \in Cells => pos'[to[d]] = pos[d]
      /\ \A i \in Cells : (\A d \in S : to[d] # i) => pos'[i] = IF i \in S THEN -1 ELSE pos[i]
  BY <1>1, <1>2, Relocated DEF Relocate
<1>5. /\ \A d \in S : to[d] \in Cells => seqs'[to[d]] = seqs[d]
      /\ \A i \in Cells : (\A d \in S : to[d] # i) => seqs'[i] = IF i \in S THEN {} ELSE seqs[i]
  BY <1>1, <1>2, Relocated DEF Relocate
<1>6. /\ \A d \in S : to[d] \in Cells => delta'[to[d]] = delta[d]
      /\ \A i \in Cells : (\A d \in S : to[d] # i) => delta'[i] = IF i \in S THEN 0 ELSE delta[i]
  BY <1>1, <1>2, Relocated DEF Relocate
<1>7. \A i \in Cells : ids'[i] = IF i \in S THEN to[i] ELSE ids[i]
  BY <1>2
<1>8. ASSUME NEW d \in S
      PROVE  /\ pos'[to[d]] = pos[d] /\ seqs'[to[d]] = seqs[d] /\ delta'[to[d]] = delta[d]
             /\ pos'[d] = -1 /\ seqs'[d] = {} /\ delta'[d] = 0 /\ ids'[d] = to[d]
  BY <1>3, <1>4, <1>5, <1>6, <1>7
<1> QED
  BY <1>3, <1>4, <1>5, <1>6, <1>7, <1>8

(* As many cells are in use after the move as before.                      *)
LEMMA FillCount ==
  ASSUME IInv, PassType, NEW S, NEW to, NEW h, NEW g, FillsHole(S, to, h, g)
  PROVE  Cardinality(Occupied') = Cardinality(Occupied)
<1> DEFINE T == {to[d] : d \in S}
           f == [d \in S |-> to[d]]
<1>1. /\ \A d \in S : /\ d \in Cells /\ to[d] \in Cells /\ seqs[to[d]] = {} /\ seqs[d] # {}
                      /\ pos'[to[d]] = pos[d] /\ pos'[d] = -1
      /\ \A i \in Cells : i \notin S /\ (\A d \in S : to[d] # i) => pos'[i] = pos[i]
  BY FillEffect
<1>2. \A d, e \in S : to[d] = to[e] => d = e
  BY DEF FillsHole, Fills
<1>3. \A i \in Cells : pos[i] \in Int /\ (pos[i] < 0 <=> seqs[i] = {})
  BY Types DEF IInv, EmptyAgrees
<1>4. S \in SUBSET Occupied
  <2> SUFFICES ASSUME NEW d \in S PROVE d \in Cells /\ pos[d] >= 0
    BY DEF Occupied
  <2> QED
    BY <1>1, <1>3
<1>5. T \cap Occupied = {}
  <2> SUFFICES ASSUME NEW d \in S, to[d] \in Occupied PROVE FALSE
    OBVIOUS
  <2>1. to[d] \in Cells /\ pos[to[d]] >= 0 /\ seqs[to[d]] = {}
    BY <1>1 DEF Occupied
  <2> QED
    BY <1>3, <2>1
<1>6. Occupied' = (Occupied \ S) \cup T
  <2>1. ASSUME NEW i \in Cells, pos'[i] >= 0, i \notin T PROVE i \in Occupied \ S
    <3>1. i \notin S
      BY <1>1, <2>1
    <3>2. pos'[i] = pos[i]
      BY <1>1, <2>1, <3>1
    <3> QED
      BY <2>1, <3>1, <3>2 DEF Occupied
  <2>2. ASSUME NEW i \in Occupied, i \notin S PROVE i \in Cells /\ pos'[i] >= 0
    <3>1. \A d \in S : to[d] # i
      BY <1>5, <2>2
    <3> QED
      BY <1>1, <2>2, <3>1 DEF Occupied
  <2>3. ASSUME NEW d \in S PROVE to[d] \in Cells /\ pos'[to[d]] >= 0
    BY <1>1, <1>4 DEF Occupied
  <2>4. Occupied' = {i \in Cells : pos'[i] >= 0}
    BY DEF Occupied
  <2> QED
    BY <2>1, <2>2, <2>3, <2>4
<1>7. IsFiniteSet(Occupied) /\ Cardinality(Occupied) \in Nat
  <2>1. Occupied \in SUBSET Cells
    BY DEF Occupied
  <2> QED
    BY <2>1, CellSet
<1>8. IsFiniteSet(S) /\ Cardinality(S) \in Nat
  BY <1>4, <1>7, FS_Subset, FS_CardinalityType
<1>9. IsFiniteSet(T) /\ Cardinality(T) = Cardinality(S)
  <2>1. f \in Injection(S, T) /\ f \in Surjection(S, T)
    BY <1>2 DEF Injection, IsInjective, Surjection
  <2> HIDE DEF f, T
  <2> QED
    BY <1>8, <2>1, FS_Surjection
<1> HIDE DEF T, f
<1>10. Cardinality(Occupied \ S) = Cardinality(Occupied) - Cardinality(S)
       /\ IsFiniteSet(Occupied \ S)
  <2>1. Occupied \cap S = S
    BY <1>4
  <2> QED
    BY <1>7, <2>1, FS_Difference
<1>11. Cardinality((Occupied \ S) \cup T)
         = Cardinality(Occupied \ S) + Cardinality(T) - Cardinality((Occupied \ S) \cap T)
  BY <1>9, <1>10, FS_Union
<1>12. Cardinality((Occupied \ S) \cap T) = 0
  <2>1. (Occupied \ S) \cap T = {}
    BY <1>5
  <2> QED
    BY <2>1, FS_EmptySet, Zenon
<1> QED
  BY <1>6, <1>7, <1>8, <1>9, <1>10, <1>11, <1>12, SMT

(* The invariant of the cache holds of the cells that have been moved.     *)
LEMMA FillKeepsCache ==
  ASSUME DInv, FillHole, NEW S, NEW to, NEW h, NEW g, FillsHole(S, to, h, g)
  PROVE  IInv'
<1>1. /\ step = "fill" /\ IInv /\ PassType
      /\ UNCHANGED <<used, shift, batchVars, pending, ret>>
  BY DEF DInv, FillHole, AtHole
<1>2. pending = {} /\ phase = "idle" /\ ~ shift
  BY <1>1 DEF DInv, Control
<1>3. /\ \A d \in S : /\ d \in Cells /\ to[d] \in Cells
                      /\ pos'[to[d]] = pos[d] /\ seqs'[to[d]] = seqs[d] /\ delta'[to[d]] = delta[d]
                      /\ pos'[d] = -1 /\ seqs'[d] = {} /\ delta'[d] = 0
      /\ \A i \in Cells : i \notin S /\ (\A d \in S : to[d] # i) =>
           pos'[i] = pos[i] /\ seqs'[i] = seqs[i] /\ delta'[i] = delta[i]
  BY <1>1, FillEffect
<1>4. \A i \in Cells : pos[i] \in -1 .. MaxPos /\ seqs[i] \in SUBSET Seqs /\ delta[i] = 0
                       /\ (pos[i] < 0 <=> seqs[i] = {})
  BY <1>1, <1>2 DEF IInv, TypeOK, NoStaleShift, EmptyAgrees
<1>5. \A i \in Cells : pos'[i] \in -1 .. MaxPos /\ seqs'[i] \in SUBSET Seqs /\ delta'[i] = 0
                       /\ (pos'[i] < 0 <=> seqs'[i] = {})
  <2> TAKE i \in Cells
  <2>1. CASE i \in S
    <3>1. pos'[i] = -1 /\ seqs'[i] = {} /\ delta'[i] = 0
      BY <1>3, <2>1
    <3>2. -1 \in -1 .. MaxPos /\ -1 < 0
      BY KvAssumption
    <3> QED
      BY <3>1, <3>2
  <2>2. CASE \E d \in S : to[d] = i
    BY <1>3, <1>4, <2>2
  <2>3. CASE i \notin S /\ \A d \in S : to[d] # i
    BY <1>3, <1>4, <2>3
  <2> QED
    BY <2>1, <2>2, <2>3
<1>6. /\ pos' = [i \in Cells |-> pos'[i]] /\ seqs' = [i \in Cells |-> seqs'[i]]
      /\ delta' = [i \in Cells |-> delta'[i]] /\ head' = used
  BY DEF FillsHole, Relocate
<1>7. TypeOK'
  <2>1. /\ pos' \in [Cells -> -1 .. MaxPos] /\ seqs' \in [Cells -> SUBSET Seqs]
        /\ delta' \in [Cells -> Int]
    BY <1>5, <1>6
  <2>2. head' \in 0 .. Size /\ used' \in 0 .. Size
    BY <1>1, <1>6 DEF IInv, TypeOK
  <2>3. /\ pending' \subseteq (0 .. Size) \X (0 .. Size)
        /\ phase' \in {"idle", "search", "compute"}
        /\ sid' \in Seqs \cup {0} /\ next' \in 0 .. MaxPos
        /\ left' \in 0 .. NBatch /\ width' \in 0 .. NUBatch /\ tested' \in Nat
        /\ ret' \in {"none", "ok", "no_slot", "error"}
    BY <1>1 DEF IInv, TypeOK, batchVars
  <2>4. shift' \in BOOLEAN
    BY <1>1, Zenon DEF IInv, TypeOK
  <2> QED
    BY <2>1, <2>2, <2>3, <2>4, Zenon DEF TypeOK
<1>8. BatchOK' /\ SearchSkipsNoSlot' /\ PendingOK' /\ StalePendingIsFree'
  <2>1. phase' = "idle" /\ pending' = {}
    BY <1>1, <1>2 DEF batchVars
  <2> QED
    BY <2>1 DEF BatchOK, SearchSkipsNoSlot, PendingOK, StalePendingIsFree, PendingCells
<1>9. EmptyAgrees' /\ NoStaleShift'
  BY <1>5 DEF EmptyAgrees, NoStaleShift
<1>10. UsedCount'
  <2>1. Cardinality(Occupied') = Cardinality(Occupied)
    BY <1>1, FillCount
  <2> QED
    BY <1>1, <2>1 DEF IInv, UsedCount
<1> QED
  BY <1>7, <1>8, <1>9, <1>10 DEF IInv

(* The pass knows where every cell has gone.                               *)
LEMMA FillKeepsMoves ==
  ASSUME DInv, FillHole, NEW S, NEW to, NEW h, NEW g, FillsHole(S, to, h, g)
  PROVE  MovedOK' /\ Filled'
<1>1. /\ IInv /\ PassType /\ MovedOK /\ Filled /\ step = "fill" /\ budget > 0
  BY DEF DInv, FillHole, AtHole
<1>2. /\ \A d \in S : /\ d \in Cells /\ to[d] \in Cells /\ to[d] < h + g /\ ~ (d < h + g)
                      /\ ~ (to[d] < hole) /\ seqs[d] # {} /\ ids[d] = Size
                      /\ seqs'[to[d]] = seqs[d] /\ seqs'[d] = {} /\ ids'[d] = to[d]
      /\ \A i \in Cells : i \notin S => ids'[i] = ids[i]
      /\ \A i \in Cells : i \notin S /\ (\A d \in S : to[d] # i) => seqs'[i] = seqs[i]
  BY <1>1, FillEffect
<1>3. /\ hole' = h + g /\ h \in Nat /\ g \in Nat /\ hole \in Nat /\ hole <= h
      /\ \A d, e \in S : to[d] = to[e] => d = e
      /\ \A i \in Cells : hole <= i /\ i < h => seqs[i] # {}
      /\ budget' > 0 => \A i \in h .. h + g - 1 : \E d \in S : to[d] = i
  <2>1. hole \in 0 .. Size /\ Size \in Nat
    BY <1>1, Types DEF PassType
  <2>2. hole \in Nat
    BY <2>1, SMT
  <2> QED
    BY <2>2 DEF FillsHole, Fills
<1>4. \A i \in Cells : i \in Nat /\ i # Size /\ ids[i] \in Int
  BY <1>1, KvAssumption DEF Cells, PassType
<1>5. ASSUME NEW d \in Cells, ids'[d] # Size
      PROVE  ids'[d] < hole' /\ (seqs'[d] = {} \/ d < hole')
  <2>1. CASE d \in S
    BY <1>2, <1>3, <2>1
  <2>2. CASE d \notin S
    <3>1. ids[d] < hole /\ (seqs[d] = {} \/ d < hole)
      BY <1>1, <1>2, <1>5, <2>2 DEF MovedOK
    <3>2. ids'[d] < hole' /\ (d < hole => d < hole')
      BY <1>2, <1>3, <1>4, <2>2, <3>1, SMT
    <3>3. CASE \E x \in S : to[x] = d
      BY <1>2, <1>3, <3>2, <3>3
    <3>4. CASE \A x \in S : to[x] # d
      BY <1>2, <2>2, <3>1, <3>2, <3>4
    <3> QED
      BY <3>3, <3>4
  <2> QED
    BY <2>1, <2>2
<1>6. ASSUME NEW d \in Cells, NEW e \in Cells, ids'[d] # Size, ids'[d] = ids'[e]
      PROVE  d = e
  <2>1. ASSUME NEW x \in S, NEW y \in Cells, y \notin S, ids'[y] # Size
        PROVE  ids'[x] # ids'[y]
    <3>1. ids'[x] = to[x] /\ ~ (to[x] < hole) /\ ids'[y] = ids[y]
      BY <1>2, <2>1
    <3>2. ids[y] < hole
      BY <1>1, <2>1, <3>1 DEF MovedOK
    <3> QED
      BY <3>1, <3>2
  <2>2. CASE d \in S /\ e \in S
    BY <1>2, <1>3, <1>6, <2>2
  <2>3. CASE d \notin S /\ e \notin S
    BY <1>1, <1>2, <1>6, <2>3 DEF MovedOK
  <2>4. CASE d \in S /\ e \notin S
    BY <1>6, <2>1, <2>4
  <2>5. CASE d \notin S /\ e \in S
    BY <1>6, <2>1, <2>5
  <2> QED
    BY <2>2, <2>3, <2>4, <2>5
<1>7. MovedOK'
  BY <1>5, <1>6, Zenon DEF MovedOK
<1>8. ASSUME budget' > 0, NEW i \in Cells, i < hole' PROVE seqs'[i] # {}
  <2>1. CASE \E d \in S : to[d] = i
    BY <1>2, <2>1
  <2>2. CASE \A d \in S : to[d] # i
    <3>1. i \notin h .. h + g - 1
      BY <1>3, <1>8, <2>2
    <3>2. i < h
      BY <1>3, <1>4, <1>8, <3>1, SMT
    <3>3. i \notin S
      BY <1>2, <1>3, <1>8
    <3>4. seqs[i] # {}
      <4>1. CASE i < hole
        BY <1>1, <4>1 DEF Filled
      <4>2. CASE ~ (i < hole)
        <5>1. hole <= i
          BY <1>3, <1>4, <4>2, SMT
        <5> QED
          BY <1>3, <3>2, <5>1
      <4> QED
        BY <4>1, <4>2
    <3> QED
      BY <1>2, <2>2, <3>3, <3>4
  <2> QED
    BY <2>1, <2>2
<1>9. Filled'
  BY <1>8 DEF Filled
<1> QED
  BY <1>7, <1>9

(* The data of a cell that has been moved is still where it came from.     *)
LEMMA FillKeepsData ==
  ASSUME DInv, FillHole, NEW S, NEW to, NEW h, NEW g, FillsHole(S, to, h, g)
  PROVE  DataOK'
<1>1. /\ IInv /\ PassType /\ step = "fill" /\ step' = "fill" /\ rot' = rot
  BY DEF DInv, FillHole, AtHole
<1>2. /\ \A d \in S : /\ d \in Cells /\ to[d] \in Cells /\ ~ (d < h + g)
                      /\ ~ (to[d] < hole) /\ seqs[d] # {} /\ ids[d] = Size
                      /\ pos'[to[d]] = pos[d] /\ pos'[d] = -1 /\ ids'[d] = to[d]
      /\ \A i \in Cells : i \notin S => ids'[i] = ids[i]
      /\ \A i \in Cells : i \notin S /\ (\A d \in S : to[d] # i) => pos'[i] = pos[i]
  BY <1>1, FillEffect
<1>3. h \in Nat /\ g \in Nat /\ hole \in Nat /\ hole <= h
  <2>1. hole \in 0 .. Size /\ Size \in Nat
    BY <1>1, Types DEF PassType
  <2>2. hole \in Nat
    BY <2>1, SMT
  <2> QED
    BY <2>2 DEF FillsHole, Fills
<1>4. \A i \in Cells : i \in Nat /\ i # Size
  BY KvAssumption DEF Cells
<1>5. /\ \A d \in Cells : ids[d] # Size => ids[d] < hole
      /\ \A i \in Cells : pos[i] >= 0 =>
           /\ \A d \in Cells : ids[d] = i => rot[d] = pos[i]
           /\ (\A d \in Cells : ids[d] # i) => ids[i] = Size /\ rot[i] = pos[i]
  BY <1>1 DEF DInv, MovedOK, DataOK
<1>6. \A d \in S : pos[d] >= 0
  <2>1. \A d \in Cells : pos[d] \in Int /\ (pos[d] < 0 <=> seqs[d] = {})
    BY <1>1, Types DEF IInv, EmptyAgrees
  <2> QED
    BY <1>2, <2>1, SMT
<1>7. ASSUME NEW i \in Cells, pos'[i] >= 0, NEW d \in Cells, ids'[d] = i
      PROVE  rot[d] = pos'[i]
  <2>1. CASE d \in S
    <3>1. pos'[i] = pos[d] /\ pos[d] >= 0
      BY <1>2, <1>6, <1>7, <2>1
    <3>2. ASSUME NEW x \in Cells, ids[x] = d PROVE FALSE
      <4>1. d < hole /\ ~ (d < h + g)
        BY <1>2, <1>4, <1>5, <2>1, <3>2
      <4> QED
        BY <1>3, <1>4, <4>1, SMT
    <3>3. rot[d] = pos[d]
      BY <1>5, <3>1, <3>2
    <3> QED
      BY <3>1, <3>3
  <2>2. CASE d \notin S
    <3>1. ids[d] = i /\ i < hole
      BY <1>2, <1>4, <1>5, <1>7, <2>2
    <3>2. i \notin S /\ \A x \in S : to[x] # i
      <4>1. i < h + g
        BY <1>3, <1>4, <3>1, SMT
      <4> QED
        BY <1>2, <3>1, <4>1
    <3>3. pos'[i] = pos[i]
      BY <1>2, <3>2
    <3> QED
      BY <1>5, <1>7, <3>1, <3>3
  <2> QED
    BY <2>1, <2>2
<1>8. ASSUME NEW i \in Cells, pos'[i] >= 0, \A d \in Cells : ids'[d] # i
      PROVE  ids'[i] = Size /\ rot[i] = pos'[i]
  <2>1. \A d \in S : to[d] # i
    BY <1>2, <1>8
  <2>2. i \notin S
    BY <1>2, <1>8, SMT
  <2>3. pos'[i] = pos[i] /\ ids'[i] = ids[i]
    BY <1>2, <2>1, <2>2
  <2>4. \A d \in Cells : ids[d] # i
    BY <1>2, <1>4, <1>8
  <2> QED
    BY <1>5, <1>8, <2>3, <2>4
<1>9. DataFollowsCells'
  BY <1>1 DEF DataFollowsCells
<1> QED
  BY <1>1, <1>7, <1>8, <1>9, Zenon DEF DataOK

LEMMA FillHoleKeeps ==
  ASSUME DInv, FillHole PROVE DInv'
<1>1. PICK S, to, h, g : FillsHole(S, to, h, g)
  BY FillHoleFills
<1>2. IInv' /\ MovedOK' /\ Filled' /\ DataOK'
  BY <1>1, FillKeepsCache, FillKeepsMoves, FillKeepsData
<1>3. /\ step = "fill" /\ IInv /\ PassType /\ Control
      /\ UNCHANGED <<used, shift, batchVars, pending, ret, do_defrag, step, rot>>
  BY DEF DInv, FillHole, AtHole
<1>4. Control'
  BY <1>3 DEF Control, batchVars
<1>5. Still'
  BY <1>3 DEF Still
<1>6. PassType'
  <2>1. /\ ids' = [i \in Cells |-> IF i \in S THEN to[i] ELSE ids[i]]
        /\ budget' \in Nat /\ hole' = h + g /\ h \in Nat /\ g \in Nat /\ h + g <= used
        /\ \A d \in S : to[d] \in h .. h + g - 1
    BY <1>1 DEF FillsHole, Fills
  <2>2. \A d \in S : to[d] \in Cells
    BY <1>1, <1>3, FillEffect
  <2>3. used \in 0 .. Size /\ Size \in Nat
    BY <1>3, Types
  <2>4. hole' \in 0 .. Size
    BY <2>1, <2>3, SMT
  <2>5. \A i \in Cells : i \in 0 .. Size
    BY <2>3 DEF Cells
  <2>6. ids' \in [Cells -> 0 .. Size]
    BY <1>3, <2>1, <2>2, <2>5 DEF PassType
  <2> QED
    BY <1>3, <2>1, <2>4, <2>6 DEF PassType
<1> QED
  BY <1>2, <1>4, <1>5, <1>6 DEF DInv

-----------------------------------------------------------------------------
(* The data is copied.                                                     *)

LEMMA DefragDoneKeeps ==
  ASSUME DInv, DefragDone PROVE DInv'
<1> DEFINE S == {d \in Cells : ids[d] # Size}
<1>1. /\ step = "fill" /\ step' = "none" /\ do_defrag' = FALSE /\ UNCHANGED vars
      /\ ids' = [i \in Cells |-> Size] /\ hole' = 0 /\ budget' = 0
      /\ rot' = Relocate(rot, S, ids, 0)
  BY DEF DefragDone, Copied
<1>2. IInv /\ PassType /\ ~ shift
  BY <1>1 DEF DInv, Control
<1>3. IInv'
  BY <1>1, <1>2, NextIInv
<1>4. Control'
  BY <1>1 DEF Control
<1>5. PassType' /\ Still' /\ Filled' /\ MovedOK'
  <2>1. rot' \in [Cells -> Int]
    <3>1. \A d \in Cells : rot[d] \in Int
      BY <1>2 DEF PassType
    <3>2. ASSUME NEW i \in Cells PROVE rot'[i] \in Int
      <4>1. CASE \E d \in S : ids[d] = i
        <5> DEFINE c == CHOOSE d \in S : ids[d] = i
        <5>1. c \in S
          BY <4>1
        <5>2. rot'[i] = rot[c]
          BY <1>1, <4>1 DEF Relocate
        <5> QED
          BY <3>1, <5>1, <5>2
      <4>2. CASE ~ \E d \in S : ids[d] = i
        BY <1>1, <3>1, <4>2 DEF Relocate
      <4> QED
        BY <4>1, <4>2
    <3>3. rot' = [i \in Cells |-> rot'[i]]
      BY <1>1 DEF Relocate
    <3> QED
      BY <3>2, <3>3
  <2>2. Size \in 0 .. Size /\ 0 \in 0 .. Size /\ 0 \in Nat
    BY KvAssumption
  <2> QED
    BY <1>1, <2>1, <2>2 DEF PassType, Still, Filled, MovedOK
<1>6. DataFollowsCells'
  <2>1. /\ \A d, e \in S : ids[d] = ids[e] => d = e
        /\ \A i \in Cells : pos[i] >= 0 =>
             /\ \A d \in Cells : ids[d] = i => rot[d] = pos[i]
             /\ (\A d \in Cells : ids[d] # i) => ids[i] = Size /\ rot[i] = pos[i]
    BY <1>1 DEF DInv, MovedOK, DataOK
  <2>2. \A i \in Cells : i # Size /\ delta'[i] = 0 /\ pos'[i] = pos[i] /\ pos[i] \in Int
    <3>1. \A i \in Cells : i # Size
      BY KvAssumption DEF Cells
    <3>2. \A i \in Cells : delta[i] = 0 /\ pos[i] \in Int
      BY <1>2, Types DEF IInv, NoStaleShift
    <3> QED
      BY <1>1, <3>1, <3>2 DEF vars, cellVars
  <2>3. /\ \A d \in S : ids[d] \in Cells => rot'[ids[d]] = rot[d]
        /\ \A i \in Cells : (\A d \in S : ids[d] # i) => rot'[i] = IF i \in S THEN 0 ELSE rot[i]
    BY <1>1, <2>1, Relocated DEF Relocate
  <2>4. ASSUME NEW i \in Cells, pos[i] >= 0 PROVE rot'[i] = pos[i]
    <3>1. CASE \E d \in S : ids[d] = i
      BY <2>1, <2>3, <2>4, <3>1
    <3>2. CASE \A d \in S : ids[d] # i
      <4>1. \A d \in Cells : ids[d] # i
        BY <2>2, <3>2
      <4>2. ids[i] = Size /\ rot[i] = pos[i]
        BY <2>1, <2>4, <4>1
      <4> QED
        BY <2>3, <3>2, <4>2
    <3> QED
      BY <3>1, <3>2
  <2>5. ASSUME NEW i \in Cells, pos'[i] >= 0 PROVE rot'[i] + delta'[i] = pos'[i]
    <3>1. rot'[i] = pos[i] /\ delta'[i] = 0 /\ pos'[i] = pos[i] /\ pos[i] \in Int
      BY <2>2, <2>4, <2>5
    <3> QED
      BY <3>1, SMT
  <2> QED
    BY <2>5 DEF DataFollowsCells
<1>7. DataOK'
  BY <1>1, <1>6 DEF DataOK
<1> QED
  BY <1>3, <1>4, <1>5, <1>7 DEF DInv

-----------------------------------------------------------------------------
LEMMA InitDInv ==
  ASSUME DInit PROVE DInv
<1>1. /\ IInv /\ pending = {} /\ step = "none" /\ do_defrag = FALSE
      /\ ids = [i \in Cells |-> Size] /\ hole = 0 /\ budget = 0
      /\ rot = [i \in Cells |-> 0] /\ pos = [i \in Cells |-> -1]
  BY InitIInv DEF DInit, Init
<1>2. Control /\ Still /\ Filled
  BY <1>1 DEF Control, Still, Filled
<1>3. PassType /\ MovedOK
  BY <1>1, KvAssumption DEF PassType, MovedOK
<1>4. DataFollowsCells
  <2>1. \A i \in Cells : ~ (pos[i] >= 0)
    BY <1>1
  <2> QED
    BY <2>1 DEF DataFollowsCells
<1>5. DataOK
  BY <1>1, <1>4 DEF DataOK
<1> QED
  BY <1>1, <1>2, <1>3, <1>5 DEF DInv

LEMMA StutterDInv ==
  ASSUME DInv, UNCHANGED dvars PROVE DInv'
<1>1. UNCHANGED <<pos, delta, seqs, used, shift, phase, pending, do_defrag, step, ids, hole,
                  budget, rot>> /\ UNCHANGED vars
  BY DEF dvars, vars, cellVars, batchVars, defragVars
<1>2. IInv'
  BY <1>1, NextIInv DEF DInv
<1>3. Control' /\ PassType' /\ Still' /\ Filled' /\ MovedOK' /\ DataOK'
  BY <1>1 DEF DInv, Control, PassType, Still, Filled, MovedOK, DataOK, DataFollowsCells
<1> QED
  BY <1>2, <1>3 DEF DInv

LEMMA NextDInv == DInv /\ [TidyNext]_dvars => DInv'
<1> SUFFICES ASSUME DInv, [TidyNext]_dvars PROVE DInv'
  OBVIOUS
<1>1. CASE CacheStep
  BY <1>1, CacheStepKeeps
<1>2. CASE StartBatch
  BY <1>2, StartBatchKeeps
<1>3. CASE StoreUBatch
  BY <1>3, StoreUBatchKeeps
<1>4. CASE EndDecode
  BY <1>4, EndDecodeKeeps
<1>5. CASE DefragSched /\ TidyNext
  <2>1. pending' = {} \/ do_defrag
    BY <1>5 DEF DefragSched, TidyNext
  <2>2. pending = {}
    BY <1>5, <2>1 DEF DefragSched, Edit, DInv, Control
  <2> QED
    BY <1>5, <2>2, DefragSchedKeeps
<1>6. CASE Update
  BY <1>6, UpdateKeeps
<1>7. CASE FillHole
  BY <1>7, FillHoleKeeps
<1>8. CASE DefragDone
  BY <1>8, DefragDoneKeeps
<1>9. CASE UNCHANGED dvars
  BY <1>9, StutterDInv
<1> QED
  BY <1>1, <1>2, <1>3, <1>4, <1>5, <1>6, <1>7, <1>8, <1>9, Zenon
     DEF TidyNext, DNext, DefragSteps

(* The invariant holds in every state of a cache that is defragmented only *)
(* when no range of a failed batch is pending.                             *)
THEOREM DefragInvariant == TidySpec => []DInv
<1>1. DInit => DInv
  BY InitDInv
<1>2. DInv /\ [TidyNext]_dvars => DInv'
  BY NextDInv
<1> QED
  BY <1>1, <1>2, PTL DEF TidySpec

(* defrag_prepare's assertion never fails: the cells behind a hole always  *)
(* suffice to fill it, whatever was edited, rolled back or moved before.   *)
THEOREM AssertionHolds == TidySpec => []HolesCanBeFilled
<1>1. DInv => HolesCanBeFilled
  BY HoleSuffices DEF HolesCanBeFilled
<1> QED
  BY <1>1, DefragInvariant, PTL

(* Between passes the K data of every cell in use is rotated to the cell's *)
(* position, up to the shift that update has still to apply.               *)
THEOREM DataStaysRight == TidySpec => []DataFollowsCells
<1>1. DInv => DataFollowsCells
  BY DEF DInv, DataOK
<1> QED
  BY <1>1, DefragInvariant, PTL

(* The counter, the two notions of a free cell and the left-over ranges    *)
(* stay right through defragmentations too: the steps of a pass keep the   *)
(* invariant that KvCacheProofs proves of the cache by itself.             *)
THEOREM CacheStaysRight ==
  TidySpec => [](TypeOK /\ UsedCount /\ EmptyAgrees /\ StalePendingIsFree
                 /\ NoStaleShift /\ SearchSkipsNoSlot)
<1>1. DInv => /\ TypeOK /\ UsedCount /\ EmptyAgrees /\ StalePendingIsFree
              /\ NoStaleShift /\ SearchSkipsNoSlot
  BY DEF DInv, IInv
<1> QED
  BY <1>1, DefragInvariant, PTL

(* The first cells, as many as are in use, are the ones in use when all of *)
(* them are.                                                               *)
LEMMA FrontIsAll ==
  ASSUME IInv, \A i \in Cells : i < used => pos[i] >= 0
  PROVE  \A i \in Cells : pos[i] >= 0 <=> i < used
<1> DEFINE k == used - 1
           F == 0 .. k
<1>1. used \in Nat /\ used <= Size /\ Size \in Nat
  <2>1. used \in 0 .. Size /\ Size \in Nat
    BY Types
  <2> QED
    BY <2>1, SMT
<1>2. \A i \in Cells : i \in F <=> i < used
  BY <1>1, Types
<1>3. F \in SUBSET Cells
  BY <1>1 DEF Cells
<1>4. Cardinality(F) = used
  <2>1. 0 \in Int /\ k \in Int /\ (IF 0 > k THEN 0 ELSE k - 0 + 1) = used
    BY <1>1, SMT
  <2> HIDE DEF k
  <2>2. IsFiniteSet(0 .. k) /\ Cardinality(0 .. k) = IF 0 > k THEN 0 ELSE k - 0 + 1
    BY <2>1, FS_Interval, Zenon
  <2> QED
    BY <2>1, <2>2
<1> HIDE DEF F
<1>5. Occupied \in SUBSET Cells /\ F \in SUBSET Occupied
  BY <1>2, <1>3 DEF Occupied
<1>6. Cardinality(F) = Cardinality(Occupied)
  BY <1>4 DEF IInv, UsedCount
<1>7. F = Occupied
  BY <1>5, <1>6, SubsetCount
<1> QED
  BY <1>2, <1>7 DEF Occupied

(* A pass with moves to spare leaves the cells in use at the front, none   *)
(* behind them.                                                            *)
THEOREM PassCompacts == TidySpec => Compacts
<1>1. ASSUME DInv, [TidyNext]_dvars, step = "fill", step' = "none", budget > 0
      PROVE  \A i \in Cells : pos[i] >= 0 <=> i < used
  <2>1. Holes = {}
    <3>1. DefragDone
      BY <1>1 DEF TidyNext, DNext, DefragSteps, CacheStep, StartBatch, StoreUBatch, EndDecode,
         DefragSched, Update, FillHole, dvars, defragVars
    <3> QED
      BY <1>1, <3>1 DEF DefragDone
  <2>2. IInv /\ PassType /\ Filled
    BY <1>1 DEF DInv
  <2>3. used \in 0 .. Size /\ hole \in 0 .. Size /\ Size \in Nat
    BY <2>2, Types DEF PassType
  <2>4. ASSUME NEW i \in Cells, i < used PROVE pos[i] >= 0
    <3>1. i \in Nat /\ pos[i] \in Int /\ (pos[i] < 0 <=> seqs[i] = {})
      BY <2>2, Types DEF IInv, EmptyAgrees
    <3>2. seqs[i] # {}
      <4>1. CASE i < hole
        BY <1>1, <2>2, <4>1 DEF Filled
      <4>2. CASE ~ (i < hole)
        <5>1. i \in hole .. used - 1
          BY <2>3, <2>4, <3>1, <4>2, SMT
        <5> QED
          BY <2>1, <5>1 DEF Holes
      <4> QED
        BY <4>1, <4>2
    <3> QED
      BY <3>1, <3>2, SMT
  <2> QED
    BY <2>2, <2>4, FrontIsAll
<1>2. DInv /\ [TidyNext]_dvars
        => [step = "fill" /\ step' = "none" /\ budget > 0
              => \A i \in Cells : pos[i] >= 0 <=> i < used]_dvars
  BY <1>1
<1>3. TidySpec => []DInv
  BY DefragInvariant
<1>4. TidySpec => [][TidyNext]_dvars
  BY PTL DEF TidySpec
<1>5. []DInv /\ [][TidyNext]_dvars => Compacts
  BY <1>2, PTL DEF Compacts
<1> QED
  BY <1>3, <1>4, <1>5, PTL

(* A cache that is defragmented between its batches gives up a search only *)
(* when no run of free cells is long enough: a pass begins and ends between*)
(* two decodes, so no cell moves while the starts are being refuted.       *)
THEOREM SearchStaysComplete == TidySpec => NoSlotOnlyIfNone
<1>1. ASSUME DInv, [TidyNext]_dvars, phase = "search", phase' = "idle"
      PROVE  \A h \in Cells : ~ Run(h, width)
  <2>1. SearchGivesUp
    <3>1. phase' # phase /\ ~ UNCHANGED vars
      BY <1>1 DEF vars, batchVars
    <3>2. CacheStep \/ StartBatch \/ StoreUBatch \/ EndDecode \/ DefragSched \/ Update
            \/ FillHole \/ DefragDone
      BY <1>1, <3>1 DEF TidyNext, DNext, DefragSteps, dvars
    <3>3. CacheStep
      BY <1>1, <3>1, <3>2 DEF StartBatch, Decode, StoreUBatch, TakeSlot, EndDecode, Commit,
         DefragSched, Update, Edit, FillHole, DefragDone, batchVars
    <3> QED
      BY <1>1, <3>3 DEF CacheStep, Edits, Clear, SeqRm, SeqCp, SeqKeep, SeqAdd, SeqDiv, Edit,
         DecodeEmpty, DecodeRejected, SearchWrap, SearchOn, NextUBatch, ComputeFails
  <2> QED
    BY <1>1, <2>1, GivesUpRefutes DEF DInv
<1>2. DInv /\ [TidyNext]_dvars
        => [phase = "search" /\ phase' = "idle" => \A h \in Cells : ~ Run(h, width)]_vars
  BY <1>1
<1>3. TidySpec => []DInv
  BY DefragInvariant
<1>4. TidySpec => [][TidyNext]_dvars
  BY PTL DEF TidySpec
<1>5. []DInv /\ [][TidyNext]_dvars => NoSlotOnlyIfNone
  BY <1>2, PTL DEF NoSlotOnlyIfNone
<1> QED
  BY <1>3, <1>4, <1>5, PTL

(* A decode of a cache that is defragmented ends as well: a pass runs      *)
(* between two decodes and takes no step of either.                        *)
THEOREM DecodeStillEnds == TidySpec => DecodeAdvances
<1> DEFINE Inv == DInv /\ TestedOK
<1>1. DInit => Inv
  BY InitDInv DEF DInit, Init, TestedOK
<1>2. ASSUME Inv, [TidyNext]_dvars
      PROVE  /\ TestedOK'
             /\ phase # "idle" => UNCHANGED vars \/ (0 <= StepsLeft' /\ StepsLeft' < StepsLeft)
  <2>1. CASE DecodeSteps
    BY <1>2, <2>1, StepAdvances DEF DInv
  <2>2. CASE Edits \/ DecodeEmpty \/ DecodeRejected \/ DefragSched \/ Update \/ FillHole
    <3>1. phase = "idle"
      BY <1>2, <2>2, EditsBetween DEF Edit, DecodeEmpty, DecodeRejected, DefragSched, Update,
         FillHole, AtHole, DInv, Control
    <3>2. phase' = "idle"
      BY <2>2, <3>1, EditsBetween DEF Edit, DecodeEmpty, DecodeRejected, EndBatch, DefragSched,
         Update, FillHole, batchVars
    <3> QED
      BY <3>1, <3>2 DEF TestedOK
  <2>3. CASE StartBatch
    BY <2>3, DecodeStarts DEF StartBatch, Decode
  <2>4. CASE UNCHANGED vars
    BY <1>2, <2>4 DEF TestedOK, vars, batchVars
  <2> QED
    BY <1>2, <2>1, <2>2, <2>3, <2>4, Zenon DEF TidyNext, DNext, CacheStep, StoreUBatch,
       EndDecode, DefragSteps, DefragDone, DecodeSteps, dvars
<1>3. Inv /\ [TidyNext]_dvars => Inv'
  BY <1>2, NextDInv
<1>4. Inv /\ [TidyNext]_dvars
        => [phase # "idle" => 0 <= StepsLeft' /\ StepsLeft' < StepsLeft]_vars
  BY <1>2
<1> HIDE DEF Inv
<1>5. TidySpec => []Inv /\ [][TidyNext]_dvars
  BY <1>1, <1>3, PTL DEF TidySpec
<1>6. []Inv /\ [][TidyNext]_dvars => DecodeAdvances
  BY <1>4, PTL DEF DecodeAdvances
<1> QED
  BY <1>5, <1>6, PTL
=============================================================================
