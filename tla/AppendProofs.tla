---------------------------- MODULE AppendProofs -----------------------------
(***************************************************************************)
(* The cache of a program that only decodes is a counter, whatever its     *)
(* size, the batches and the ubatches: AppendSpec implements AppendKv.     *)
(* LLMProcessor is built on that module.                                   *)
(***************************************************************************)
EXTENDS KvCacheProofs

(* The cells in use are the first ones; the first b hold committed tokens  *)
(* and the others those of the batch under way.  A range a failed batch    *)
(* has left in the list lies behind b, and the head is never behind the    *)
(* first free cell, so that a search ends there if there is room.          *)
Packed(b) ==
  /\ b <= used /\ head <= used
  /\ \A i \in Cells : pos[i] >= 0 <=> i < used
  /\ \A i \in Cells : i \in PendingCells /\ pos[i] >= 0 <=> b <= i /\ i < used
  /\ \A r \in pending : r[1] >= b
  /\ b < used => \E r \in pending : r[1] = b
  /\ phase = "idle" => b = used
  /\ phase = "compute" => b + width <= used

AInv == IInv /\ \E b \in Nat : Packed(b)

(* What is left of a batch counts from the cells committed before it.      *)
Wanted ==
  IF phase = "idle" THEN 0
  ELSE used - UsedBefore + left - IF phase = "compute" THEN width ELSE 0

-----------------------------------------------------------------------------
LEMMA PrefixCount ==
  ASSUME NEW b \in 0 .. Size, NEW S, \A i : i \in S <=> i \in Cells /\ i < b
  PROVE  Cardinality(S) = b
<1>1. Size \in Nat
  BY KvAssumption
<1>2. CASE b = 0
  <2>1. \A i : i \notin S
    BY <1>1, <1>2 DEF Cells
  <2>2. Cardinality(S) = 0
    BY <2>1, S = {}, FS_EmptySet, Zenon
  <2> QED
    BY <1>2, <2>2
<1>3. CASE b # 0
  <2> DEFINE k == b - 1
  <2>1. S = 0 .. k
    <3>1. \A i : i \in S <=> i \in 0 .. k
      BY <1>1, <1>3 DEF Cells
    <3> QED
      BY <3>1, Zenon
  <2>2. 0 \in Int /\ k \in Int /\ (IF 0 > k THEN 0 ELSE k - 0 + 1) = b
    BY <1>1, <1>3
  <2> HIDE DEF k
  <2>3. Cardinality(0 .. k) = IF 0 > k THEN 0 ELSE k - 0 + 1
    BY <2>2, FS_Interval, Zenon
  <2> QED
    BY <2>1, <2>2, <2>3
<1> QED
  BY <1>2, <1>3

LEMMA BaseCount ==
  ASSUME NEW b \in Nat
  PROVE  TypeOK /\ Packed(b) => UsedBefore = b
<1> SUFFICES ASSUME TypeOK, Packed(b) PROVE UsedBefore = b
  OBVIOUS
<1>1. used \in 0 .. Size /\ Size \in Nat /\ b \in 0 .. Size /\ b <= used
  BY KvAssumption DEF TypeOK, Packed
<1> DEFINE S == {i \in Cells : Committed[i].pos >= 0}
<1>2. ASSUME NEW i \in Cells PROVE Committed[i].pos >= 0 <=> i < b
  <2>1. i \in Nat
    BY <1>1 DEF Cells
  <2>2. CASE i \in PendingCells
    BY <1>1, <1>2, <2>1, <2>2 DEF Committed, Packed
  <2>3. CASE i \notin PendingCells
    BY <1>1, <1>2, <2>1, <2>3 DEF Committed, Packed
  <2> QED
    BY <2>2, <2>3
<1>3. \A i : i \in S <=> i \in Cells /\ i < b
  BY <1>2
<1> HIDE DEF S
<1>4. Cardinality(S) = b
  BY <1>1, <1>3, PrefixCount
<1> QED
  BY <1>4 DEF S, UsedBefore

LEMMA BaseCountNext ==
  ASSUME NEW b \in Nat
  PROVE  TypeOK' /\ Packed(b)' => UsedBefore' = b
<1>1. (TypeOK /\ Packed(b) => UsedBefore = b)'
  BY BaseCount, PTL
<1> QED
  BY <1>1

(* A batch that ends with its cells given back: what is left is b.         *)
LEMMA RestorePacked ==
  ASSUME IInv, IInv', NEW b \in Nat, Packed(b), NEW h \in Nat, h <= used, NEW r,
         Restore(h), EndBatch(r)
  PROVE  Packed(b)' /\ used' = b
<1>1. /\ TypeOK /\ used \in 0 .. Size /\ Size \in Nat /\ pending' = pending /\ phase' = "idle"
      /\ \A i \in Cells : i \in Nat /\ pos[i] \in Int
      /\ \A i \in Cells : pos'[i] = IF i \in PendingCells THEN -1 ELSE pos[i]
  BY KvAssumption DEF IInv, TypeOK, Restore, EndBatch, FreeCells, Cells
<1>2. \A i \in Cells : pos'[i] >= 0 <=> i < b
  BY <1>1 DEF Packed
<1>3. used' = b
  <2>1. b \in 0 .. Size
    BY <1>1 DEF Packed
  <2>2. \A i : i \in Occupied' <=> i \in Cells /\ i < b
    BY <1>2 DEF Occupied
  <2>3. Cardinality(Occupied') = b
    BY <2>1, <2>2, PrefixCount
  <2> QED
    BY <2>3 DEF IInv, UsedCount
<1>4. head' \in Nat /\ head' <= b
  <2> DEFINE starts == {q[1] : q \in pending}
  <2>1. starts \in SUBSET Nat
    BY <1>1 DEF TypeOK
  <2>2. IF pending = {} THEN head' = h ELSE head' = IF Min(starts) < h THEN Min(starts) ELSE h
    BY DEF Restore
  <2>3. b < used => b \in starts
    BY DEF Packed
  <2>4. pending # {} => starts # {}
    OBVIOUS
  <2>5. b < used => pending # {}
    BY DEF Packed
  <2> HIDE DEF starts
  <2>6. starts # {} => Min(starts) \in Nat /\ \A x \in starts : Min(starts) <= x
    BY <2>1, MinProperties
  <2>7. b <= used /\ used \in Nat
    BY <1>1 DEF Packed
  <2> QED
    BY <2>2, <2>3, <2>4, <2>5, <2>6, <2>7
<1>5. PendingCells' = PendingCells
  BY <1>1 DEF PendingCells
<1>6. \A i \in Cells : ~ (i \in PendingCells' /\ pos'[i] >= 0)
  BY <1>1, <1>5
<1>7. \A q \in pending' : q[1] >= b
  BY <1>1 DEF Packed
<1> QED
  BY <1>1, <1>2, <1>3, <1>4, <1>6, <1>7 DEF Packed

-----------------------------------------------------------------------------
LEMMA InitPacked == Init => AInv /\ AppendOnly!Init
<1> SUFFICES ASSUME Init PROVE AInv /\ AppendOnly!Init
  OBVIOUS
<1>1. IInv
  BY InitIInv
<1>2. PendingCells = {} /\ Size \in Nat
  BY KvAssumption DEF Init, PendingCells
<1>3. Packed(0)
  BY <1>2 DEF Init, Packed, Cells
<1>4. UsedBefore = 0
  BY <1>1, <1>3, BaseCount DEF IInv
<1> QED
  BY <1>1, <1>3, <1>4 DEF AInv, Init, AppendOnly!Init

LEMMA FailurePacked ==
  ASSUME IInv, IInv', NEW b \in Nat, Packed(b),
         DecodeEmpty \/ DecodeRejected \/ ComputeFails
  PROVE  Packed(b)' /\ AppendOnly!Fails
<1>1. head \in Nat /\ head <= used
  BY KvAssumption DEF IInv, TypeOK, Packed
<1>2. Packed(b)' /\ phase' = "idle" /\ ret' = "error"
  <2>1. CASE DecodeEmpty
    <3>1. UNCHANGED <<cellVars, batchVars, head, pending>> /\ phase = "idle" /\ ret' = "error"
      BY <2>1 DEF DecodeEmpty
    <3>2. Packed(b)'
      BY <3>1 DEF Packed, PendingCells, cellVars, batchVars
    <3> QED
      BY <3>1, <3>2 DEF batchVars
  <2>2. CASE DecodeRejected \/ ComputeFails
    <3>1. Restore(head) /\ EndBatch("error")
      BY <2>2 DEF DecodeRejected, ComputeFails
    <3> QED
      BY <1>1, <3>1, RestorePacked DEF EndBatch
  <2> QED
    BY <2>1, <2>2
<1>3. UsedBefore = b /\ UsedBefore' = b
  BY <1>2, BaseCount, BaseCountNext DEF IInv
<1> QED
  BY <1>2, <1>3 DEF AppendOnly!Fails

(* No slot is found when the rest of the batch does not fit behind the     *)
(* cells in use: there are no holes.                                       *)
LEMMA GivesUpPacked ==
  ASSUME IInv, IInv', NEW b \in Nat, Packed(b), SearchGivesUp
  PROVE  Packed(b)' /\ AppendOnly!NoSlot
<1>1. /\ phase = "search" /\ EndBatch("no_slot") /\ phase' = "idle" /\ ret' = "no_slot"
  BY DEF SearchGivesUp, EndBatch
<1>2. /\ TypeOK /\ head \in Nat /\ head <= used /\ used \in 0 .. Size /\ Size \in Nat
      /\ width \in Nat /\ left \in Nat /\ width >= 1 /\ width <= left /\ b <= used
  BY <1>1, KvAssumption DEF IInv, TypeOK, BatchOK, Packed
<1>3. PICK h \in Nat : h <= used /\ Restore(h)
  <2>1. CASE Restore(head)
    BY <1>2, <2>1
  <2>2. CASE Fits /\ Blockers # {} /\ Restore(head + (Min(Blockers) - head + 1))
    <3>1. Min(Blockers) \in Cells /\ pos[Min(Blockers)] >= 0
      BY <1>2, <2>2, BlockerProperties
    <3>2. Min(Blockers) \in Nat /\ Min(Blockers) < used
      BY <1>2, <3>1 DEF Packed, Cells
    <3>3. head + (Min(Blockers) - head + 1) = Min(Blockers) + 1
      BY <1>2, <3>2
    <3> QED
      BY <1>2, <2>2, <3>2, <3>3
  <2> QED
    BY <2>1, <2>2 DEF SearchGivesUp
<1>4. Packed(b)'
  BY <1>1, <1>3, RestorePacked
<1>5. used + width > Size
  <2>1. SUFFICES ASSUME used + width <= Size PROVE FALSE
    BY <1>2
  <2>2. used \in Cells
    BY <1>2, <2>1 DEF Cells
  <2>3. ASSUME NEW i \in Slot(used, width) PROVE pos[i] < 0
    <3>1. i \in Cells /\ ~ (i < used) /\ pos[i] \in Int
      BY <1>2, <2>1, <2>3 DEF Slot, Cells, TypeOK
    <3> QED
      BY <3>1 DEF Packed
  <2>4. Run(used, width)
    BY <2>1, <2>2, <2>3 DEF Run
  <2> QED
    BY <2>2, <2>4, GivesUpRefutes
<1>6. UsedBefore = b /\ UsedBefore' = b
  BY <1>2, <1>4, BaseCount, BaseCountNext DEF IInv
<1> QED
  BY <1>1, <1>2, <1>4, <1>5, <1>6 DEF AppendOnly!NoSlot, AppendOnly!Room

(* A slot is only ever taken at the first free cell.                       *)
LEMMA TakePacked ==
  ASSUME IInv, IInv', NEW b \in Nat, Packed(b), TakeSlot
  PROVE  Packed(b)' /\ UNCHANGED <<UsedBefore, Wanted, ret>>
<1>1. /\ phase = "search" /\ Fits /\ Blockers = {}
      /\ pos' = [i \in Cells |-> IF i \in Slot(head, width) THEN next + (i - head) ELSE pos[i]]
      /\ used' = used + width /\ pending' = pending \cup {<<head, head + width>>}
      /\ phase' = "compute" /\ UNCHANGED <<head, left, width, ret>>
  BY DEF TakeSlot
<1>2. /\ TypeOK /\ head \in Nat /\ head <= used /\ used \in Nat /\ Size \in Nat /\ left \in Nat
      /\ width \in Nat /\ width >= 1 /\ head + width <= Size /\ b <= used /\ next \in Nat
      /\ \A i \in Cells : i \in Nat /\ pos[i] \in Int
  BY <1>1, KvAssumption DEF IInv, TypeOK, BatchOK, Packed, Fits, Cells
<1>3. \A i \in Slot(head, width) : i \in Cells /\ ~ (pos[i] >= 0)
  <2>1. \A i \in Slot(head, width) : ~ (pos[i] >= 0)
    BY <1>1, Zenon DEF Blockers
  <2>2. \A i \in Slot(head, width) : i \in Cells
    BY <1>2 DEF Slot, Cells
  <2> QED
    BY <2>1, <2>2
<1>4. head = used
  <2>1. head \in Slot(head, width)
    BY <1>2 DEF Slot
  <2>2. ~ (head < used)
    BY <1>3, <2>1 DEF Packed
  <2> QED
    BY <1>2, <2>2
<1>5. \A i : i \in Slot(head, width) <=> i \in Cells /\ used <= i /\ i < used'
  BY <1>1, <1>2, <1>4 DEF Slot, Cells
<1>6. \A i \in Cells : pos'[i] >= 0 <=> i < used'
  <2>1. ASSUME NEW i \in Cells PROVE pos'[i] >= 0 <=> i < used'
    <3>1. CASE i \in Slot(head, width)
      BY <1>1, <1>2, <1>4, <1>5, <3>1
    <3>2. CASE i \notin Slot(head, width)
      BY <1>1, <1>2, <1>5, <3>2 DEF Packed
    <3> QED
      BY <3>1, <3>2
  <2> QED
    BY <2>1
<1>7. PendingCells' = PendingCells \cup Slot(head, width)
  <2> DEFINE r0 == <<head, head + width>>
  <2>1. Slot(r0[1], r0[2] - r0[1]) = Slot(head, width)
    BY <1>2
  <2>2. pending' = pending \cup {r0}
    BY <1>1
  <2> HIDE DEF r0
  <2> QED
    BY <2>1, <2>2 DEF PendingCells
<1>8. \A i \in Cells : i \in PendingCells' /\ pos'[i] >= 0 <=> b <= i /\ i < used'
  <2>1. ASSUME NEW i \in Cells
        PROVE  i \in PendingCells' /\ pos'[i] >= 0 <=> b <= i /\ i < used'
    BY <1>2, <1>5, <1>6, <1>7 DEF Packed
  <2> QED
    BY <2>1
<1>9. (\A r \in pending' : r[1] >= b) /\ \E r \in pending' : r[1] = b
  <2> DEFINE r0 == <<head, head + width>>
  <2>1. r0[1] = head /\ r0[1] >= b
    BY <1>2, <1>4
  <2>2. pending' = pending \cup {r0}
    BY <1>1
  <2> HIDE DEF r0
  <2>3. \A r \in pending' : r[1] >= b
    BY <2>1, <2>2 DEF Packed
  <2>4. CASE b < used
    BY <2>2, <2>3, <2>4 DEF Packed
  <2>5. CASE ~ (b < used)
    BY <1>2, <1>4, <2>1, <2>2, <2>3, <2>5
  <2> QED
    BY <2>4, <2>5
<1>10. Packed(b)'
  BY <1>1, <1>2, <1>4, <1>6, <1>8, <1>9 DEF Packed
<1>11. UsedBefore = b /\ UsedBefore' = b
  BY <1>2, <1>10, BaseCount, BaseCountNext DEF IInv
<1>12. Wanted' = Wanted
  BY <1>1, <1>2, <1>11 DEF Wanted
<1> QED
  BY <1>1, <1>10, <1>11, <1>12

(* The steps of a decode that move no cell.                                *)
LEMMA SearchPacked ==
  ASSUME IInv, IInv', NEW b \in Nat, Packed(b), SearchWrap \/ SearchOn \/ NextUBatch
  PROVE  Packed(b)' /\ UNCHANGED <<UsedBefore, Wanted, ret>>
<1>1. UNCHANGED <<pos, seqs, used, pending, ret>> /\ phase # "idle" /\ phase' = "search"
  BY DEF SearchWrap, SearchOn, NextUBatch, EnterSearch, cellVars
<1>2. TypeOK /\ head \in Nat /\ head <= used /\ used \in Nat /\ left \in Nat /\ width \in Nat
  BY KvAssumption DEF IInv, TypeOK, Packed
<1>3. head' <= used
  <2>1. CASE SearchWrap
    BY <1>2, <2>1 DEF SearchWrap
  <2>2. CASE SearchOn
    <3>1. Min(Blockers) \in Cells /\ pos[Min(Blockers)] >= 0 /\ head' = head + (Min(Blockers) - head + 1)
      BY <1>2, <2>2, BlockerProperties DEF SearchOn
    <3>2. Min(Blockers) \in Nat /\ Min(Blockers) < used
      BY <1>2, <3>1 DEF Packed, Cells
    <3> QED
      BY <1>2, <3>1, <3>2
  <2>3. CASE NextUBatch
    BY <1>2, <2>3 DEF NextUBatch, EnterSearch
  <2> QED
    BY <2>1, <2>2, <2>3
<1>4. PendingCells' = PendingCells
  BY <1>1 DEF PendingCells
<1>5. Packed(b)'
  BY <1>1, <1>3, <1>4 DEF Packed
<1>6. Committed' = Committed
  BY <1>1, <1>4 DEF Committed
<1>7. UsedBefore' = UsedBefore
  BY <1>6 DEF UsedBefore
<1>8. left' - (IF phase' = "compute" THEN width' ELSE 0) = left - IF phase = "compute" THEN width ELSE 0
  BY <1>1, <1>2 DEF SearchWrap, SearchOn, NextUBatch
<1>9. left' \in Nat /\ width' \in Nat /\ UsedBefore \in Nat
  <2>1. UsedBefore = b
    BY <1>2, BaseCount
  <2> QED
    BY <2>1, KvAssumption DEF IInv, TypeOK
<1>10. Wanted' = Wanted
  BY <1>1, <1>2, <1>7, <1>8, <1>9 DEF Wanted
<1> QED
  BY <1>1, <1>5, <1>7, <1>10

LEMMA DecodePacked ==
  ASSUME IInv, IInv', NEW b \in Nat, Packed(b),
         NEW n \in 1 .. NBatch, NEW s \in Seqs, NEW p \in 0 .. MaxPos, Decode(n, s, p)
  PROVE  Packed(b)' /\ AppendOnly!Begin(n)
<1>1. /\ UNCHANGED <<pos, seqs, used, pending>> /\ phase = "idle" /\ phase' = "search"
      /\ left' = n /\ ret' = "none" /\ head' \in {0, head}
  BY DEF Decode, EnterSearch
<1>2. TypeOK /\ head \in Nat /\ head <= used /\ used \in Nat /\ b = used
  BY <1>1, KvAssumption DEF IInv, TypeOK, Packed
<1>3. PendingCells' = PendingCells
  BY <1>1 DEF PendingCells
<1>4. Packed(b)'
  BY <1>1, <1>2, <1>3 DEF Packed
<1>5. Committed' = Committed
  BY <1>1, <1>3 DEF Committed
<1>6. UsedBefore = b /\ UsedBefore' = b
  BY <1>2, <1>5, BaseCount DEF UsedBefore
<1> QED
  BY <1>1, <1>2, <1>4, <1>6, KvAssumption DEF AppendOnly!Begin

(* A commit makes the cells of the batch count.                            *)
LEMMA CommitPacked ==
  ASSUME IInv, IInv', NEW b \in Nat, Packed(b), Commit
  PROVE  (\E c \in Nat : Packed(c)') /\ AppendOnly!Stored
<1>1. /\ phase = "compute" /\ left = width /\ pending' = {} /\ phase' = "idle" /\ ret' = "ok"
      /\ UNCHANGED <<pos, used, head>>
  BY DEF Commit, EndBatch, cellVars
<1>2. /\ TypeOK /\ head \in Nat /\ head <= used /\ used \in 0 .. Size /\ Size \in Nat
      /\ width \in Nat /\ width >= 1 /\ b + width <= used /\ b <= used
  BY <1>1, KvAssumption DEF IInv, TypeOK, BatchOK, Packed
<1>3. PICK c \in Nat : c = used
  BY <1>2
<1>4. PendingCells' = {}
  BY <1>1 DEF PendingCells
<1>5. Packed(c)'
  BY <1>1, <1>2, <1>3, <1>4 DEF Packed, Cells
<1>6. UsedBefore = b /\ UsedBefore' = c
  BY <1>2, <1>5, BaseCount, BaseCountNext DEF IInv
<1> QED
  BY <1>1, <1>2, <1>3, <1>5, <1>6 DEF AppendOnly!Stored, AppendOnly!Room

-----------------------------------------------------------------------------
LEMMA NextPacked ==
  ASSUME AInv, [Calls \/ DecodeSteps]_vars
  PROVE  AInv' /\ [AppendOnly!Next]_<<UsedBefore, Wanted, ret>>
<1>1. PICK b \in Nat : Packed(b)
  BY DEF AInv
<1>2. IInv /\ IInv'
  BY NextIInv DEF AInv, Next
<1>3. CASE DecodeEmpty \/ DecodeRejected \/ ComputeFails
  <2>1. Packed(b)' /\ AppendOnly!Fails
    BY <1>1, <1>2, <1>3, FailurePacked
  <2> QED
    BY <1>2, <2>1 DEF AInv, AppendOnly!Next
<1>4. ASSUME NEW n \in 1 .. NBatch, NEW s \in Seqs, NEW p \in 0 .. MaxPos, Decode(n, s, p)
      PROVE  AInv' /\ [AppendOnly!Next]_<<UsedBefore, Wanted, ret>>
  <2>1. Packed(b)' /\ AppendOnly!Begin(n)
    BY <1>1, <1>2, <1>4, DecodePacked
  <2> QED
    BY <1>2, <2>1 DEF AInv, AppendOnly!Next
<1>5. CASE SearchGivesUp
  <2>1. Packed(b)' /\ AppendOnly!NoSlot
    BY <1>1, <1>2, <1>5, GivesUpPacked
  <2> QED
    BY <1>2, <2>1 DEF AInv, AppendOnly!Next
<1>6. CASE TakeSlot
  BY <1>1, <1>2, <1>6, TakePacked DEF AInv
<1>7. CASE SearchWrap \/ SearchOn \/ NextUBatch
  BY <1>1, <1>2, <1>7, SearchPacked DEF AInv
<1>8. CASE Commit
  <2>1. (\E c \in Nat : Packed(c)') /\ AppendOnly!Stored
    BY <1>1, <1>2, <1>8, CommitPacked
  <2> QED
    BY <1>2, <2>1 DEF AInv, AppendOnly!Next
<1>9. CASE UNCHANGED vars
  <2>1. PendingCells' = PendingCells
    BY <1>9 DEF vars, PendingCells
  <2>2. Packed(b)'
    BY <1>1, <1>9, <2>1 DEF Packed, vars, cellVars, batchVars
  <2>3. Committed' = Committed
    BY <1>9, <2>1 DEF Committed, vars, cellVars
  <2>4. UNCHANGED <<UsedBefore, Wanted, ret>>
    BY <1>9, <2>3 DEF UsedBefore, Wanted, vars, cellVars, batchVars
  <2> QED
    BY <1>2, <2>2, <2>4 DEF AInv
<1> QED
  BY <1>3, <1>4, <1>5, <1>6, <1>7, <1>8, <1>9, Zenon DEF Calls, DecodeSteps

(* A program that only decodes sees a counter: a batch is stored whole     *)
(* when the free cells are enough for it and refused when they are not,    *)
(* whatever its ubatches, failures and the wandering head.                 *)
THEOREM DecodingOnlyCounts == AppendSpec => ImplementsAppend
<1>1. Init => AInv /\ AppendOnly!Init
  BY InitPacked
<1>2. AInv /\ [Calls \/ DecodeSteps]_vars => AInv'
  BY NextPacked
<1>3. AInv /\ [Calls \/ DecodeSteps]_vars => [AppendOnly!Next]_<<UsedBefore, Wanted, ret>>
  BY NextPacked
<1> QED
  BY <1>1, <1>2, <1>3, PTL DEF AppendSpec, ImplementsAppend, AppendOnly!Spec, Wanted
=============================================================================
