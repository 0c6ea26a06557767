---------------------------- MODULE KvStoreProofs ----------------------------
(***************************************************************************)
(* The cache, defragmented only when no range of a failed batch is         *)
(* pending, implements KvStore for every size: an edit maps to the edit of *)
(* the same name, the commit of a batch to DecodeOk, the error paths to    *)
(* DecodeFails, the filling of a hole to Move, and the search for slots to *)
(* stuttering.                                                             *)
(***************************************************************************)
EXTENDS KvDefragProofs

View(p, q) == [pos |-> p, seqs |-> q]

Empty == View(-1, {})

(* Between batches a caller sees every cell: what left-over ranges cover   *)
(* is free.                                                                *)
LEMMA AtRest ==
  IInv /\ phase = "idle" => Committed = [i \in Cells |-> View(pos[i], seqs[i])]
<1> SUFFICES ASSUME IInv, phase = "idle"
             PROVE  Committed = [i \in Cells |-> View(pos[i], seqs[i])]
  OBVIOUS
<1>1. ASSUME NEW i \in Cells, i \in PendingCells PROVE pos[i] = -1 /\ seqs[i] = {}
  <2>1. pos[i] < 0 /\ pos[i] \in -1 .. MaxPos /\ MaxPos \in Nat
    BY <1>1, Types DEF IInv, StalePendingIsFree
  <2> QED
    BY <2>1, SMT DEF IInv, EmptyAgrees
<1> QED
  BY <1>1 DEF Committed, View

LEMMA AtRestNext ==
  IInv' /\ phase' = "idle" => Committed' = [i \in Cells |-> View(pos'[i], seqs'[i])]
<1>1. (IInv /\ phase = "idle" => Committed = [i \in Cells |-> View(pos[i], seqs[i])])'
  BY AtRest, PTL
<1> QED
  BY <1>1 DEF View

LEMMA FreeView ==
  ASSUME IInv, NEW i \in Cells
  PROVE  seqs[i] = {} => pos[i] = -1
<1>1. pos[i] \in -1 .. MaxPos /\ MaxPos \in Nat /\ (seqs[i] = {} => pos[i] < 0)
  BY Types DEF IInv, EmptyAgrees
<1> QED
  BY <1>1, SMT

(* An edit rewrites what the caller sees of each cell.                     *)
LEMMA EditShows ==
  ASSUME IInv, IInv', Edit
  PROVE  /\ Committed = [i \in Cells |-> View(pos[i], seqs[i])]
         /\ Committed' = [i \in Cells |-> View(pos'[i], seqs'[i])]
         /\ ret' = "none" /\ Store!Cells = Cells /\ Store!Bounds = Bounds
         /\ Store!FreeCell = Empty
<1>1. phase = "idle" /\ phase' = "idle" /\ ret' = "none"
  BY DEF Edit, batchVars
<1>2. Committed' = [i \in Cells |-> View(pos'[i], seqs'[i])]
  BY <1>1, AtRestNext
<1> QED
  BY <1>1, <1>2, AtRest DEF Store!Cells, Cells, Store!Bounds, Bounds, Store!FreeCell, Empty, View

LEMMA ClearShows == ASSUME IInv, IInv', Clear PROVE Store!Clear
<1>1. Edit /\ \A i \in Cells : pos'[i] = -1 /\ seqs'[i] = {}
  BY DEF Clear
<1>2. Committed' = [i \in Cells |-> Empty]
  BY <1>1, EditShows DEF Empty
<1> QED
  BY <1>1, <1>2, EditShows DEF Store!Clear, Store!Rewrite

LEMMA SeqRmShows ==
  ASSUME IInv, IInv', NEW s \in Seqs \cup {-1}, NEW p0 \in Bounds, NEW p1 \in Bounds,
         SeqRm(s, p0, p1)
  PROVE  Store!SeqRm(s, p0, p1)
<1> DEFINE hit == {i \in Cells : InRange(pos[i], p0, p1) /\ (s < 0 \/ s \in seqs[i])}
           rest == [i \in Cells |-> IF i \notin hit THEN seqs[i]
                                    ELSE IF s < 0 THEN {} ELSE seqs[i] \ {s}]
           freed == {i \in hit : rest[i] = {}}
<1>1. /\ Edit /\ pos' = [i \in Cells |-> IF i \in freed THEN -1 ELSE pos[i]]
      /\ seqs' = [i \in Cells |-> IF i \in freed THEN {} ELSE rest[i]]
  BY DEF SeqRm, FreeCells
<1> DEFINE R(c) == IF s < 0 THEN {} ELSE c.seqs \ {s}
           F(c) == IF ~ InRange(c.pos, p0, p1) THEN c
                   ELSE IF R(c) = {} THEN Empty ELSE [c EXCEPT !.seqs = R(c)]
<1>2. ASSUME NEW i \in Cells PROVE View(pos'[i], seqs'[i]) = F(View(pos[i], seqs[i]))
  <2> DEFINE c == View(pos[i], seqs[i])
  <2>1. c.pos = pos[i] /\ c.seqs = seqs[i] /\ \A q : [c EXCEPT !.seqs = q] = View(pos[i], q)
    BY DEF View
  <2>2. pos[i] \in Int /\ p0 \in Nat /\ (seqs[i] = {} => pos[i] = -1)
    BY FreeView, Types, KvAssumption DEF Bounds
  <2> HIDE DEF c
  <2>3. CASE i \in freed
    <3>1. pos'[i] = -1 /\ seqs'[i] = {} /\ i \in hit /\ rest[i] = {}
      BY <1>1, <2>3
    <3>2. InRange(pos[i], p0, p1) /\ R(c) = {}
      BY <2>1, <3>1
    <3> QED
      BY <2>1, <3>1, <3>2 DEF Empty, c
  <2>4. CASE i \in hit /\ i \notin freed
    <3>1. pos'[i] = pos[i] /\ seqs'[i] = rest[i] /\ rest[i] # {}
      BY <1>1, <2>4
    <3>2. InRange(pos[i], p0, p1) /\ R(c) = rest[i]
      BY <2>1, <2>4
    <3> QED
      BY <2>1, <3>1, <3>2 DEF c
  <2>5. CASE i \notin hit
    <3>1. pos'[i] = pos[i] /\ seqs'[i] = seqs[i]
      BY <1>1, <2>5
    <3>2. CASE ~ InRange(pos[i], p0, p1)
      BY <2>1, <3>1, <3>2 DEF c
    <3>3. CASE InRange(pos[i], p0, p1)
      <4>1. ~ (s < 0) /\ s \notin seqs[i]
        BY <2>5, <3>3
      <4>2. R(c) = seqs[i]
        BY <2>1, <4>1
      <4>3. seqs[i] # {}
        BY <2>2, <3>3, SMT DEF InRange
      <4> QED
        BY <2>1, <3>1, <3>3, <4>2, <4>3 DEF c
    <3> QED
      BY <3>2, <3>3
  <2> QED
    BY <2>3, <2>4, <2>5
<1>3. \A q : Store!InRange(q, p0, p1) <=> InRange(q, p0, p1)
  BY DEF Store!InRange, InRange
<1>4. Committed' = [i \in Cells |-> F(Committed[i])]
  <2> HIDE DEF F
  <2> QED
    BY <1>1, <1>2, EditShows
<1> QED
  BY <1>1, <1>3, <1>4, EditShows DEF Store!SeqRm, Store!Rewrite

(* What is asked of the view of a cell.                                    *)
LEMMA ViewFields ==
  ASSUME NEW p, NEW q
  PROVE  /\ View(p, q).pos = p /\ View(p, q).seqs = q
         /\ \A x : [View(p, q) EXCEPT !.seqs = x] = View(p, x)
         /\ \A x : [View(p, q) EXCEPT !.pos = x] = View(x, q)
<1> QED
  BY DEF View

LEMMA SeqCpShows ==
  ASSUME IInv, IInv', NEW s \in Seqs, NEW d \in Seqs, NEW p0 \in Bounds, NEW p1 \in Bounds,
         SeqCp(s, d, p0, p1)
  PROVE  Store!SeqCp(s, d, p0, p1)
<1> DEFINE F(c) == IF s # d /\ s \in c.seqs /\ InRange(c.pos, p0, p1)
                   THEN [c EXCEPT !.seqs = c.seqs \cup {d}] ELSE c
<1>1. /\ Edit /\ pos' = pos /\ s # d
      /\ seqs' = [i \in Cells |-> IF s \in seqs[i] /\ InRange(pos[i], p0, p1)
                                  THEN seqs[i] \cup {d} ELSE seqs[i]]
  BY DEF SeqCp
<1>2. ASSUME NEW i \in Cells PROVE View(pos'[i], seqs'[i]) = F(View(pos[i], seqs[i]))
  <2> DEFINE c == View(pos[i], seqs[i])
  <2>1. c.pos = pos[i] /\ c.seqs = seqs[i] /\ \A q : [c EXCEPT !.seqs = q] = View(pos[i], q)
    BY DEF View
  <2> HIDE DEF c
  <2>2. CASE s \in seqs[i] /\ InRange(pos[i], p0, p1)
    BY <1>1, <2>1, <2>2 DEF c
  <2>3. CASE ~ (s \in seqs[i] /\ InRange(pos[i], p0, p1))
    BY <1>1, <2>1, <2>3 DEF c
  <2> QED
    BY <2>2, <2>3
<1>3. \A q : Store!InRange(q, p0, p1) <=> InRange(q, p0, p1)
  BY DEF Store!InRange, InRange
<1>4. Committed' = [i \in Cells |-> F(Committed[i])]
  <2>1. /\ Committed = [i \in Cells |-> View(pos[i], seqs[i])]
        /\ Committed' = [i \in Cells |-> View(pos'[i], seqs'[i])]
    BY <1>1, EditShows
  <2> HIDE DEF F
  <2> QED
    BY <1>2, <2>1
<1> QED
  BY <1>1, <1>3, <1>4, EditShows DEF Store!SeqCp, Store!Rewrite

LEMMA SeqKeepShows ==
  ASSUME IInv, IInv', NEW s \in Seqs, SeqKeep(s)
  PROVE  Store!SeqKeep(s)
<1> DEFINE freed == {i \in Cells : s \notin seqs[i]}
           F(c) == IF s \in c.seqs THEN [c EXCEPT !.seqs = {s}] ELSE Empty
<1>1. /\ Edit /\ pos' = [i \in Cells |-> IF i \in freed THEN -1 ELSE pos[i]]
      /\ seqs' = [i \in Cells |-> IF i \in freed THEN {} ELSE {s}]
  BY DEF SeqKeep, FreeCells
<1>2. ASSUME NEW i \in Cells PROVE View(pos'[i], seqs'[i]) = F(View(pos[i], seqs[i]))
  <2> DEFINE c == View(pos[i], seqs[i])
  <2>1. c.pos = pos[i] /\ c.seqs = seqs[i] /\ \A q : [c EXCEPT !.seqs = q] = View(pos[i], q)
    BY DEF View
  <2> HIDE DEF c
  <2>2. CASE s \in seqs[i]
    BY <1>1, <2>1, <2>2 DEF c
  <2>3. CASE s \notin seqs[i]
    BY <1>1, <2>1, <2>3 DEF Empty, c
  <2> QED
    BY <2>2, <2>3
<1>3. Committed' = [i \in Cells |-> F(Committed[i])]
  <2> HIDE DEF F
  <2> QED
    BY <1>1, <1>2, EditShows
<1> QED
  BY <1>1, <1>3, EditShows DEF Store!SeqKeep, Store!Rewrite

LEMMA SeqAddShows ==
  ASSUME IInv, IInv', NEW s \in Seqs, NEW p0 \in Bounds, NEW p1 \in Bounds, NEW k \in Deltas,
         SeqAdd(s, p0, p1, k)
  PROVE  Store!SeqAdd(s, p0, p1, k)
<1> DEFINE hit == Shifted(s, p0, p1)
           freed == {i \in hit : pos[i] + k < 0}
           F(c) == IF ~ (s \in c.seqs /\ InRange(c.pos, p0, p1)) THEN c
                   ELSE IF c.pos + k < 0 THEN Empty ELSE [c EXCEPT !.pos = c.pos + k]
<1>1. /\ Edit
      /\ pos' = [i \in Cells |-> IF i \in freed THEN -1
                                 ELSE IF i \in hit THEN pos[i] + k ELSE pos[i]]
      /\ seqs' = [i \in Cells |-> IF i \in freed THEN {} ELSE seqs[i]]
  BY DEF SeqAdd
<1>2. ASSUME NEW i \in Cells PROVE View(pos'[i], seqs'[i]) = F(View(pos[i], seqs[i]))
  <2>1. i \in hit <=> s \in seqs[i] /\ InRange(pos[i], p0, p1)
    BY DEF Shifted
  <2> HIDE DEF hit
  <2> QED
    BY <1>1, <2>1, ViewFields DEF Empty
<1>3. \A q : Store!InRange(q, p0, p1) <=> InRange(q, p0, p1)
  BY DEF Store!InRange, InRange
<1>4. Committed' = [i \in Cells |-> F(Committed[i])]
  <2> HIDE DEF F
  <2> QED
    BY <1>1, <1>2, EditShows
<1> QED
  BY <1>1, <1>3, <1>4, EditShows DEF Store!SeqAdd, Store!Rewrite

LEMMA SeqDivShows ==
  ASSUME IInv, IInv', NEW s \in Seqs, NEW p0 \in Bounds, NEW p1 \in Bounds, NEW k \in Divs,
         SeqDiv(s, p0, p1, k)
  PROVE  Store!SeqDiv(s, p0, p1, k)
<1> DEFINE hit == Shifted(s, p0, p1)
           F(c) == IF s \in c.seqs /\ InRange(c.pos, p0, p1)
                   THEN [c EXCEPT !.pos = c.pos \div k] ELSE c
<1>1. /\ Edit /\ seqs' = seqs
      /\ pos' = [i \in Cells |-> IF i \in hit THEN pos[i] \div k ELSE pos[i]]
  BY DEF SeqDiv
<1>2. ASSUME NEW i \in Cells PROVE View(pos'[i], seqs'[i]) = F(View(pos[i], seqs[i]))
  <2>1. i \in hit <=> s \in seqs[i] /\ InRange(pos[i], p0, p1)
    BY DEF Shifted
  <2> HIDE DEF hit
  <2> QED
    BY <1>1, <2>1, ViewFields
<1>3. \A q : Store!InRange(q, p0, p1) <=> InRange(q, p0, p1)
  BY DEF Store!InRange, InRange
<1>4. Committed' = [i \in Cells |-> F(Committed[i])]
  <2> HIDE DEF F
  <2> QED
    BY <1>1, <1>2, EditShows
<1> QED
  BY <1>1, <1>3, <1>4, EditShows DEF Store!SeqDiv, Store!Rewrite

LEMMA EditsShow == ASSUME IInv, IInv', Edits PROVE Store!Next
<1>1. Store!Bounds = Bounds
  BY DEF Store!Bounds, Bounds
<1> QED
  BY <1>1, ClearShows, SeqRmShows, SeqCpShows, SeqKeepShows, SeqAddShows, SeqDivShows, Zenon
     DEF Edits, Store!Next

-----------------------------------------------------------------------------
(* A batch under way: what its ubatches have stored so far.                *)

Taken == {i \in PendingCells : pos[i] >= 0}

Upto == next + IF phase = "compute" THEN width ELSE 0

(* The cells taken hold the positions of the batch from p on, one each.    *)
StoredFrom(p) ==
  /\ p <= Upto /\ next + left - p \in 1 .. NBatch
  /\ \A i \in Taken : seqs[i] = {sid} /\ p <= pos[i] /\ pos[i] < Upto
  /\ \A i, j \in Taken : pos[i] = pos[j] => i = j
  /\ \A q \in p .. Upto - 1 : \E i \in Taken : pos[i] = q

BatchStored == phase # "idle" => \E p \in 0 .. MaxPos : StoredFrom(p)

LEMMA DecodeStores ==
  ASSUME IInv, NEW n \in 1 .. NBatch, NEW s \in Seqs, NEW p \in 0 .. MaxPos, Decode(n, s, p)
  PROVE  BatchStored'
<1>1. /\ phase = "idle" /\ phase' = "search" /\ next' = p /\ left' = n
      /\ UNCHANGED <<pos, pending>>
  BY DEF Decode, EnterSearch
<1>2. Taken' = {}
  <2>1. Taken' = Taken
    BY <1>1 DEF Taken, PendingCells
  <2>2. \A i \in PendingCells : i \in Cells /\ pos[i] < 0
    BY <1>1, PendingInCells DEF IInv, StalePendingIsFree
  <2>3. \A i \in PendingCells : ~ (pos[i] >= 0)
    BY <2>2, Types
  <2> QED
    BY <2>1, <2>3 DEF Taken
<1>3. Upto' = p /\ p \in Int /\ n \in Int /\ NBatch \in Nat
  BY <1>1, KvAssumption DEF Upto
<1>4. StoredFrom(p)'
  <2>1. p <= Upto' /\ next' + left' - p \in 1 .. NBatch
    BY <1>1, <1>3, SMT
  <2>2. \A q \in p .. Upto' - 1 : FALSE
    BY <1>3, SMT
  <2> QED
    BY <1>2, <2>1, <2>2 DEF StoredFrom
<1> QED
  BY <1>4 DEF BatchStored

LEMMA SearchStores ==
  ASSUME IInv, BatchStored, SearchWrap \/ SearchOn \/ NextUBatch
  PROVE  BatchStored'
<1>1. CASE SearchWrap \/ SearchOn
  <2>1. UNCHANGED <<pos, seqs, pending, phase, sid, next, left, width>>
    BY <1>1 DEF SearchWrap, SearchOn, cellVars
  <2> QED
    BY <2>1 DEF BatchStored, StoredFrom, Taken, Upto, PendingCells
<1>2. CASE NextUBatch
  <2>1. /\ phase = "compute" /\ phase' = "search"
        /\ left' = left - width /\ next' = next + width
        /\ UNCHANGED <<pos, seqs, pending, sid>>
    BY <1>2 DEF NextUBatch, EnterSearch, cellVars
  <2>2. next \in Int /\ left \in Int /\ width \in Int
    BY KvAssumption DEF IInv, TypeOK
  <2>3. Upto' = Upto /\ next' + left' = next + left
    BY <2>1, <2>2, SMT DEF Upto
  <2>4. Taken' = Taken
    BY <2>1 DEF Taken, PendingCells
  <2>5. PICK p \in 0 .. MaxPos : StoredFrom(p)
    BY <2>1 DEF BatchStored
  <2>6. StoredFrom(p)'
    <3>1. p <= Upto' /\ next' + left' - p \in 1 .. NBatch
      <4>1. p <= Upto /\ next + left - p \in 1 .. NBatch
        BY <2>5 DEF StoredFrom
      <4>2. next' + left' - p = next + left - p
        BY <2>1, <2>2, p \in Int, SMT
      <4> QED
        BY <2>3, <4>1, <4>2
    <3>4. \A i, j \in Taken' : pos'[i] = pos'[j] => i = j
      BY <2>1, <2>4, <2>5, Zenon DEF StoredFrom
    <3>2. \A i \in Taken' : seqs'[i] = {sid'} /\ p <= pos'[i] /\ pos'[i] < Upto'
      BY <2>1, <2>3, <2>4, <2>5, Zenon DEF StoredFrom
    <3>3. \A q \in p .. Upto' - 1 : \E i \in Taken' : pos'[i] = q
      BY <2>1, <2>3, <2>4, <2>5 DEF StoredFrom
    <3> QED
      BY <3>1, <3>2, <3>3, <3>4, Zenon DEF StoredFrom
  <2> QED
    BY <2>6 DEF BatchStored
<1> QED
  BY <1>1, <1>2

(* A slot is added to the cells taken.                                     *)
LEMMA SlotAdded ==
  ASSUME IInv, TakeSlot
  PROVE  /\ PendingCells' = PendingCells \cup Slot(head, width)
         /\ \A i \in Slot(head, width) :
              /\ i \in Cells /\ pos[i] = -1 /\ seqs[i] = {}
              /\ pos'[i] = next + (i - head) /\ seqs'[i] = {sid}
         /\ \A i \in Cells : i \notin Slot(head, width) => pos'[i] = pos[i] /\ seqs'[i] = seqs[i]
         /\ head \in Nat /\ width \in Nat /\ head + width <= Size
<1>1. /\ phase = "search" /\ Fits /\ Blockers = {}
      /\ pos' = [i \in Cells |-> IF i \in Slot(head, width)
                                 THEN next + (i - head) ELSE pos[i]]
      /\ seqs' = [i \in Cells |-> IF i \in Slot(head, width)
                                  THEN seqs[i] \cup {sid} ELSE seqs[i]]
      /\ pending' = pending \cup {<<head, head + width>>}
  BY DEF TakeSlot
<1>2. head \in Nat /\ width \in Nat /\ head + width <= Size /\ Size \in Nat
  BY <1>1, KvAssumption DEF IInv, TypeOK, Fits
<1>3. \A i \in Slot(head, width) : i \in Cells /\ ~ (pos[i] >= 0)
  <2>1. \A i \in Slot(head, width) : ~ (pos[i] >= 0)
    BY <1>1, Zenon DEF Blockers
  <2>2. \A i \in Slot(head, width) : i \in Cells
    BY <1>2 DEF Slot, Cells
  <2> QED
    BY <2>1, <2>2
<1>4. ASSUME NEW i \in Slot(head, width)
      PROVE  /\ i \in Cells /\ pos[i] = -1 /\ seqs[i] = {}
             /\ pos'[i] = next + (i - head) /\ seqs'[i] = {sid}
  <2>1. i \in Cells /\ ~ (pos[i] >= 0) /\ pos[i] \in Int
    BY <1>3, Types
  <2>2. seqs[i] = {}
    BY <2>1 DEF IInv, EmptyAgrees
  <2>3. pos[i] = -1
    BY <2>1, <2>2, FreeView
  <2> QED
    BY <1>1, <2>1, <2>2, <2>3
<1>5. PendingCells' = PendingCells \cup Slot(head, width)
  <2> DEFINE r == <<head, head + width>>
             R(q) == Slot(q[1], q[2] - q[1])
  <2>1. R(r) = Slot(head, width)
    <3>1. r[1] = head /\ r[2] = head + width
      OBVIOUS
    <3>2. head + width - head = width
      BY <1>2
    <3> HIDE DEF r
    <3> QED
      BY <1>2, <3>1, SMT DEF Slot
  <2>2. PendingCells' = UNION {R(q) : q \in pending'}
    BY DEF PendingCells, Slot
  <2>3. PendingCells = UNION {R(q) : q \in pending}
    BY DEF PendingCells
  <2>4. pending' = pending \cup {r}
    BY <1>1
  <2> HIDE DEF R, r
  <2> QED
    BY <2>1, <2>2, <2>3, <2>4
<1> QED
  BY <1>1, <1>2, <1>4, <1>5

LEMMA TakeSlotStores ==
  ASSUME IInv, BatchStored, TakeSlot
  PROVE  BatchStored'
<1>1. /\ phase = "search" /\ phase' = "compute"
      /\ UNCHANGED <<head, sid, next, left, width>>
  BY DEF TakeSlot
<1>2. /\ PendingCells' = PendingCells \cup Slot(head, width)
      /\ \A i \in Slot(head, width) :
           i \in Cells /\ pos[i] = -1 /\ pos'[i] = next + (i - head) /\ seqs'[i] = {sid}
      /\ \A i \in Cells : i \notin Slot(head, width) => pos'[i] = pos[i] /\ seqs'[i] = seqs[i]
      /\ head \in Nat /\ width \in Nat
  BY SlotAdded
<1>3. next \in Nat /\ left \in Nat /\ MaxPos \in Nat
  BY KvAssumption DEF IInv, TypeOK
<1>4. PICK p \in 0 .. MaxPos : StoredFrom(p)
  BY <1>1 DEF BatchStored
<1>5. Upto = next /\ Upto' = next + width /\ p \in Int
  BY <1>1, <1>3, SMT DEF Upto
<1>6. /\ p <= next /\ next + left - p \in 1 .. NBatch
      /\ \A i \in Taken : seqs[i] = {sid} /\ p <= pos[i] /\ pos[i] < next
      /\ \A i, j \in Taken : pos[i] = pos[j] => i = j
      /\ \A q \in p .. next - 1 : \E i \in Taken : pos[i] = q
  BY <1>4, <1>5 DEF StoredFrom
<1>7. PendingCells \subseteq Cells
  BY PendingInCells DEF IInv
<1>8. \A i \in Slot(head, width) : i \in Int /\ head <= i /\ i < head + width
  BY <1>2 DEF Slot
<1>9. \A i \in Taken' : i \in Slot(head, width)
                        \/ (i \in Taken /\ i \notin Slot(head, width)
                            /\ pos'[i] = pos[i] /\ seqs'[i] = seqs[i])
  BY <1>2, <1>7 DEF Taken
<1>10. \A i \in Slot(head, width) : i \in Taken'
  <2>1. \A i \in Slot(head, width) : i \in PendingCells'
    BY <1>2
  <2>2. ASSUME NEW i \in Slot(head, width) PROVE pos'[i] >= 0
    BY <1>2, <1>3, <1>8, SMT
  <2> QED
    BY <2>1, <2>2 DEF Taken
<1>11. \A i \in Taken : i \in Taken' /\ i \notin Slot(head, width) /\ pos'[i] = pos[i]
  <2>1. ASSUME NEW i \in Taken PROVE i \in Cells /\ i \in PendingCells /\ i \notin Slot(head, width)
    <3>1. i \in Cells /\ i \in PendingCells /\ pos[i] >= 0
      BY <1>7 DEF Taken
    <3> QED
      BY <1>2, <3>1
  <2>2. ASSUME NEW i \in Taken PROVE pos'[i] = pos[i] /\ pos'[i] >= 0
    BY <1>2, <2>1 DEF Taken
  <2>3. \A i \in Taken : i \in PendingCells'
    BY <1>2, <2>1
  <2> QED
    BY <2>1, <2>2, <2>3 DEF Taken
<1>12. \A i \in Taken : pos[i] \in Int
  BY <1>7, Types DEF Taken
<1> HIDE DEF Taken
<1>13. p <= Upto' /\ next' + left' - p \in 1 .. NBatch
  <2>1. p <= Upto'
    BY <1>2, <1>3, <1>5, <1>6, SMT
  <2> QED
    BY <1>1, <1>6, <2>1
<1>14. ASSUME NEW i \in Taken' PROVE seqs'[i] = {sid'} /\ p <= pos'[i] /\ pos'[i] < Upto'
  <2>1. CASE i \in Slot(head, width)
    <3>1. seqs'[i] = {sid} /\ pos'[i] = next + (i - head)
      BY <1>2, <2>1
    <3>2. p <= pos'[i] /\ pos'[i] < Upto'
      BY <1>2, <1>3, <1>5, <1>6, <1>8, <2>1, <3>1, SMT
    <3> QED
      BY <1>1, <3>1, <3>2
  <2>2. CASE i \in Taken /\ pos'[i] = pos[i] /\ seqs'[i] = seqs[i]
    <3>1. seqs'[i] = {sid} /\ p <= pos'[i] /\ pos'[i] < next /\ pos'[i] \in Int
      BY <1>6, <1>12, <2>2
    <3>2. pos'[i] < Upto'
      BY <1>2, <1>3, <1>5, <3>1, SMT
    <3> QED
      BY <1>1, <3>1, <3>2
  <2> QED
    BY <1>9, <2>1, <2>2
<1>15. ASSUME NEW i \in Taken', NEW j \in Taken', pos'[i] = pos'[j] PROVE i = j
  <2>1. CASE i \in Slot(head, width) /\ j \in Slot(head, width)
    BY <1>2, <1>3, <1>8, <1>15, <2>1, SMT
  <2>2. CASE i \notin Slot(head, width) /\ j \notin Slot(head, width)
    BY <1>6, <1>9, <1>15, <2>2
  <2>3. ASSUME NEW x \in Slot(head, width), NEW y \in Taken PROVE pos'[x] # pos'[y]
    <3>1. pos'[x] = next + (x - head) /\ pos'[y] = pos[y] /\ pos[y] < next /\ pos[y] \in Int
      BY <1>2, <1>6, <1>11, <1>12, <2>3
    <3>2. x \in Int /\ head <= x
      BY <1>8
    <3> QED
      BY <1>2, <1>3, <3>1, <3>2, SMT
  <2> QED
    BY <1>9, <1>15, <2>1, <2>2, <2>3
<1>16. ASSUME NEW q \in p .. Upto' - 1 PROVE \E i \in Taken' : pos'[i] = q
  <2>1. CASE q < next
    <3>1. q \in p .. next - 1
      BY <1>3, <1>5, <2>1, SMT
    <3>2. PICK i \in Taken : pos[i] = q
      BY <1>6, <3>1
    <3> QED
      BY <1>11, <3>2
  <2>2. CASE ~ (q < next)
    <3> DEFINE i == head + (q - next)
    <3>1. i \in head .. head + width - 1 /\ next + (i - head) = q
      BY <1>2, <1>3, <1>5, <2>2, SMT
    <3> HIDE DEF i
    <3>2. i \in Slot(head, width)
      BY <3>1 DEF Slot
    <3> QED
      BY <1>2, <1>10, <3>1, <3>2
  <2> QED
    BY <2>1, <2>2
<1>17. StoredFrom(p)'
  BY <1>13, <1>14, <1>15, <1>16, Zenon DEF StoredFrom
<1> QED
  BY <1>17 DEF BatchStored

(* The position a batch starts from is kept while the batch is under way.  *)
LEMMA BatchStoredKeeps ==
  DInv /\ BatchStored /\ [TidyNext]_dvars => BatchStored'
<1> SUFFICES ASSUME DInv, BatchStored, [TidyNext]_dvars PROVE BatchStored'
  OBVIOUS
<1>0. IInv
  BY DEF DInv
<1>1. CASE CacheStep
  <2>1. CASE SearchWrap \/ SearchOn \/ NextUBatch
    BY <1>0, <2>1, SearchStores
  <2>2. CASE Edits
    <3>1. phase' = "idle"
      BY <2>2, EditsBetween DEF Edit, batchVars
    <3> QED
      BY <3>1 DEF BatchStored
  <2>3. CASE DecodeEmpty \/ DecodeRejected \/ SearchGivesUp \/ ComputeFails
    <3>1. phase' = "idle"
      BY <2>3 DEF DecodeEmpty, DecodeRejected, SearchGivesUp, ComputeFails, EndBatch, batchVars
    <3> QED
      BY <3>1 DEF BatchStored
  <2> QED
    BY <1>1, <2>1, <2>2, <2>3 DEF CacheStep
<1>2. CASE StartBatch
  BY <1>0, <1>2, DecodeStores DEF StartBatch
<1>3. CASE StoreUBatch
  BY <1>0, <1>3, TakeSlotStores DEF StoreUBatch
<1>4. CASE EndDecode \/ DefragSched \/ Update
  <2>1. phase' = "idle"
    BY <1>4 DEF EndDecode, Commit, EndBatch, DefragSched, Update, Edit, batchVars
  <2> QED
    BY <2>1 DEF BatchStored
<1>5. CASE FillHole \/ DefragDone
  <2>1. phase = "idle" /\ phase' = phase
    BY <1>5 DEF FillHole, AtHole, DefragDone, DInv, Control, batchVars, vars
  <2> QED
    BY <2>1 DEF BatchStored
<1>6. CASE UNCHANGED dvars
  <2>1. UNCHANGED <<pos, seqs, pending, phase, sid, next, left, width>>
    BY <1>6 DEF dvars, vars, cellVars, batchVars
  <2> QED
    BY <2>1 DEF BatchStored, StoredFrom, Taken, Upto, PendingCells
<1> QED
  BY <1>1, <1>2, <1>3, <1>4, <1>5, <1>6, Zenon DEF TidyNext, DNext, DefragSteps

-----------------------------------------------------------------------------
(* What a caller sees of a decode.                                         *)

LEMMA SameCells == Store!Cells = Cells /\ Store!FreeCell = Empty
<1> QED
  BY DEF Store!Cells, Cells, Store!FreeCell, Empty, View

LEMMA SameCardinality == \A S : Store!Cardinality(S) = Cardinality(S)
<1> QED
  BY DEF Store!Cardinality, Cardinality, Store!IsFiniteSet, IsFiniteSet

(* The roll back empties cells the caller never saw taken.                 *)
LEMMA RestoreShows ==
  ASSUME IInv, NEW h, Restore(h) PROVE Committed' = Committed
<1>1. /\ pos' = [i \in Cells |-> IF i \in PendingCells THEN -1 ELSE pos[i]]
      /\ seqs' = [i \in Cells |-> IF i \in PendingCells THEN {} ELSE seqs[i]]
      /\ pending' = pending
  BY DEF Restore, FreeCells
<1>2. PendingCells' = PendingCells
  BY <1>1 DEF PendingCells
<1> QED
  BY <1>1, <1>2 DEF Committed

(* A decode fails without a trace.                                         *)
LEMMA FailureShows ==
  ASSUME IInv, DecodeEmpty \/ DecodeRejected \/ SearchGivesUp \/ ComputeFails
  PROVE  Store!DecodeFails
<1>1. CASE DecodeEmpty
  <2>1. ret' = "error" /\ UNCHANGED <<pos, seqs, pending>>
    BY <1>1 DEF DecodeEmpty, cellVars
  <2> QED
    BY <2>1 DEF Store!DecodeFails, Committed, PendingCells
<1>2. CASE DecodeRejected \/ ComputeFails
  <2>1. ret' = "error" /\ Restore(head)
    BY <1>2 DEF DecodeRejected, ComputeFails, EndBatch
  <2> QED
    BY <2>1, RestoreShows DEF Store!DecodeFails
<1>3. CASE SearchGivesUp
  <2>1. ret' = "no_slot"
    BY <1>3 DEF SearchGivesUp, EndBatch
  <2>2. \E h : Restore(h)
    BY <1>3, Zenon DEF SearchGivesUp
  <2> QED
    BY <2>1, <2>2, RestoreShows DEF Store!DecodeFails
<1> QED
  BY <1>1, <1>2, <1>3

(* The search for slots and the slots taken are not seen.                  *)
LEMMA SearchShows ==
  ASSUME IInv, SearchWrap \/ SearchOn \/ NextUBatch \/ TakeSlot
  PROVE  Committed' = Committed /\ ret' = ret
<1>1. CASE SearchWrap \/ SearchOn \/ NextUBatch
  <2>1. UNCHANGED <<pos, seqs, pending, ret>>
    BY <1>1 DEF SearchWrap, SearchOn, NextUBatch, cellVars
  <2> QED
    BY <2>1 DEF Committed, PendingCells
<1>2. CASE TakeSlot
  <2>1. ret' = ret
    BY <1>2 DEF TakeSlot
  <2>2. /\ PendingCells' = PendingCells \cup Slot(head, width)
        /\ \A i \in Slot(head, width) : i \in Cells /\ pos[i] = -1 /\ seqs[i] = {}
        /\ \A i \in Cells : i \notin Slot(head, width) => pos'[i] = pos[i] /\ seqs'[i] = seqs[i]
    BY <1>2, SlotAdded
  <2>3. Committed' = [i \in Cells |-> IF i \in PendingCells' THEN Empty
                                      ELSE View(pos'[i], seqs'[i])]
    BY DEF Committed, Empty, View
  <2>4. Committed = [i \in Cells |-> IF i \in PendingCells THEN Empty
                                     ELSE View(pos[i], seqs[i])]
    BY DEF Committed, Empty, View
  <2>5. ASSUME NEW i \in Cells PROVE Committed'[i] = Committed[i]
    <3>1. CASE i \in PendingCells
      BY <2>2, <2>3, <2>4, <3>1
    <3>2. CASE i \in Slot(head, width)
      BY <2>2, <2>3, <2>4, <3>2 DEF Empty
    <3>3. CASE i \notin PendingCells /\ i \notin Slot(head, width)
      BY <2>2, <2>3, <2>4, <3>3
    <3> QED
      BY <3>1, <3>2, <3>3
  <2> QED
    BY <2>1, <2>3, <2>4, <2>5
<1> QED
  BY <1>1, <1>2

(* The commit shows every cell the batch has taken.                        *)
LEMMA CommitShows ==
  ASSUME IInv, IInv', BatchStored, Commit
  PROVE  Store!Next
<1>1. /\ phase = "compute" /\ left = width /\ pending' = {} /\ phase' = "idle" /\ ret' = "ok"
      /\ UNCHANGED <<pos, seqs>>
  BY DEF Commit, EndBatch, cellVars
<1>2. PICK p \in 0 .. MaxPos : StoredFrom(p)
  BY <1>1 DEF BatchStored
<1> DEFINE n == next + left - p
           new == {i \in Cells : Committed'[i] # Committed[i]}
<1>3. next \in Nat /\ left \in Nat /\ width \in Nat /\ sid \in Seqs /\ p \in Int
  BY <1>1, KvAssumption DEF IInv, TypeOK, BatchOK
<1>4. Upto = p + n /\ n \in 1 .. NBatch /\ n \in Nat
  <2>1. n \in 1 .. NBatch
    BY <1>2 DEF StoredFrom
  <2>2. Upto = next + width
    BY <1>1 DEF Upto
  <2>3. Upto = p + n /\ n \in Int
    BY <1>1, <1>3, <2>2, SMT
  <2>4. n \in Nat
    BY <2>1, KvAssumption, SMT
  <2> QED
    BY <2>1, <2>3, <2>4
<1>5. /\ \A i \in Taken : seqs[i] = {sid} /\ pos[i] \in p .. p + n - 1
      /\ \A i, j \in Taken : pos[i] = pos[j] => i = j
      /\ \A q \in p .. p + n - 1 : \E i \in Taken : pos[i] = q
  <2>1. \A i \in Taken : pos[i] \in Int
    BY PendingInCells, Types DEF Taken, IInv
  <2>2. /\ \A i \in Taken : seqs[i] = {sid} /\ p <= pos[i] /\ pos[i] < p + n
        /\ \A i, j \in Taken : pos[i] = pos[j] => i = j
        /\ \A q \in p .. p + n - 1 : \E i \in Taken : pos[i] = q
    BY <1>2, <1>4 DEF StoredFrom
  <2> HIDE DEF n, Taken
  <2>3. \A i \in Taken : pos[i] \in p .. p + n - 1
    BY <1>3, <1>4, <2>1, <2>2, SMT
  <2> QED
    BY <2>2, <2>3
<1>6. Committed' = [i \in Cells |-> View(pos[i], seqs[i])]
  BY <1>1, AtRestNext
<1>7. Committed = [i \in Cells |-> IF i \in PendingCells THEN Empty ELSE View(pos[i], seqs[i])]
  BY DEF Committed, Empty, View
<1>8. Taken \subseteq Cells /\ PendingCells \subseteq Cells
  BY PendingInCells DEF IInv, Taken
<1>9. \A i \in Cells : i \in new <=> i \in Taken
  <2> TAKE i \in Cells
  <2>1. CASE i \in Taken
    <3>1. i \in PendingCells /\ pos[i] >= 0
      BY <2>1 DEF Taken
    <3>2. View(pos[i], seqs[i]).pos # Empty.pos
      BY <3>1 DEF View, Empty
    <3> QED
      BY <1>6, <1>7, <2>1, <3>1, <3>2
  <2>2. CASE i \in PendingCells /\ i \notin Taken
    <3>1. ~ (pos[i] >= 0) /\ pos[i] \in Int
      BY <2>2, Types DEF Taken
    <3>2. seqs[i] = {}
      BY <3>1 DEF IInv, EmptyAgrees
    <3>3. pos[i] = -1
      BY <3>2, FreeView
    <3> QED
      BY <1>6, <1>7, <2>2, <3>2, <3>3 DEF Empty
  <2>3. CASE i \notin PendingCells
    BY <1>6, <1>7, <2>3 DEF Taken
  <2> QED
    BY <2>1, <2>2, <2>3
<1>10. new = Taken
  BY <1>8, <1>9
<1> DEFINE g == [i \in Taken |-> pos[i]]
           k == p + n - 1
<1>11. Cardinality(Taken) = n
  <2>1. IsFiniteSet(Taken)
    BY <1>8, CellSet
  <2>2. g \in Surjection(Taken, p .. k) /\ g \in Injection(Taken, p .. k)
    BY <1>5 DEF Injection, IsInjective, Surjection
  <2>3. p \in Int /\ k \in Int /\ (IF p > k THEN 0 ELSE k - p + 1) = n
    <3> HIDE DEF n
    <3> QED
      BY <1>3, <1>4, SMT
  <2> HIDE DEF k, g
  <2>4. Cardinality(p .. k) = IF p > k THEN 0 ELSE k - p + 1
    BY <2>3, FS_Interval, Zenon
  <2>5. Cardinality(p .. k) = Cardinality(Taken)
    BY <2>1, <2>2, FS_Surjection
  <2> QED
    BY <2>3, <2>4, <2>5
<1>12. \A i \in new : Committed[i] = Empty /\ Committed'[i].seqs = {sid}
  <2> TAKE i \in new
  <2>1. i \in Taken /\ i \in Cells /\ i \in PendingCells
    BY <1>8, <1>10 DEF Taken
  <2>2. Committed'[i] = View(pos[i], {sid})
    BY <1>5, <1>6, <2>1
  <2> QED
    BY <1>7, <2>1, <2>2, ViewFields
<1>13. {Committed'[i].pos : i \in new} = p .. p + n - 1
  <2>1. \A i \in Taken : Committed'[i].pos = pos[i]
    BY <1>6, <1>8, ViewFields
  <2> HIDE DEF n, new
  <2> QED
    BY <1>5, <1>10, <2>1
<1>14. Committed' \in [Cells -> [pos : -1 .. MaxPos, seqs : SUBSET Seqs]]
  <2>1. \A i \in Cells : pos[i] \in -1 .. MaxPos /\ seqs[i] \in SUBSET Seqs
    BY Types
  <2> QED
    BY <1>6, <2>1 DEF View
<1>15. Store!DecodeOk(n, sid, p)
  <2>1. {i \in Store!Cells : Committed'[i] # Committed[i]} = new
    BY SameCells
  <2>2. Cardinality(new) = n
    BY <1>10, <1>11
  <2>3. Committed' \in [Store!Cells -> [pos : -1 .. MaxPos, seqs : SUBSET Seqs]]
    BY <1>14, SameCells
  <2>4. \A i \in new : Committed[i] = Store!FreeCell /\ Committed'[i].seqs = {sid}
    BY <1>12, SameCells
  <2> DEFINE N == {i \in Store!Cells : Committed'[i] # Committed[i]}
  <2>5. /\ Cardinality(N) = n
        /\ \A i \in N : Committed[i] = Store!FreeCell /\ Committed'[i].seqs = {sid}
        /\ {Committed'[i].pos : i \in N} = p .. p + n - 1
    <3> HIDE DEF n, new, N
    <3>1. N = new
      BY <2>1 DEF N
    <3> QED
      BY <1>13, <2>2, <2>4, <3>1
  <2> HIDE DEF n
  <2> QED
    BY <1>1, <2>3, <2>5, SameCardinality, Zenon DEF Store!DecodeOk
<1> HIDE DEF n
<1> QED
  BY <1>3, <1>4, <1>15, Zenon DEF Store!Next

-----------------------------------------------------------------------------
(* What a caller sees of a defragmentation.                                *)

(* A call that changes nothing but what the last one returned.             *)
LEMMA NothingShows ==
  ASSUME Committed' = Committed, ret' = "none"
  PROVE  Store!Next
<1> DEFINE id == [i \in Cells |-> i]
<1>1. id \in [Cells -> Cells] /\ \A i, j \in Cells : id[i] = id[j] => i = j
  OBVIOUS
<1>2. Committed' = [i \in Cells |-> Committed[id[i]]]
  BY DEF Committed
<1>3. Store!Move
  <2> HIDE DEF id
  <2> QED
    BY <1>1, <1>2, SameCells DEF Store!Move
<1> QED
  BY <1>3, Zenon DEF Store!Next

(* The cells that are moved change places with the cells of the hole.      *)
LEMMA FillHoleShows ==
  ASSUME DInv, DInv', FillHole, ret = "none"
  PROVE  Store!Next
<1>1. /\ IInv /\ PassType /\ phase = "idle" /\ IInv' /\ phase' = "idle" /\ ret' = "none"
  BY DEF DInv, FillHole, AtHole, Control, batchVars
<1>2. PICK S, to, h, g : FillsHole(S, to, h, g)
  BY FillHoleFills
<1> DEFINE Comes(i) == CHOOSE d \in S : to[d] = i
           p == [i \in Cells |-> IF i \in S THEN to[i]
                                 ELSE IF \E d \in S : to[d] = i THEN Comes(i) ELSE i]
<1>3. /\ \A d \in S : /\ d \in Cells /\ to[d] \in Cells /\ to[d] < h + g /\ ~ (d < h + g)
                      /\ seqs[to[d]] = {}
                      /\ pos'[to[d]] = pos[d] /\ seqs'[to[d]] = seqs[d]
                      /\ pos'[d] = -1 /\ seqs'[d] = {}
      /\ \A i \in Cells : i \notin S /\ (\A d \in S : to[d] # i) =>
           pos'[i] = pos[i] /\ seqs'[i] = seqs[i]
      /\ \A d, e \in S : to[d] = to[e] => d = e
  <2>1. \A d, e \in S : to[d] = to[e] => d = e
    BY <1>2 DEF FillsHole, Fills
  <2> QED
    BY <1>1, <1>2, <2>1, FillEffect
<1>4. \A d \in S : to[d] \notin S
  BY <1>3
<1>5. ASSUME NEW d \in S PROVE p[d] = to[d] /\ p[to[d]] = d
  <2>1. p[d] = to[d]
    BY <1>3
  <2>2. Comes(to[d]) \in S /\ to[Comes(to[d])] = to[d]
    OBVIOUS
  <2>3. Comes(to[d]) = d
    <3> HIDE DEF Comes
    <3> QED
      BY <1>3, <2>2
  <2>4. p[to[d]] = Comes(to[d])
    <3> HIDE DEF Comes
    <3> QED
      BY <1>3, <1>4
  <2> QED
    BY <2>1, <2>3, <2>4
<1>6. \A i \in Cells : i \notin S /\ (\A d \in S : to[d] # i) => p[i] = i
  OBVIOUS
<1> HIDE DEF p
<1>7. ASSUME NEW i \in Cells
      PROVE  p[i] \in Cells /\ p[p[i]] = i
  <2>1. CASE i \in S
    BY <1>3, <1>5, <2>1
  <2>2. CASE \E d \in S : to[d] = i
    BY <1>3, <1>5, <2>2
  <2>3. CASE i \notin S /\ \A d \in S : to[d] # i
    BY <1>6, <2>3
  <2> QED
    BY <2>1, <2>2, <2>3
<1>8. p \in [Cells -> Cells] /\ \A i, j \in Cells : p[i] = p[j] => i = j
  <2>1. p = [i \in Cells |-> p[i]]
    BY DEF p
  <2>2. p \in [Cells -> Cells]
    BY <1>7, <2>1
  <2>3. ASSUME NEW i \in Cells, NEW j \in Cells, p[i] = p[j] PROVE i = j
    BY <1>7, <2>3
  <2> QED
    BY <2>2, <2>3
<1>9. /\ Committed = [i \in Cells |-> View(pos[i], seqs[i])]
      /\ Committed' = [i \in Cells |-> View(pos'[i], seqs'[i])]
  BY <1>1, AtRest, AtRestNext
<1>10. ASSUME NEW i \in Cells PROVE Committed'[i] = Committed[p[i]]
  <2>1. CASE i \in S
    <3>1. p[i] = to[i] /\ to[i] \in Cells /\ seqs[to[i]] = {}
      BY <1>3, <1>5, <2>1
    <3>2. pos[to[i]] = -1
      BY <1>1, <3>1, FreeView
    <3>3. pos'[i] = -1 /\ seqs'[i] = {}
      BY <1>3, <2>1
    <3> QED
      BY <1>9, <3>1, <3>2, <3>3
  <2>2. CASE \E d \in S : to[d] = i
    <3>1. PICK d \in S : to[d] = i
      BY <2>2
    <3>2. p[i] = d /\ d \in Cells /\ pos'[i] = pos[d] /\ seqs'[i] = seqs[d]
      BY <1>3, <1>5, <3>1
    <3> QED
      BY <1>9, <3>2
  <2>3. CASE i \notin S /\ \A d \in S : to[d] # i
    <3>1. p[i] = i /\ pos'[i] = pos[i] /\ seqs'[i] = seqs[i]
      BY <1>3, <1>6, <2>3
    <3> QED
      BY <1>9, <3>1
  <2> QED
    BY <2>1, <2>2, <2>3
<1>11. Committed' = [i \in Cells |-> Committed[p[i]]]
  BY <1>9, <1>10
<1>12. Store!Move
  BY <1>1, <1>8, <1>11, SameCells DEF Store!Move
<1> QED
  BY <1>12, Zenon DEF Store!Next

-----------------------------------------------------------------------------
(* The refinement.                                                         *)

(* The calls have no result of a decode left while cells are moved.        *)
RetOK == step = "fill" => ret = "none"

SInv == DInv /\ BatchStored /\ RetOK

LEMMA InitSInv == DInit => SInv /\ Store!Init
<1> SUFFICES ASSUME DInit PROVE SInv /\ Store!Init
  OBVIOUS
<1>1. /\ DInv /\ phase = "idle" /\ step = "none" /\ ret = "none" /\ pending = {}
      /\ pos = [i \in Cells |-> -1] /\ seqs = [i \in Cells |-> {}]
  BY InitDInv DEF DInit, Init
<1>2. SInv
  BY <1>1 DEF SInv, BatchStored, RetOK
<1>3. Committed = [i \in Cells |-> Empty]
  <2>1. Committed = [i \in Cells |-> View(pos[i], seqs[i])]
    BY <1>1, AtRest DEF DInv
  <2> QED
    BY <1>1, <2>1 DEF Empty
<1> QED
  BY <1>1, <1>2, <1>3, SameCells DEF Store!Init

LEMMA NextSInv == SInv /\ [TidyNext]_dvars => SInv'
<1> SUFFICES ASSUME SInv, [TidyNext]_dvars PROVE SInv'
  OBVIOUS
<1>1. DInv' /\ BatchStored'
  BY NextDInv, BatchStoredKeeps DEF SInv
<1>2. ASSUME step' = "fill" PROVE ret' = "none"
  <2>1. CASE step = "fill"
    <3>1. ret = "none"
      BY <2>1 DEF SInv, RetOK
    <3>2. ret' = ret
      BY <2>1 DEF TidyNext, DNext, CacheStep, StartBatch, StoreUBatch, EndDecode, DefragSched,
         Update, DefragSteps, FillHole, DefragDone, dvars, vars
    <3> QED
      BY <3>1, <3>2
  <2>2. CASE step # "fill"
    <3>1. Update
      BY <1>2, <2>2 DEF TidyNext, DNext, CacheStep, StartBatch, StoreUBatch, EndDecode,
         DefragSched, DefragSteps, FillHole, AtHole, DefragDone, dvars, defragVars
    <3> QED
      BY <3>1 DEF Update, Edit
  <2> QED
    BY <2>1, <2>2
<1> QED
  BY <1>1, <1>2 DEF SInv, RetOK

(* Every step maps to a step of KvStore or to a stutter.                   *)
LEMMA StepMaps ==
  SInv /\ SInv' /\ [TidyNext]_dvars => [Store!Next]_<<Committed, ret>>
<1> SUFFICES ASSUME SInv, SInv', [TidyNext]_dvars
             PROVE  Store!Next \/ (Committed' = Committed /\ ret' = ret)
  OBVIOUS
<1>1. IInv /\ IInv' /\ DInv /\ DInv' /\ BatchStored /\ RetOK
  BY DEF SInv, DInv
<1>2. CASE CacheStep
  <2>1. CASE Edits
    BY <1>1, <2>1, EditsShow
  <2>2. CASE DecodeEmpty \/ DecodeRejected \/ SearchGivesUp \/ ComputeFails
    <3>1. Store!DecodeFails
      BY <1>1, <2>2, FailureShows
    <3> QED
      BY <3>1, Zenon DEF Store!Next
  <2>3. CASE SearchWrap \/ SearchOn \/ NextUBatch
    BY <1>1, <2>3, SearchShows
  <2> QED
    BY <1>2, <2>1, <2>2, <2>3, Zenon DEF CacheStep
<1>3. CASE StartBatch
  <2>1. ret' = "none" /\ UNCHANGED <<pos, seqs, pending>>
    BY <1>3 DEF StartBatch, Decode
  <2>2. Committed' = Committed
    BY <2>1 DEF Committed, PendingCells
  <2> QED
    BY <2>1, <2>2, NothingShows
<1>4. CASE StoreUBatch
  BY <1>1, <1>4, SearchShows DEF StoreUBatch
<1>5. CASE EndDecode
  BY <1>1, <1>5, CommitShows DEF EndDecode
<1>6. CASE DefragSched \/ Update
  <2>1. ret' = "none" /\ UNCHANGED <<pos, seqs, pending>>
    BY <1>6 DEF DefragSched, Update, Edit, cellVars
  <2>2. Committed' = Committed
    BY <2>1 DEF Committed, PendingCells
  <2> QED
    BY <2>1, <2>2, NothingShows
<1>7. CASE FillHole
  <2>1. ret = "none"
    BY <1>1, <1>7 DEF RetOK, FillHole, AtHole
  <2> QED
    BY <1>1, <1>7, <2>1, FillHoleShows
<1>8. CASE DefragDone \/ UNCHANGED dvars
  <2>1. UNCHANGED <<pos, seqs, pending, ret>>
    BY <1>8 DEF DefragDone, dvars, vars, cellVars
  <2> QED
    BY <2>1 DEF Committed, PendingCells
<1> QED
  BY <1>2, <1>3, <1>4, <1>5, <1>6, <1>7, <1>8, Zenon DEF TidyNext, DNext, DefragSteps

(* The cache implements its abstract specification, whatever its size: a   *)
(* decode shows its whole batch or nothing of it, an edit does what it     *)
(* does to KvStore, and a defragmentation only makes cells change places.  *)
THEOREM CacheImplementsStore == TidySpec => ImplementsStore
<1>1. DInit => SInv /\ Store!Init
  BY InitSInv
<1>2. SInv /\ [TidyNext]_dvars => SInv'
  BY NextSInv
<1>3. SInv /\ SInv' /\ [TidyNext]_dvars => [Store!Next]_<<Committed, ret>>
  BY StepMaps
<1> QED
  BY <1>1, <1>2, <1>3, PTL DEF TidySpec, ImplementsStore, Store!Spec

-----------------------------------------------------------------------------
(* What an error leaves.                                                   *)

(* A cell that a roll back empties was taken by the batch under way.       *)
LEMMA RolledBackOwn ==
  ASSUME IInv, BatchStored, NEW h, Restore(h),
         NEW i \in Cells, pos'[i] # pos[i]
  PROVE  phase # "idle" /\ sid \in seqs[i]
<1>1. pos' = [j \in Cells |-> IF j \in PendingCells THEN -1 ELSE pos[j]]
  BY DEF Restore, FreeCells
<1>2. i \in PendingCells /\ pos[i] # -1 /\ pos[i] \in -1 .. MaxPos /\ MaxPos \in Int
  BY <1>1, Types
<1>3. pos[i] >= 0
  BY <1>2, SMT
<1>4. phase # "idle"
  BY <1>2, <1>3, SMT DEF IInv, StalePendingIsFree
<1>5. i \in Taken
  BY <1>2, <1>3 DEF Taken
<1> QED
  BY <1>4, <1>5, Zenon DEF BatchStored, StoredFrom

(* A decode under way has not returned.                                    *)
Unanswered == phase # "idle" => ret = "none"

LEMMA UnansweredKeeps ==
  SInv /\ Unanswered /\ [TidyNext]_dvars => Unanswered'
<1> SUFFICES ASSUME SInv, Unanswered, [TidyNext]_dvars, phase' # "idle" PROVE ret' = "none"
  BY DEF Unanswered
<1>1. CASE StartBatch
  BY <1>1 DEF StartBatch, Decode
<1>2. CASE SearchWrap \/ SearchOn \/ NextUBatch \/ TakeSlot
  <2>1. phase # "idle" /\ ret' = ret
    BY <1>2 DEF SearchWrap, SearchOn, NextUBatch, TakeSlot
  <2> QED
    BY <2>1 DEF Unanswered
<1>3. CASE Edits \/ DecodeEmpty \/ DecodeRejected \/ SearchGivesUp \/ ComputeFails \/ EndDecode
           \/ DefragSched \/ Update
  <2>1. phase' = "idle"
    BY <1>3, EditsBetween DEF Edit, DecodeEmpty, DecodeRejected, SearchGivesUp, ComputeFails,
       EndDecode, Commit, EndBatch, DefragSched, Update, batchVars
  <2> QED
    BY <2>1
<1>4. CASE FillHole \/ DefragDone \/ UNCHANGED dvars
  <2>1. phase' = phase /\ ret' = ret
    BY <1>4 DEF FillHole, DefragDone, dvars, vars, batchVars
  <2> QED
    BY <2>1 DEF Unanswered
<1> QED
  BY <1>1, <1>2, <1>3, <1>4, Zenon DEF TidyNext, DNext, CacheStep, StoreUBatch, DefragSteps

(* A step that changes cells and leaves an error is a roll back.           *)
LEMMA ErrorRollsBack ==
  ASSUME SInv, Unanswered, [TidyNext]_dvars, ret' \in {"no_slot", "error"}, pos' # pos
  PROVE  \E h : Restore(h)
<1>1. ~ Edits /\ ~ StartBatch /\ ~ DefragSched /\ ~ Update
  BY EditsBetween DEF Edit, StartBatch, Decode, DefragSched, Update
<1>2. ~ DecodeEmpty /\ ~ EndDecode /\ ~ DefragDone /\ ~ UNCHANGED dvars
  BY DEF DecodeEmpty, EndDecode, Commit, DefragDone, dvars, vars, cellVars
<1>3. ~ SearchWrap /\ ~ SearchOn /\ ~ NextUBatch /\ ~ TakeSlot
  BY DEF SearchWrap, SearchOn, NextUBatch, TakeSlot, Unanswered
<1>4. ~ FillHole
  BY DEF FillHole, AtHole, SInv, RetOK
<1>5. DecodeRejected \/ SearchGivesUp \/ ComputeFails
  BY <1>1, <1>2, <1>3, <1>4, Zenon DEF TidyNext, DNext, CacheStep, StoreUBatch, DefragSteps
<1> QED
  BY <1>5, Zenon DEF DecodeRejected, SearchGivesUp, ComputeFails

(* llama.h keeps its word where no defragmentation meets the ranges of a   *)
(* failed batch: an error undoes the batch under way, and nothing else.    *)
THEOREM ErrorRestores == TidySpec => RestoresOnError
<1> DEFINE Inv == SInv /\ Unanswered
<1>1. DInit => Inv
  BY InitSInv DEF DInit, Init, Unanswered
<1>2. Inv /\ [TidyNext]_dvars => Inv'
  BY NextSInv, UnansweredKeeps
<1>3. Inv /\ [TidyNext]_dvars
        => [ret' \in {"no_slot", "error"}
              => \A i \in Cells : pos'[i] # pos[i] => phase # "idle" /\ sid \in seqs[i]]_dvars
  <2> SUFFICES ASSUME Inv, [TidyNext]_dvars, ret' \in {"no_slot", "error"},
                      NEW i \in Cells, pos'[i] # pos[i]
               PROVE  phase # "idle" /\ sid \in seqs[i]
    OBVIOUS
  <2>1. PICK h : Restore(h)
    BY ErrorRollsBack
  <2> QED
    BY <2>1, RolledBackOwn DEF SInv, DInv
<1> HIDE DEF Inv
<1>4. TidySpec => []Inv /\ [][TidyNext]_dvars
  BY <1>1, <1>2, PTL DEF TidySpec
<1>5. []Inv /\ [][TidyNext]_dvars => RestoresOnError
  BY <1>3, PTL DEF RestoresOnError
<1> QED
  BY <1>4, <1>5, PTL
=============================================================================
