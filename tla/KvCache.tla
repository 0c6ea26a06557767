------------------------------ MODULE KvCache ------------------------------
(***************************************************************************)
(* llama_kv_cache_unified and the part of llama_context::decode that       *)
(* drives it: cells, the head the next search starts from, the count of    *)
(* used cells, the ranges taken by the batch in progress, and the deferred *)
(* position shift.  decode splits a batch into ubatches; find_slot looks   *)
(* for a run of free cells for each, one iteration of its loop per action; *)
(* the guard of decode commits all of them or gives all of them back.      *)
(***************************************************************************)
EXTENDS Integers, FiniteSets, FiniteSetsExt

CONSTANTS
  Size,     \* number of cells (n_ctx)
  Seqs,     \* sequence ids
  MaxPos,   \* bound on positions
  NBatch,   \* n_batch: tokens a batch may hold
  NUBatch,  \* n_ubatch: tokens a ubatch may hold
  Deltas,   \* shifts seq_add is called with
  Divs      \* divisors seq_div is called with

ASSUME KvAssumption ==
  /\ Size \in Nat \ {0} /\ MaxPos \in Nat
  /\ NBatch \in Nat \ {0} /\ NUBatch \in Nat \ {0}
  /\ Seqs \subseteq Nat
  /\ Deltas \subseteq Int \ {0}
  /\ Divs \subseteq Nat \ {0, 1}

Cells == 0 .. Size - 1

VARIABLES
  pos,      \* cells[i].pos, negative when the cell is free
  delta,    \* cells[i].delta, the shift not yet applied to the K data
  seqs,     \* cells[i].seq_id
  head, used,
  pending,  \* pending.ranges: pairs <<c0, c1>> of cells taken by the batch
  shift,    \* has_shift
  phase,    \* control: "idle", "search" (find_slot) or "compute"
  sid, next, left,  \* the batch: sequence, next position, tokens to place
  width,    \* tokens of the current ubatch
  tested,   \* n_tested of find_slot
  ret       \* what the last decode returned, "none" after another call

cellVars == <<pos, delta, seqs, used, shift>>
batchVars == <<phase, sid, next, left, width, tested>>
vars == <<cellVars, batchVars, head, pending, ret>>

(* A range of positions.  The calls replace a negative p0 by 0 and a       *)
(* negative p1 by the largest position: MaxPos + 1 stands for it here.     *)
InRange(p, p0, p1) == p0 <= p /\ p < p1

Bounds == 0 .. MaxPos + 1

Slot(h, n) == h .. h + n - 1

PendingCells == UNION {Slot(r[1], r[2] - r[1]) : r \in pending}

Init ==
  /\ pos = [i \in Cells |-> -1]
  /\ delta = [i \in Cells |-> 0]
  /\ seqs = [i \in Cells |-> {}]
  /\ head = 0 /\ used = 0 /\ pending = {} /\ shift = FALSE
  /\ phase = "idle" /\ sid = 0 /\ next = 0 /\ left = 0 /\ width = 0 /\ tested = 0
  /\ ret = "none"

-----------------------------------------------------------------------------
(* The calls that edit sequences.  They run between batches.               *)

(* Mutant: nothing keeps a call out of a batch that is under way.          *)
BadEdit == ret' = "none" /\ UNCHANGED <<batchVars, pending>>

Edit == phase = "idle" /\ ret' = "none" /\ UNCHANGED <<batchVars, pending>>

(* The first of the cells a call has freed becomes the head when it lies   *)
(* before it.                                                              *)
HeadBack(freed) ==
  IF freed = {} THEN head ELSE IF Min(freed) < head THEN Min(freed) ELSE head

(* Mutant: cells that were free are counted.                               *)
BadFreeCount(freed, s1) ==
  /\ pos' = [i \in Cells |-> IF i \in freed THEN -1 ELSE pos[i]]
  /\ seqs' = [i \in Cells |-> IF i \in freed THEN {} ELSE s1[i]]
  /\ used' = used - Cardinality(freed)

(* Frees the cells of a set: used counts those that held a position.       *)
FreeCells(freed, s1) ==
  /\ pos' = [i \in Cells |-> IF i \in freed THEN -1 ELSE pos[i]]
  /\ seqs' = [i \in Cells |-> IF i \in freed THEN {} ELSE s1[i]]
  /\ used' = used - Cardinality({i \in freed : pos[i] >= 0})

(* Mutant: used is not reset.                                              *)
BadClear ==
  /\ Edit
  /\ pos' = [i \in Cells |-> -1]
  /\ seqs' = [i \in Cells |-> {}]
  /\ head' = 0
  /\ UNCHANGED <<delta, shift, used>>

Clear ==
  /\ Edit
  /\ pos' = [i \in Cells |-> -1]
  /\ seqs' = [i \in Cells |-> {}]
  /\ head' = 0 /\ used' = 0
  /\ UNCHANGED <<delta, shift>>

SeqRm(s, p0, p1) ==
  LET hit == {i \in Cells : InRange(pos[i], p0, p1) /\ (s < 0 \/ s \in seqs[i])}
      rest == [i \in Cells |-> IF i \notin hit THEN seqs[i]
                               ELSE IF s < 0 THEN {} ELSE seqs[i] \ {s}]
      freed == {i \in hit : rest[i] = {}}
  IN  /\ Edit
      /\ FreeCells(freed, rest)
      /\ head' = HeadBack(freed)
      /\ UNCHANGED <<delta, shift>>

SeqCp(s, d, p0, p1) ==
  /\ s # d
  /\ Edit
  /\ seqs' = [i \in Cells |-> IF s \in seqs[i] /\ InRange(pos[i], p0, p1)
                              THEN seqs[i] \cup {d} ELSE seqs[i]]
  /\ head' = 0
  /\ UNCHANGED <<pos, delta, used, shift>>

(* The head also goes back to a cell that was free already.                *)
SeqKeep(s) ==
  LET freed == {i \in Cells : s \notin seqs[i]}
  IN  /\ Edit
      /\ FreeCells(freed, [i \in Cells |-> {s}])
      /\ head' = HeadBack(freed)
      /\ UNCHANGED <<delta, shift>>

Shifted(s, p0, p1) == {i \in Cells : s \in seqs[i] /\ InRange(pos[i], p0, p1)}

SeqAdd(s, p0, p1, k) ==
  LET hit == Shifted(s, p0, p1)
      freed == {i \in hit : pos[i] + k < 0}
  IN  /\ p0 # p1
      /\ \A i \in hit : pos[i] + k <= MaxPos
      /\ Edit
      /\ pos' = [i \in Cells |-> IF i \in freed THEN -1
                                 ELSE IF i \in hit THEN pos[i] + k ELSE pos[i]]
      /\ seqs' = [i \in Cells |-> IF i \in freed THEN {} ELSE seqs[i]]
      /\ delta' = [i \in Cells |-> IF i \in hit THEN delta[i] + k ELSE delta[i]]
      /\ used' = used - Cardinality({i \in freed : seqs[i] # {}})
      /\ shift' = (shift \/ hit # {})
      /\ head' = IF freed = {} THEN 0 ELSE Min(freed)

SeqDiv(s, p0, p1, k) ==
  LET hit == Shifted(s, p0, p1)
  IN  /\ p0 # p1
      /\ Edit
      /\ pos' = [i \in Cells |-> IF i \in hit THEN pos[i] \div k ELSE pos[i]]
      /\ delta' = [i \in Cells |-> IF i \in hit
                                   THEN delta[i] + (pos[i] \div k - pos[i]) ELSE delta[i]]
      /\ shift' = (shift \/ hit # {})
      /\ UNCHANGED <<seqs, used, head>>

-----------------------------------------------------------------------------
(* llama_context::decode.                                                  *)

(* Mutant: the count of tested cells is that of the previous ubatch.       *)
BadEnterSearch(w, u) ==
  /\ phase' = "search" /\ width' = w /\ tested' = tested
  /\ head' = IF head > u + 2 * w THEN 0 ELSE head

(* find_slot is entered for a ubatch of w tokens with u cells in use.      *)
EnterSearch(w, u) ==
  /\ phase' = "search" /\ width' = w /\ tested' = 0
  /\ head' = IF head > u + 2 * w THEN 0 ELSE head

(* Mutants: the guard gives nothing back, or leaves the head where it is.  *)
BadRestore(h) ==
  /\ head' = h /\ pending' = {}
  /\ UNCHANGED cellVars

BadRestoreHead(h) ==
  /\ FreeCells(PendingCells, seqs)
  /\ head' = h
  /\ UNCHANGED <<delta, shift, pending>>

(* The destructor of the guard: every cell of a pending range is emptied.  *)
(* The ranges themselves stay in the list.                                 *)
Restore(h) ==
  /\ FreeCells(PendingCells, seqs)
  /\ head' = IF pending = {} THEN h
             ELSE LET c0 == Min({r[1] : r \in pending})
                  IN  IF c0 < h THEN c0 ELSE h
  /\ UNCHANGED <<delta, shift, pending>>

EndBatch(r) ==
  /\ phase' = "idle" /\ ret' = r
  /\ sid' = 0 /\ next' = 0 /\ left' = 0 /\ width' = 0 /\ tested' = 0

(* n_tokens == 0: the call returns before the guard exists.                *)
DecodeEmpty ==
  /\ phase = "idle" /\ ret' = "error"
  /\ UNCHANGED <<cellVars, batchVars, head, pending>>

(* An invalid token is thrown on, or no output buffer can be reserved:     *)
(* the guard is destroyed before any slot is taken.                        *)
DecodeRejected ==
  /\ phase = "idle"
  /\ EndBatch("error")
  /\ Restore(head)

(* The batch is accepted: pending shifts are applied first, then the first *)
(* ubatch is cut off.                                                      *)
Decode(n, s, p) ==
  /\ phase = "idle" /\ p + n - 1 <= MaxPos
  /\ delta' = (IF shift THEN [i \in Cells |-> 0] ELSE delta) /\ shift' = FALSE
  /\ sid' = s /\ next' = p /\ left' = n
  /\ EnterSearch(IF n < NUBatch THEN n ELSE NUBatch, used)
  /\ ret' = "none"
  /\ UNCHANGED <<pos, seqs, used, pending>>

(* The cells of the slot at the head that are taken.                       *)
Blockers == {i \in Slot(head, width) : pos[i] >= 0}

Fits == width <= Size /\ head + width <= Size

(* The slot would run over the end: the search goes on from cell 0.        *)
SearchWrap ==
  /\ phase = "search" /\ width <= Size /\ ~ Fits
  /\ tested' = tested + (Size - head)
  /\ head' = 0
  /\ UNCHANGED <<cellVars, pending, ret, phase, sid, next, left, width>>

(* Mutant: the cells an attempt has tested are not counted.                *)
BadSearchOn ==
  /\ phase = "search" /\ Fits /\ Blockers # {}
  /\ head' = Min(Blockers) + 1
  /\ UNCHANGED <<cellVars, pending, ret, phase, sid, next, left, width, tested>>

(* The first taken cell of the slot ends this attempt; the next one starts *)
(* behind it, unless every cell has been tested.                           *)
SearchOn ==
  /\ phase = "search" /\ Fits /\ Blockers # {}
  /\ LET skip == Min(Blockers) - head + 1
     IN  /\ tested + skip < Size
         /\ tested' = tested + skip
         /\ head' = head + skip
  /\ UNCHANGED <<cellVars, pending, ret, phase, sid, next, left, width>>

(* find_slot returns false, decode returns 1 and its guard restores.       *)
SearchGivesUp ==
  /\ phase = "search"
  /\ \/ width > Size /\ Restore(head)
     \/ /\ Fits /\ Blockers # {}
        /\ LET skip == Min(Blockers) - head + 1
           IN  tested + skip >= Size /\ Restore(head + skip)
  /\ EndBatch("no_slot")

(* The slot is free: its cells take the tokens of the ubatch.              *)
TakeSlot ==
  /\ phase = "search" /\ Fits /\ Blockers = {}
  /\ pos' = [i \in Cells |-> IF i \in Slot(head, width)
                             THEN next + (i - head) ELSE pos[i]]
  /\ seqs' = [i \in Cells |-> IF i \in Slot(head, width)
                              THEN seqs[i] \cup {sid} ELSE seqs[i]]
  /\ used' = used + width
  /\ pending' = pending \cup {<<head, head + width>>}
  /\ phase' = "compute"
  /\ UNCHANGED <<delta, shift, head, sid, next, left, width, tested, ret>>

(* The graph of the ubatch is computed: the next ubatch, or commit.        *)
NextUBatch ==
  /\ phase = "compute" /\ left > width
  /\ left' = left - width /\ next' = next + width
  /\ EnterSearch(IF left - width < NUBatch THEN left - width ELSE NUBatch, used)
  /\ UNCHANGED <<cellVars, pending, sid, ret>>

Commit ==
  /\ phase = "compute" /\ left = width
  /\ pending' = {}
  /\ EndBatch("ok")
  /\ UNCHANGED <<cellVars, head>>

(* graph_compute fails: decode returns 2, -2 or -3 and its guard restores. *)
ComputeFails ==
  /\ phase = "compute"
  /\ EndBatch("error")
  /\ Restore(head)

-----------------------------------------------------------------------------
Edits ==
  \/ Clear
  \/ \E s \in Seqs \cup {-1}, p0, p1 \in Bounds : SeqRm(s, p0, p1)
  \/ \E s, d \in Seqs, p0, p1 \in Bounds : SeqCp(s, d, p0, p1)
  \/ \E s \in Seqs : SeqKeep(s)
  \/ \E s \in Seqs, p0, p1 \in Bounds, k \in Deltas : SeqAdd(s, p0, p1, k)
  \/ \E s \in Seqs, p0, p1 \in Bounds, k \in Divs : SeqDiv(s, p0, p1, k)

(* The steps of a decode that is under way: the calling thread takes them. *)
DecodeSteps ==
  \/ SearchWrap \/ SearchOn \/ SearchGivesUp \/ TakeSlot
  \/ NextUBatch \/ Commit \/ ComputeFails

Calls ==
  \/ DecodeEmpty
  \/ DecodeRejected
  \/ \E n \in 1 .. NBatch, s \in Seqs, p \in 0 .. MaxPos : Decode(n, s, p)

Next == Edits \/ Calls \/ DecodeSteps

(* A call to llama_decode runs on a thread that is always scheduled again. *)
Spec == Init /\ [][Next]_vars /\ WF_vars(DecodeSteps)

(* The program around the cache only decodes: it never calls an edit.      *)
AppendSpec == Init /\ [][Calls \/ DecodeSteps]_vars

-----------------------------------------------------------------------------
(* Properties.                                                             *)

(* Every variable keeps its type: used, head and the counts of the search  *)
(* stay within the cells, and a batch within its bounds.                   *)
TypeOK ==
  /\ pos \in [Cells -> -1 .. MaxPos]
  /\ delta \in [Cells -> Int]
  /\ seqs \in [Cells -> SUBSET Seqs]
  /\ head \in 0 .. Size /\ used \in 0 .. Size
  /\ pending \subseteq (0 .. Size) \X (0 .. Size)
  /\ shift \in BOOLEAN
  /\ phase \in {"idle", "search", "compute"}
  /\ sid \in Seqs \cup {0} /\ next \in 0 .. MaxPos
  /\ left \in 0 .. NBatch /\ width \in 0 .. NUBatch
  /\ tested \in Nat
  /\ ret \in {"none", "ok", "no_slot", "error"}

Occupied == {i \in Cells : pos[i] >= 0}

(* The counter find_slot and the defragmenter trust is the number of cells *)
(* that hold a position, through every edit, commit and roll back: a range *)
(* that is rolled back twice, or a cell freed twice, would drive it below. *)
UsedCount == used = Cardinality(Occupied)

(* find_slot calls a cell free by its position, seq_rm and defrag_prepare  *)
(* by its sequence set: the two never disagree.                            *)
EmptyAgrees == \A i \in Cells : pos[i] < 0 <=> seqs[i] = {}

(* restore() does not clear the list of pending ranges: between batches a  *)
(* range left over from a failed batch covers free cells only, so the next *)
(* roll back never empties a cell that a later batch has committed.        *)
StalePendingIsFree == phase = "idle" => \A i \in PendingCells : pos[i] < 0

(* A cell carries an unapplied shift only while has_shift is set and no    *)
(* batch runs: no token is stored in a cell under the shift of the cell's  *)
(* previous content, although freeing a cell keeps its delta.              *)
NoStaleShift == \A i \in Cells : delta[i] # 0 => shift /\ phase = "idle"

Run(h, n) == h \in Cells /\ h + n <= Size /\ \A i \in Slot(h, n) : pos[i] < 0

(* The starts the search has refuted: the last "tested" ones before the    *)
(* head, in the cyclic order of the cells.                                 *)
Refuted == IF tested <= head THEN head - tested .. head - 1
           ELSE (0 .. head - 1) \cup (Size + head - tested .. Size - 1)

(* No slot starts at a cell that find_slot has left behind, across the     *)
(* wrap at the end and the skips behind a taken cell.                      *)
SearchSkipsNoSlot ==
  phase = "search" => \A h \in Refuted \cap Cells : ~ Run(h, width)

(* decode reports that it found no slot only when no run of free cells is  *)
(* long enough for the ubatch at hand.                                     *)
NoSlotOnlyIfNone ==
  [][phase = "search" /\ phase' = "idle" => \A h \in Cells : ~ Run(h, width)]_vars

(* find_slot's unbounded loop ends and llama_decode returns.               *)
DecodeReturns == phase # "idle" ~> phase = "idle"

(* What find_slot has left to do, twice the cells it may still test: an    *)
(* iteration that wraps need not test any, but is followed by one that does.*)
Effort == 2 * (2 * Size - tested) + IF Fits THEN 0 ELSE 1

(* A bound on the steps a decode under way still takes.                    *)
StepsLeft ==
  IF phase = "idle" THEN 0
  ELSE left * (4 * Size + 2) + IF phase = "search" THEN Effort ELSE 0

(* Every step of a decode brings its end nearer, whatever the layout of    *)
(* the cells, also where find_slot wraps at the very end without having    *)
(* tested a cell: its loop, and the one over the ubatches, are bounded.    *)
DecodeAdvances ==
  [][phase # "idle" => 0 <= StepsLeft' /\ StepsLeft' < StepsLeft]_vars

(* The cells as a caller sees them: those of a batch in progress are free. *)
Committed == [i \in Cells |->
  IF i \in PendingCells THEN [pos |-> -1, seqs |-> {}]
  ELSE [pos |-> pos[i], seqs |-> seqs[i]]]

(* A decode stores its whole batch or nothing, and never over a cell in    *)
(* use: the cache implements KvStore.                                      *)
Store == INSTANCE KvStore WITH content <- Committed
ImplementsStore == Store!Spec

UsedBefore == Cardinality({i \in Cells : Committed[i].pos >= 0})

(* Without edits the first-fit search never meets a hole: a batch finds    *)
(* room exactly when the free cells are enough for all of its ubatches,    *)
(* and the cache implements AppendKv.                                      *)
AppendOnly == INSTANCE AppendKv WITH
  used <- UsedBefore,
  want <- IF phase = "idle" THEN 0
          ELSE used - UsedBefore + left - IF phase = "compute" THEN width ELSE 0
ImplementsAppend == AppendOnly!Spec
=============================================================================
