------------------------------ MODULE KvStore ------------------------------
(***************************************************************************)
(* What a KV cache promises to its callers: a set of cells, each free or   *)
(* holding one position for a set of sequences.  llama_decode either adds  *)
(* every token of its batch, each in a cell that was free, or changes      *)
(* nothing.  Slots, the search for them, the ubatches a batch is split     *)
(* into, pending ranges and the roll back of a failed batch do not exist   *)
(* here: KvCache implements this module.                                   *)
(***************************************************************************)
EXTENDS Integers, FiniteSets

CONSTANTS
  Size,     \* number of cells
  Seqs,     \* sequence ids
  MaxPos,   \* bound on positions
  NBatch,   \* tokens a batch may hold
  Deltas,   \* shifts seq_add is called with
  Divs      \* divisors seq_div is called with

Cells == 0 .. Size - 1

FreeCell == [pos |-> -1, seqs |-> {}]

VARIABLES
  content,  \* the committed content of each cell
  ret       \* what the last llama_decode returned, "none" after another call

InRange(p, p0, p1) == p0 <= p /\ p < p1

Bounds == 0 .. MaxPos + 1

Init ==
  /\ content = [i \in Cells |-> FreeCell]
  /\ ret = "none"

(* A call that empties or rewrites cells one by one.                       *)
Rewrite(F(_)) ==
  /\ content' = [i \in Cells |-> F(content[i])]
  /\ ret' = "none"

Clear == Rewrite(LAMBDA c : FreeCell)

SeqRm(s, p0, p1) ==
  LET Rest(c) == IF s < 0 THEN {} ELSE c.seqs \ {s}
  IN  Rewrite(LAMBDA c :
        IF ~ InRange(c.pos, p0, p1) THEN c
        ELSE IF Rest(c) = {} THEN FreeCell ELSE [c EXCEPT !.seqs = Rest(c)])

SeqCp(s, d, p0, p1) ==
  Rewrite(LAMBDA c : IF s # d /\ s \in c.seqs /\ InRange(c.pos, p0, p1)
                     THEN [c EXCEPT !.seqs = @ \cup {d}] ELSE c)

SeqKeep(s) ==
  Rewrite(LAMBDA c : IF s \in c.seqs THEN [c EXCEPT !.seqs = {s}] ELSE FreeCell)

SeqAdd(s, p0, p1, k) ==
  Rewrite(LAMBDA c :
    IF ~ (s \in c.seqs /\ InRange(c.pos, p0, p1)) THEN c
    ELSE IF c.pos + k < 0 THEN FreeCell ELSE [c EXCEPT !.pos = @ + k])

SeqDiv(s, p0, p1, k) ==
  Rewrite(LAMBDA c : IF s \in c.seqs /\ InRange(c.pos, p0, p1)
                     THEN [c EXCEPT !.pos = @ \div k] ELSE c)

(* The cells the step fills: as many as the batch has tokens, all of them  *)
(* free before, one for each position of the batch.                        *)
DecodeOk(n, s, p) ==
  /\ content' \in [Cells -> [pos : -1 .. MaxPos, seqs : SUBSET Seqs]]
  /\ LET new == {i \in Cells : content'[i] # content[i]}
     IN  /\ Cardinality(new) = n
         /\ \A i \in new : content[i] = FreeCell /\ content'[i].seqs = {s}
         /\ {content'[i].pos : i \in new} = p .. p + n - 1
  /\ ret' = "ok"

(* llama.h: a failing decode leaves the KV cache as it was.                *)
DecodeFails ==
  /\ ret' \in {"no_slot", "error"}
  /\ UNCHANGED content

(* A defragmentation: the cells change places, what they hold does not.   *)
Move ==
  /\ \E p \in [Cells -> Cells] :
       /\ \A i, j \in Cells : p[i] = p[j] => i = j
       /\ content' = [i \in Cells |-> content[p[i]]]
  /\ ret' = "none"

Next ==
  \/ Clear
  \/ \E s \in Seqs \cup {-1}, p0, p1 \in Bounds : SeqRm(s, p0, p1)
  \/ \E s, d \in Seqs, p0, p1 \in Bounds : SeqCp(s, d, p0, p1)
  \/ \E s \in Seqs : SeqKeep(s)
  \/ \E s \in Seqs, p0, p1 \in Bounds, k \in Deltas : SeqAdd(s, p0, p1, k)
  \/ \E s \in Seqs, p0, p1 \in Bounds, k \in Divs : SeqDiv(s, p0, p1, k)
  \/ \E n \in 1 .. NBatch, s \in Seqs, p \in 0 .. MaxPos : DecodeOk(n, s, p)
  \/ DecodeFails
  \/ Move

Spec == Init /\ [][Next]_<<content, ret>>
=============================================================================
