------------------------------ MODULE KvDefrag ------------------------------
(***************************************************************************)
(* The defragmentation of llama_kv_cache_unified, on top of KvCache: a     *)
(* request (llama_kv_self_defrag, or the threshold at the end of a         *)
(* decode), the pass over the holes below "used" (defrag_prepare, one      *)
(* iteration that finds a hole per action) and the graph that copies the   *)
(* K and V data after the cells have been moved.  What the data of a cell  *)
(* is, is abstracted to the position it is rotated to.                     *)
(***************************************************************************)
EXTENDS KvCache

CONSTANT MoveBounds   \* values of max_moves: it follows from the model's layers

ASSUME DefragAssumption == MoveBounds \subseteq Nat \ {0}

VARIABLES
  do_defrag,  \* a defragmentation has been asked for
  step,       \* control: "none" or "fill" (defrag_prepare)
  ids,        \* defrag_info.ids: the cell i moves to, Size when it stays
  hole,       \* i0, the cell the pass has come to
  budget,     \* max_moves - n_moves
  rot         \* the position the K data of a cell is rotated to, 0 when free

defragVars == <<step, ids, hole, budget>>
dvars == <<vars, do_defrag, defragVars, rot>>

DInit ==
  /\ Init
  /\ do_defrag = FALSE /\ step = "none"
  /\ ids = [i \in Cells |-> Size] /\ hole = 0 /\ budget = 0
  /\ rot = [i \in Cells |-> 0]

-----------------------------------------------------------------------------
(* The steps of KvCache and what they do to the data.                      *)

Rotated == [i \in Cells |-> IF pos[i] < 0 THEN 0 ELSE rot[i] + delta[i]]

Untouched == [i \in Cells |-> IF pos'[i] < 0 THEN 0 ELSE rot[i]]

(* Everything but the start of a batch, its slots and its end.             *)
CacheStep ==
  /\ step = "none"
  /\ \/ Edits \/ DecodeEmpty \/ DecodeRejected
     \/ SearchWrap \/ SearchOn \/ SearchGivesUp \/ NextUBatch \/ ComputeFails
  /\ rot' = Untouched
  /\ UNCHANGED <<do_defrag, defragVars>>

(* decode calls update before it looks for slots: a defragmentation that   *)
(* was asked for has been done (Update), a shift is applied here.          *)
StartBatch ==
  /\ step = "none" /\ ~ do_defrag
  /\ \E n \in 1 .. NBatch, s \in Seqs, p \in 0 .. MaxPos : Decode(n, s, p)
  /\ rot' = IF shift THEN Rotated ELSE rot
  /\ UNCHANGED <<do_defrag, defragVars>>

(* The graph of the ubatch stores its data at the positions of the slot.   *)
StoreUBatch ==
  /\ step = "none" /\ TakeSlot
  /\ rot' = [i \in Cells |-> IF i \in Slot(head, width) THEN pos'[i] ELSE rot[i]]
  /\ UNCHANGED <<do_defrag, defragVars>>

(* The end of a decode: the threshold on the fragmentation may be exceeded.*)
EndDecode ==
  /\ step = "none" /\ Commit
  /\ do_defrag' \in BOOLEAN
  /\ UNCHANGED <<defragVars, rot>>

-----------------------------------------------------------------------------
(* llama_kv_self_defrag.                                                   *)
DefragSched ==
  /\ step = "none" /\ Edit
  /\ do_defrag' = TRUE
  /\ UNCHANGED <<cellVars, head, defragVars, rot>>

(* Mutant: the cells keep the shift that has been applied to their data.   *)
BadApplyShift ==
  /\ rot' = IF shift THEN Rotated ELSE rot
  /\ shift' = FALSE
  /\ UNCHANGED delta

(* The graph of the shift rotates the data, the deltas are reset.          *)
ApplyShift ==
  /\ rot' = IF shift THEN Rotated ELSE rot
  /\ delta' = (IF shift THEN [i \in Cells |-> 0] ELSE delta)
  /\ shift' = FALSE

(* update: the shift comes first, whether or not cells will be moved.      *)
Update ==
  /\ step = "none" /\ Edit
  /\ ApplyShift
  /\ \/ /\ do_defrag /\ step' = "fill" /\ budget' \in MoveBounds
     \/ /\ ~ do_defrag /\ UNCHANGED <<step, budget>>
  /\ UNCHANGED <<pos, seqs, used, head, do_defrag, ids, hole>>

Holes == {i \in hole .. used - 1 : seqs[i] = {}}

(* Empty cells from h on, below used.                                      *)
Gap(h) == Min({used} \cup {i \in h .. used - 1 : seqs[i] # {}}) - h

Movable(h) == {i \in Cells : i > h /\ seqs[i] # {} /\ ids[i] = Size}

(* Mutant: the last of the cells is left where it is.                      *)
BadDonors(h) ==
  {i \in Movable(h) : Cardinality({j \in Movable(h) : j > i}) \in 1 .. Gap(h) - 1}

(* The cells that fill the hole: as many as it is long, from the end.      *)
Donors(h) ==
  {i \in Movable(h) : Cardinality({j \in Movable(h) : j > i}) < Gap(h)}

(* The first cell of each contiguous block: a block is one move.           *)
Starts(S) == {i \in S : i - 1 \notin S}

(* The blocks are moved in order while the bound on moves allows it.       *)
Moved(D) == {d \in D : Cardinality({e \in Starts(D) : e <= d}) <= budget}

(* f after the cells of S have gone to the cells "to" gives them.          *)
Relocate(f, S, to, blank) ==
  [i \in Cells |-> IF \E d \in S : to[d] = i
                   THEN f[CHOOSE d \in S : to[d] = i]
                   ELSE IF i \in S THEN blank ELSE f[i]]

(* Another iteration of the loop finds a hole.                             *)
AtHole == step = "fill" /\ budget > 0 /\ Holes # {}

(* GGML_ASSERT(nf == nh): the cells behind the hole suffice to fill it.    *)
Suffices(h) == Cardinality(Movable(h)) >= Gap(h)

(* The next hole is filled; the loop goes on behind it.                    *)
FillHole ==
  /\ AtHole
  /\ LET h == Min(Holes)
         D == Donors(h)
         S == Moved(D)
         to == [d \in D |-> h + Cardinality({e \in D : e < d})]
     IN  /\ Suffices(h)
         /\ pos' = Relocate(pos, S, to, -1)
         /\ seqs' = Relocate(seqs, S, to, {})
         /\ delta' = Relocate(delta, S, to, 0)
         /\ ids' = [i \in Cells |-> IF i \in S THEN to[i] ELSE ids[i]]
         /\ head' = used
         /\ hole' = h + Gap(h)
         /\ budget' = budget - Cardinality(Starts(D) \cap S)
  /\ UNCHANGED <<used, shift, batchVars, pending, ret, do_defrag, step, rot>>

(* Mutant: neighbours that are moved to different holes go as one block.   *)
BadCopied ==
  LET Goes(d) == IF d - 1 \in Cells /\ ids[d - 1] # Size THEN ids[d - 1] + 1 ELSE ids[d]
      S == {d \in Cells : ids[d] # Size}
  IN  [i \in Cells |-> IF \E d \in S : Goes(d) = i
                       THEN rot[CHOOSE d \in S : Goes(d) = i]
                       ELSE IF pos[i] < 0 THEN 0 ELSE rot[i]]

(* The data after build_graph_defrag has been computed.                    *)
Copied == Relocate(rot, {d \in Cells : ids[d] # Size}, ids, 0)

(* The pass is over; ids is cleared here, defrag_prepare does it when it   *)
(* is entered again.                                                       *)
DefragDone ==
  /\ step = "fill" /\ (budget = 0 \/ Holes = {})
  /\ rot' = Copied
  /\ do_defrag' = FALSE /\ step' = "none"
  /\ ids' = [i \in Cells |-> Size] /\ hole' = 0 /\ budget' = 0
  /\ UNCHANGED vars

-----------------------------------------------------------------------------
DefragSteps == FillHole \/ DefragDone

DecodeGoesOn == (phase # "idle" /\ CacheStep) \/ StoreUBatch \/ EndDecode

DNext ==
  \/ CacheStep \/ StartBatch \/ StoreUBatch \/ EndDecode
  \/ DefragSched \/ Update \/ DefragSteps

Fair == WF_dvars(DecodeGoesOn) /\ WF_dvars(DefragSteps)

DSpec == DInit /\ [][DNext]_dvars /\ Fair

(* The callers that ask for a defragmentation only when the last batch has *)
(* not failed: no range of an earlier batch is pending.                    *)
TidyNext == DNext /\ (do_defrag' => do_defrag \/ pending' = {})

TidySpec == DInit /\ [][TidyNext]_dvars /\ Fair

-----------------------------------------------------------------------------
(* Properties.                                                             *)

(* defrag_prepare's assertion holds: "used" is exact after any sequence of *)
(* edits, failed batches and earlier passes, so that the cells behind a    *)
(* hole always suffice to fill it.                                         *)
HolesCanBeFilled == AtHole => Suffices(Min(Holes))

(* Outside a pass the K data of a cell in use is rotated to the position   *)
(* the cell stands for, up to the shift still to be applied: the copy the  *)
(* graph makes follows the move of the cells, and a shift that is pending  *)
(* when cells are moved is neither lost nor applied twice.                 *)
DataFollowsCells ==
  step = "none" => \A i \in Cells : pos[i] >= 0 => rot[i] + delta[i] = pos[i]

(* A pass that did not run into the bound on moves leaves the cells in use *)
(* at the front, none behind them.                                         *)
Compacts ==
  [][step = "fill" /\ step' = "none" /\ budget > 0
       => \A i \in Cells : pos[i] >= 0 <=> i < used]_dvars

(* llama.h: when llama_decode returns an error, the cache is as it was     *)
(* before the call.  A cell an error empties was taken by that very batch: *)
(* it belongs to its sequence, and a batch was under way.                  *)
RestoresOnError ==
  [][ret' \in {"no_slot", "error"}
       => \A i \in Cells : pos'[i] # pos[i] => phase # "idle" /\ sid \in seqs[i]]_dvars
=============================================================================
