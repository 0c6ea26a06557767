------------------------------ MODULE AppendKv ------------------------------
(***************************************************************************)
(* The KV cache as LLMProcessor meets it.  The program only ever calls     *)
(* llama_decode: no cell is freed, so the cache is a counter, and a batch  *)
(* is stored exactly when the free cells are enough for it.  KvCache with  *)
(* no edits implements this module; LLMProcessor is built on it.           *)
(***************************************************************************)
EXTENDS Integers

CONSTANTS
  Size,     \* number of cells
  NBatch    \* tokens a batch may hold

VARIABLES
  used,     \* cells holding committed tokens
  want,     \* tokens of the batch being decoded, 0 between batches
  ret       \* what the last llama_decode returned

Room(u, n) == u + n <= Size

Init == used = 0 /\ want = 0 /\ ret = "none"

Begin(n) == want = 0 /\ want' = n /\ ret' = "none" /\ UNCHANGED used

Stored ==
  /\ want > 0 /\ Room(used, want)
  /\ used' = used + want /\ want' = 0 /\ ret' = "ok"

NoSlot ==
  /\ want > 0 /\ ~ Room(used, want)
  /\ want' = 0 /\ ret' = "no_slot" /\ UNCHANGED used

(* The batch is rejected, or computing one of its ubatches fails.          *)
Fails == want' = 0 /\ ret' = "error" /\ UNCHANGED used

Next == (\E n \in 1 .. NBatch : Begin(n)) \/ Stored \/ NoSlot \/ Fails

Spec == Init /\ [][Next]_<<used, want, ret>>
=============================================================================
