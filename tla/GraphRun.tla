------------------------------ MODULE GraphRun ------------------------------
(***************************************************************************)
(* What ggml_graph_compute promises its caller, as if one thread did all:  *)
(* the parts of each node are computed once, in any order, and a node only *)
(* when the nodes before it are complete.  The callback of the caller may  *)
(* end the graph behind the node that is being computed, and then that     *)
(* node is complete too.  ThreadPool implements this module.               *)
(***************************************************************************)
EXTENDS Integers

CONSTANT NNodes   \* nodes of a graph

Nodes == 0 .. NNodes - 1

VARIABLES
  stage,   \* what the caller does: "idle", "running", "ending" or "ended"
  parts,   \* parts each node is cut into
  done,    \* those computed of this graph
  abort    \* the node before which the graph ends, or -1

Init ==
  /\ stage = "idle" /\ parts \in [Nodes -> SUBSET Nat]
  /\ done = [k \in Nodes |-> {}] /\ abort = -1

Begin ==
  /\ stage = "idle" /\ stage' = "running"
  /\ done' = [k \in Nodes |-> {}] /\ abort' = -1
  /\ UNCHANGED parts

Kept(k) == abort < 0 \/ k < abort

(* The node the graph has come to.                                         *)
Reached(k) ==
  /\ Kept(k)
  /\ \A j \in Nodes : (j < k => done[j] = parts[j]) /\ (j > k => done[j] = {})

Part(k, p) ==
  /\ stage = "running" /\ Reached(k) /\ p \in parts[k] \ done[k]
  /\ done' = [done EXCEPT ![k] = done[k] \cup {p}]
  /\ abort' \in {abort, k + 1}
  /\ UNCHANGED <<stage, parts>>

End(k) ==
  /\ stage = "running" /\ Reached(k) /\ abort' = k + 1
  /\ UNCHANGED <<stage, parts, done>>

Return ==
  /\ stage = "running" /\ stage' = "idle"
  /\ \A k \in Nodes : done[k] = IF Kept(k) THEN parts[k] ELSE {}
  /\ UNCHANGED <<parts, done, abort>>

Free ==
  /\ \/ stage = "idle" /\ stage' = "ending"
     \/ stage = "ending" /\ stage' = "ended"
  /\ UNCHANGED <<parts, done, abort>>

Next ==
  \/ Begin \/ Return \/ Free
  \/ \E k \in Nodes : End(k) \/ \E p \in parts[k] : Part(k, p)

Spec == Init /\ [][Next]_<<stage, parts, done, abort>>
=============================================================================
