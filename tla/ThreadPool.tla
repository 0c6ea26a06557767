----------------------------- MODULE ThreadPool ------------------------------
(***************************************************************************)
(* The thread pool that computes a graph on the CPU (ggml-cpu.c, the build *)
(* without OpenMP).  Thread 0 is the caller: it starts each graph and      *)
(* takes part in it.  The others poll for a new graph for a while and then *)
(* sleep on a condition variable.  Threads meet in a barrier after each    *)
(* node, and within a matrix product, whose chunks they take from a shared *)
(* counter.                                                                *)
(*                                                                         *)
(* Atomics are single steps.  A section under the mutex is one step, but   *)
(* for the kick-off, which polling threads watch without the mutex.        *)
(***************************************************************************)
EXTENDS Integers

CONSTANTS
  N,          \* n_threads_max
  NNodes,     \* nodes of a graph
  MulMats,    \* those that are matrix products
  Chunks,     \* nchunk0 * nchunk1 of a product
  Spread,     \* chunks for each thread below which a product is cut by threads
  Counts,     \* thread counts a graph may be planned for
  MaxGraphs   \* bound: graphs computed

ASSUME PoolAssumption ==
  /\ N \in Nat \ {0} /\ NNodes \in Nat \ {0} /\ MulMats \subseteq 0 .. NNodes - 1
  /\ Chunks \in Nat /\ Spread \in Nat
  /\ Counts \subseteq 1 .. N /\ MaxGraphs \in Nat

Threads == 0 .. N - 1
Workers == 1 .. N - 1
Nodes == 0 .. NNodes - 1

VARIABLES
  want,       \* cplan->n_threads of the next graph
  n_threads_cur, n_graph, stop, pause,
  kicking,    \* does the kick-off hold the mutex?
  n_barrier, n_barrier_passed,
  current_chunk,
  abort,      \* the node at which all threads leave the graph, or -1
  pc,         \* control of each thread
  goal,       \* where the barrier it is in leads
  node,       \* node_n
  nth,        \* params.nth
  chunk,      \* its chunk of a product
  bar,        \* n_threads and n_passed of ggml_barrier
  last_graph, \* last graph a worker knows of
  new_graph,  \* what it has read from n_graph
  done,       \* ghost: parts of each node of this graph that are computed
  again       \* ghost: has a part been computed twice?

planVars == <<want, n_threads_cur, n_graph, stop, pause, kicking>>
barVars == <<n_barrier, n_barrier_passed, bar>>
workVars == <<current_chunk, abort, goal, node, nth, chunk, done, again>>
seenVars == <<last_graph, new_graph>>
vars == <<planVars, barVars, workVars, seenVars, pc>>

Goto(t, place) == pc' = [pc EXCEPT ![t] = place]

Init ==
  /\ want \in Counts
  /\ n_threads_cur = N /\ n_graph = 0 /\ stop = FALSE /\ pause \in BOOLEAN
  /\ kicking = FALSE /\ n_barrier = 0 /\ n_barrier_passed = 0
  /\ current_chunk = 0 /\ abort = -1
  /\ pc = [t \in Threads |-> IF t = 0 THEN "idle" ELSE "top"]
  /\ goal = [t \in Threads |-> "end"]
  /\ node = [t \in Threads |-> 0] /\ nth = [t \in Threads |-> 0]
  /\ chunk = [t \in Threads |-> 0]
  /\ bar = [t \in Threads |-> [n |-> 0, passed |-> 0]]
  /\ last_graph = [t \in Threads |-> 0] /\ new_graph = [t \in Threads |-> 0]
  /\ done = [k \in Nodes |-> {}] /\ again = FALSE

-----------------------------------------------------------------------------
(* What the caller does between graphs.                                    *)

(* ggml_graph_plan: a graph gets as many threads as its largest node has   *)
(* tasks, so that graphs of one pool may differ.                           *)
Plan(n) ==
  /\ pc[0] = "idle" /\ want' = n
  /\ UNCHANGED <<n_threads_cur, n_graph, stop, pause, kicking,
                 barVars, workVars, seenVars, pc>>

(* pthread_cond_broadcast: whoever sleeps goes on, the pause loop at its   *)
(* condition and a worker without work at the mutex.                       *)
Broadcast(place) ==
  pc' = [t \in Threads |-> IF t = 0 THEN place
                           ELSE IF pc[t] = "paused" THEN "top"
                           ELSE IF pc[t] = "asleep" THEN "lock" ELSE pc[t]]

Pause ==
  /\ pc[0] = "idle" /\ ~ pause
  /\ pause' = TRUE /\ Broadcast("idle")
  /\ UNCHANGED <<want, n_threads_cur, n_graph, stop, kicking, barVars, workVars, seenVars>>

Resume ==
  /\ pc[0] = "idle" /\ pause
  /\ pause' = FALSE /\ Broadcast("idle")
  /\ UNCHANGED <<want, n_threads_cur, n_graph, stop, kicking, barVars, workVars, seenVars>>

(* ggml_graph_compute resets the state of the graph ...                    *)
Compute ==
  /\ pc[0] = "idle" /\ n_graph < MaxGraphs
  /\ current_chunk' = 0 /\ abort' = -1
  /\ done' = [k \in Nodes |-> {}]
  /\ Goto(0, "kick")
  /\ UNCHANGED <<planVars, barVars, seenVars, goal, node, nth, chunk, again>>

(* ... and kicks the threads off, under the mutex.                         *)
Kick ==
  /\ pc[0] = "kick"
  /\ kicking' = TRUE /\ n_threads_cur' = want
  /\ Goto(0, "publish")
  /\ UNCHANGED <<want, n_graph, stop, pause, barVars, workVars, seenVars>>

Publish ==
  /\ pc[0] = "publish"
  /\ n_graph' = n_graph + 1
  /\ Goto(0, "wake")
  /\ UNCHANGED <<want, n_threads_cur, stop, pause, kicking, barVars, workVars, seenVars>>

Wake ==
  /\ pc[0] = "wake"
  /\ pause' = FALSE /\ kicking' = FALSE /\ Broadcast("start")
  /\ UNCHANGED <<want, n_threads_cur, n_graph, stop, barVars, workVars, seenVars>>

Free ==
  /\ pc[0] = "idle"
  /\ stop' = TRUE /\ pause' = FALSE /\ Broadcast("join")
  /\ UNCHANGED <<want, n_threads_cur, n_graph, kicking, barVars, workVars, seenVars>>

(* Every worker has ended: mutex, workers and pool are freed.              *)
Join ==
  /\ pc[0] = "join" /\ \A w \in Workers : pc[w] = "ended"
  /\ Goto(0, "freed")
  /\ UNCHANGED <<planVars, barVars, workVars, seenVars>>

-----------------------------------------------------------------------------
(* ggml_graph_compute_secondary_thread: looking for work.                  *)

CheckPause(w) ==
  /\ pc[w] = "top"
  /\ Goto(w, IF pause THEN "pausing" ELSE "running")
  /\ UNCHANGED <<planVars, barVars, workVars, seenVars>>

(* Mutant: pause is not read again.                                        *)
BadSleepPaused(w) ==
  /\ pc[w] = "pausing" /\ ~ kicking
  /\ Goto(w, "paused")
  /\ UNCHANGED <<planVars, barVars, workVars, seenVars>>

(* pause is read again under the mutex.                                    *)
SleepPaused(w) ==
  /\ pc[w] = "pausing" /\ ~ kicking
  /\ Goto(w, IF pause THEN "paused" ELSE "top")
  /\ UNCHANGED <<planVars, barVars, workVars, seenVars>>

CheckStop(w) ==
  /\ pc[w] = "running"
  /\ Goto(w, IF stop THEN "ended" ELSE IF w < n_threads_cur THEN "poll" ELSE "lock")
  /\ UNCHANGED <<planVars, barVars, workVars, seenVars>>

(* One round of polling sees a new graph (stop and pause were read before, *)
(* and may have been set since) ...                                        *)
PollGraph(w) ==
  /\ pc[w] = "poll" /\ n_graph # last_graph[w]
  /\ new_graph' = [new_graph EXCEPT ![w] = n_graph]
  /\ Goto(w, "active")
  /\ UNCHANGED <<planVars, barVars, workVars, last_graph>>

(* Mutant: the graph is not remembered.                                    *)
BadPollActive(w) ==
  /\ pc[w] = "active"
  /\ Goto(w, IF w < n_threads_cur THEN "start" ELSE "poll")
  /\ UNCHANGED <<planVars, barVars, workVars, seenVars>>

(* ... and whether it is one of its threads.                               *)
PollActive(w) ==
  /\ pc[w] = "active"
  /\ last_graph' = [last_graph EXCEPT ![w] = new_graph[w]]
  /\ Goto(w, IF w < n_threads_cur THEN "start" ELSE "poll")
  /\ UNCHANGED <<planVars, barVars, workVars, new_graph>>

(* Polling ends on stop, on pause, or after so many rounds.                *)
PollEnds(w) ==
  /\ pc[w] = "poll"
  /\ Goto(w, "lock")
  /\ UNCHANGED <<planVars, barVars, workVars, seenVars>>

(* Mutant: no look at the graphs before the worker sleeps.                 *)
BadCheckLocked(w) ==
  /\ pc[w] = "lock" /\ ~ kicking
  /\ Goto(w, IF stop \/ pause THEN "top" ELSE "asleep")
  /\ UNCHANGED <<planVars, barVars, workVars, seenVars>>

(* The same test under the mutex, where it excludes the kick-off.          *)
CheckLocked(w) ==
  /\ pc[w] = "lock" /\ ~ kicking
  /\ \/ /\ stop \/ pause
        /\ Goto(w, "top") /\ UNCHANGED last_graph
     \/ /\ ~ stop /\ ~ pause
        /\ last_graph' = [last_graph EXCEPT ![w] = n_graph]
        /\ Goto(w, IF n_graph # last_graph[w] /\ w < n_threads_cur
                   THEN "start" ELSE "asleep")
  /\ UNCHANGED <<planVars, barVars, workVars, new_graph>>

(* A condition variable may wake a thread for no reason.                   *)
WakeSpuriously(w) ==
  /\ pc[w] \in {"asleep", "paused"}
  /\ Goto(w, IF pc[w] = "asleep" THEN "lock" ELSE "top")
  /\ UNCHANGED <<planVars, barVars, workVars, seenVars>>

-----------------------------------------------------------------------------
(* ggml_graph_compute_thread.                                              *)

Start(t) ==
  /\ pc[t] = "start"
  /\ nth' = [nth EXCEPT ![t] = n_threads_cur]
  /\ node' = [node EXCEPT ![t] = 0]
  /\ Goto(t, "node")
  /\ UNCHANGED <<planVars, barVars, seenVars, current_chunk, abort, goal, chunk, done, again>>

(* Mutant: abort is taken for a flag.                                      *)
BadNode(t) ==
  /\ pc[t] = "node"
  /\ \/ node[t] < NNodes /\ abort < 0 /\ Goto(t, "forward") /\ UNCHANGED goal
     \/ /\ node[t] = NNodes \/ abort >= 0
        /\ Goto(t, "enter") /\ goal' = [goal EXCEPT ![t] = "end"]
  /\ UNCHANGED <<planVars, barVars, seenVars, current_chunk, abort, node, nth, chunk,
                 done, again>>

(* The head of the loop over the nodes.                                    *)
Node(t) ==
  /\ pc[t] = "node"
  /\ \/ node[t] < NNodes /\ abort # node[t] /\ Goto(t, "forward") /\ UNCHANGED goal
     \/ /\ node[t] = NNodes \/ abort = node[t]
        /\ Goto(t, "enter") /\ goal' = [goal EXCEPT ![t] = "end"]
  /\ UNCHANGED <<planVars, barVars, seenVars, current_chunk, abort, node, nth, chunk,
                 done, again>>

(* The node is done for this thread.  The callback of the caller may say   *)
(* that the next node is the end; behind the last one no barrier is needed *)
(* but the final one.                                                      *)
Leave(t) ==
  /\ \/ UNCHANGED abort
     \/ t = 0 /\ abort' = node[t] + 1
  /\ node' = [node EXCEPT ![t] = node[t] + 1]
  /\ goal' = [goal EXCEPT ![t] = IF node[t] + 1 < NNodes THEN "node" ELSE "end"]
  /\ Goto(t, "enter")

ComputePart(t, p) ==
  /\ again' = (again \/ p \in done[node[t]])
  /\ done' = [done EXCEPT ![node[t]] = done[node[t]] \cup {p}]

(* Most operations are cut into as many parts as there are threads.        *)
Forward(t) ==
  /\ pc[t] = "forward" /\ node[t] \notin MulMats
  /\ ComputePart(t, t) /\ Leave(t)
  /\ UNCHANGED <<planVars, barVars, seenVars, current_chunk, nth, chunk>>

(* Mutant: nobody sets the counter.                                        *)
BadMulMat(t) ==
  /\ pc[t] = "forward" /\ node[t] \in MulMats
  /\ chunk' = [chunk EXCEPT ![t] = t]
  /\ goal' = [goal EXCEPT ![t] = "chunks"]
  /\ Goto(t, "enter")
  /\ UNCHANGED <<planVars, barVars, seenVars, current_chunk, abort, node, nth, done, again>>

(* ggml_compute_forward_mul_mat: its operand is converted by all threads,  *)
(* and thread 0 sets the counter of chunks before they meet.               *)
MulMat(t) ==
  /\ pc[t] = "forward" /\ node[t] \in MulMats
  /\ current_chunk' = IF t = 0 THEN nth[t] ELSE current_chunk
  /\ chunk' = [chunk EXCEPT ![t] = t]
  /\ goal' = [goal EXCEPT ![t] = "chunks"]
  /\ Goto(t, "enter")
  /\ UNCHANGED <<planVars, barVars, seenVars, abort, node, nth, done, again>>

NChunk(n) == IF Chunks < n * Spread THEN n ELSE Chunks

(* The chunk in hand is computed, and the next one taken from the counter. *)
NextChunk(t) ==
  /\ pc[t] = "chunks" /\ chunk[t] < NChunk(nth[t]) /\ nth[t] < NChunk(nth[t])
  /\ ComputePart(t, chunk[t])
  /\ chunk' = [chunk EXCEPT ![t] = current_chunk]
  /\ current_chunk' = current_chunk + 1
  /\ UNCHANGED <<planVars, barVars, seenVars, pc, abort, goal, node, nth>>

(* One chunk for each thread: nothing to take.                             *)
OnlyChunk(t) ==
  /\ pc[t] = "chunks" /\ chunk[t] < NChunk(nth[t]) /\ nth[t] >= NChunk(nth[t])
  /\ ComputePart(t, chunk[t]) /\ Leave(t)
  /\ UNCHANGED <<planVars, barVars, seenVars, current_chunk, nth, chunk>>

NoChunk(t) ==
  /\ pc[t] = "chunks" /\ chunk[t] >= NChunk(nth[t])
  /\ Leave(t)
  /\ UNCHANGED <<planVars, barVars, seenVars, current_chunk, nth, chunk, done, again>>

-----------------------------------------------------------------------------
(* ggml_barrier.                                                           *)

(* Behind the final barrier the caller returns and a worker looks for more.*)
Exit(t) == IF goal[t] # "end" THEN goal[t] ELSE IF t = 0 THEN "idle" ELSE "top"

EnterBarrier(t) ==
  /\ pc[t] = "enter"
  /\ bar' = [bar EXCEPT ![t] = [n |-> n_threads_cur, passed |-> n_barrier_passed]]
  /\ Goto(t, IF n_threads_cur = 1 THEN Exit(t) ELSE "arrive")
  /\ UNCHANGED <<planVars, workVars, seenVars, n_barrier, n_barrier_passed>>

Arrive(t) ==
  /\ pc[t] = "arrive"
  /\ n_barrier' = n_barrier + 1
  /\ Goto(t, IF n_barrier = bar[t].n - 1 THEN "last" ELSE "spin")
  /\ UNCHANGED <<planVars, workVars, seenVars, n_barrier_passed, bar>>

(* Mutant: the count goes on.                                              *)
BadResetBarrier(t) ==
  /\ pc[t] = "last"
  /\ Goto(t, "release")
  /\ UNCHANGED <<planVars, workVars, seenVars, n_barrier, n_barrier_passed, bar>>

ResetBarrier(t) ==
  /\ pc[t] = "last"
  /\ n_barrier' = 0
  /\ Goto(t, "release")
  /\ UNCHANGED <<planVars, workVars, seenVars, n_barrier_passed, bar>>

ReleaseBarrier(t) ==
  /\ pc[t] = "release"
  /\ n_barrier_passed' = n_barrier_passed + 1
  /\ Goto(t, Exit(t))
  /\ UNCHANGED <<planVars, workVars, seenVars, n_barrier, bar>>

LeaveBarrier(t) ==
  /\ pc[t] = "spin" /\ n_barrier_passed # bar[t].passed
  /\ Goto(t, Exit(t))
  /\ UNCHANGED <<planVars, workVars, seenVars, barVars>>

-----------------------------------------------------------------------------
Barrier(t) ==
  EnterBarrier(t) \/ Arrive(t) \/ ResetBarrier(t) \/ ReleaseBarrier(t) \/ LeaveBarrier(t)

Work(t) ==
  \/ Start(t) \/ Node(t) \/ Forward(t) \/ MulMat(t)
  \/ NextChunk(t) \/ OnlyChunk(t) \/ NoChunk(t) \/ Barrier(t)

Look(w) ==
  \/ CheckPause(w) \/ SleepPaused(w) \/ CheckStop(w)
  \/ PollGraph(w) \/ PollActive(w) \/ PollEnds(w) \/ CheckLocked(w)

Kickoff == Kick \/ Publish \/ Wake

Calls == Pause \/ Resume \/ Compute \/ Free

(* The graphs of a pool are all planned for the same number of threads, as *)
(* those of a disposable pool are.                                         *)
SteadyNext ==
  \/ Calls \/ Kickoff \/ Join
  \/ \E w \in Workers : Look(w) \/ WakeSpuriously(w)
  \/ \E t \in Threads : Work(t)

Next == SteadyNext \/ \E n \in Counts : Plan(n)

(* Every thread is scheduled again and again; nothing makes the caller     *)
(* start another graph, and a sleeping thread is woken by a broadcast only.*)
Fairness ==
  /\ WF_vars(Kickoff \/ Join)
  /\ \A t \in Threads : WF_vars(Work(t) \/ (t \in Workers /\ Look(t)))

Spec == Init /\ [][Next]_vars /\ Fairness
SteadySpec == Init /\ [][SteadyNext]_vars /\ Fairness

-----------------------------------------------------------------------------
(* Properties.                                                             *)

Places ==
  {"idle", "kick", "publish", "wake", "join", "freed", "top", "pausing", "paused",
   "running", "poll", "active", "lock", "asleep", "ended", "start", "node", "forward",
   "chunks", "enter", "arrive", "last", "release", "spin"}

(* Every variable keeps its type: the count of the barrier never passes N, *)
(* and no thread goes behind the last node.                                *)
TypeOK ==
  /\ want \in Counts /\ n_threads_cur \in 1 .. N /\ n_graph \in 0 .. MaxGraphs
  /\ stop \in BOOLEAN /\ pause \in BOOLEAN /\ kicking \in BOOLEAN
  /\ n_barrier \in 0 .. N /\ n_barrier_passed \in Nat
  /\ current_chunk \in Nat /\ abort \in -1 .. NNodes
  /\ pc \in [Threads -> Places]
  /\ goal \in [Threads -> {"chunks", "node", "end"}]
  /\ node \in [Threads -> 0 .. NNodes] /\ nth \in [Threads -> 0 .. N]
  /\ chunk \in [Threads -> Nat]
  /\ bar \in [Threads -> [n : 0 .. N, passed : Nat]]
  /\ last_graph \in [Threads -> 0 .. MaxGraphs]
  /\ new_graph \in [Threads -> 0 .. MaxGraphs]
  /\ done \in [Nodes -> SUBSET Nat] /\ again \in BOOLEAN

AtWork(t) == pc[t] \in {"node", "forward", "chunks"}
Side(t) == IF pc[t] = "chunks" THEN "chunks" ELSE "front"

(* The threads that compute are at the same node, and on the same side of  *)
(* the barrier inside a product: its operand, the work buffer and the      *)
(* counter of chunks are shared, and a barrier is all that keeps a fast    *)
(* thread from overwriting them under a slow one.                          *)
InStep ==
  \A t, u \in Threads :
    AtWork(t) /\ AtWork(u) => node[t] = node[u] /\ Side(t) = Side(u)

Parts(k) == 0 .. (IF k \in MulMats THEN NChunk(n_threads_cur) ELSE n_threads_cur) - 1

(* A part is computed once, although its threads agree on nothing but a    *)
(* counter, and a thread at a node finds the nodes before it complete.     *)
PartsOnce ==
  /\ ~ again
  /\ \A t \in Threads : AtWork(t) => \A k \in 0 .. node[t] - 1 : done[k] = Parts(k)

(* When ggml_graph_compute returns every node is complete, or, after an    *)
(* abort, every node before the one all threads stopped at and none behind.*)
ReturnsWhole ==
  pc[0] = "idle" /\ n_graph > 0 =>
    \A k \in Nodes : done[k] = IF abort < 0 \/ k < abort THEN Parts(k) ELSE {}

(* "No worker threads should be accessing the parameters below at this     *)
(* stage": between graphs none of them is inside one.                      *)
Inside(t) == AtWork(t) \/ pc[t] \in {"start", "enter", "arrive", "last", "release"}
NoWorkerInside == pc[0] \in {"idle", "kick"} => \A w \in Workers : ~ Inside(w)

(* A thread waits in a barrier that has not opened.                        *)
Waits(t) == pc[t] = "spin" /\ n_barrier_passed = bar[t].passed

(* No wake-up is lost between polling, sleeping, pausing and the end: once *)
(* the kick-off has broadcast, a thread that waits in a barrier never      *)
(* waits for a worker that sleeps or has ended, and once the pool is being *)
(* freed the caller never joins one that sleeps.                           *)
NoLostWakeup ==
  \A w \in Workers :
    /\ (\E t \in Threads : Waits(t)) /\ pc[0] # "wake" /\ w < n_threads_cur =>
         pc[w] \notin {"asleep", "paused", "ended"}
    /\ pc[0] = "join" => pc[w] \notin {"asleep", "paused"}

(* The threads of a graph never all wait: the last to come opens a barrier,*)
(* though the count starts again while the others are still leaving.       *)
BarrierOpens ==
  (\E t \in Threads : Waits(t)) => \E u \in 0 .. n_threads_cur - 1 : ~ Waits(u)

(* Between polling, sleeping, pausing and the barrier no thread is left to *)
(* wait for what will not come.                                            *)
NobodyStranded == NoLostWakeup /\ BarrierOpens

(* No wake-up is lost between polling, sleeping and pausing: a graph that  *)
(* is started is computed, and a pool that is freed ends.                  *)
ComputeReturns == pc[0] = "kick" ~> pc[0] = "idle"
FreeReturns == pc[0] = "join" ~> pc[0] = "freed"

(* What the caller does, and the parts its graph is cut into.              *)
Stage ==
  CASE pc[0] = "idle" -> "idle" [] pc[0] = "join" -> "ending" [] pc[0] = "freed" -> "ended"
    [] OTHER -> "running"
Cut == [k \in Nodes |-> 0 .. (IF k \in MulMats THEN NChunk(want) ELSE want) - 1]

(* The threads, their barriers and the counter of chunks implement a graph *)
(* that is computed part by part, node after node, and is returned whole   *)
(* or ended behind one node for all (GraphRun).  A part that is computed   *)
(* again would be a stutter here: PartsOnce says that none is.             *)
Run == INSTANCE GraphRun WITH stage <- Stage, parts <- Cut
ImplementsRun == Run!Spec
=============================================================================
