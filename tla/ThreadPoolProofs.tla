-------------------------- MODULE ThreadPoolProofs --------------------------
(***************************************************************************)
(* Proofs about ThreadPool for every number of threads, nodes and chunks,  *)
(* when the graphs of the pool are planned for one number of threads       *)
(* (SteadySpec).  The threads of a graph are the first "want" of the pool. *)
(* Between two barriers they are all on one section of the graph: a node,  *)
(* or the chunks of a product.                                             *)
(***************************************************************************)
EXTENDS ThreadPool, FiniteSetTheorems, TLAPS

Team == 0 .. want - 1

(* The places of a worker that looks for work.                             *)
Looking ==
  {"top", "pausing", "paused", "running", "poll", "active", "lock", "asleep", "ended"}

CallerOnly == {"idle", "kick", "publish", "wake", "join", "freed"}

(* A thread waits in the barrier the others have still to reach ...        *)
Meets(t) == pc[t] = "spin" /\ bar[t].passed = n_barrier_passed

(* ... or has been let out of the final one and does not know it yet.      *)
Left(t) == pc[t] = "spin" /\ bar[t].passed # n_barrier_passed /\ goal[t] = "end"

Waiting == {t \in Team : Meets(t)}

Outside(t) == pc[t] \in Looking \/ Left(t)

(* No graph is under way.                                                  *)
Calling == pc[0] \in {"idle", "kick", "publish", "join", "freed"} \/ Left(0)

(* What holds of each thread by itself.                                    *)
PlaceOK(t) ==
  /\ IF t = 0 THEN pc[t] \notin Looking ELSE pc[t] \notin CallerOnly
  /\ t >= want => pc[t] \in Looking
  /\ pc[t] \in {"arrive", "last", "release"} =>
       bar[t].passed = n_barrier_passed /\ bar[t].n = want
  /\ pc[t] = "spin" => bar[t].passed <= n_barrier_passed
  /\ last_graph[t] <= n_graph /\ new_graph[t] <= n_graph
  /\ pc[t] = "active" =>
       n_graph > 0 /\ (t < want => new_graph[t] = n_graph /\ last_graph[t] # n_graph)

(* The kick-off sets the number of threads before it shows the graph.      *)
PlanOK ==
  /\ n_threads_cur = want \/ (n_graph = 0 /\ pc[0] \in {"idle", "kick", "join", "freed"})
  /\ pc[0] \in {"kick", "publish"} => n_graph < MaxGraphs

Completes(t) == pc[t] \in {"last", "release"}

(* The count of the barrier is the number of those who wait in it, until   *)
(* the last one has come.                                                  *)
BarrierOK ==
  \/ /\ \A t \in Team : ~ Completes(t)
     /\ n_barrier = Cardinality(Waiting) /\ n_barrier < want
  \/ \E t \in Team :
       /\ Completes(t) /\ \A u \in Team : u # t => Meets(u)
       /\ pc[t] = "release" => n_barrier = 0

(* A section of the graph is a node k and a side of the barrier inside it. *)
Sides == {"front", "chunks"}

(* Where the barrier behind a section leads.                               *)
Towards(t, k, s) ==
  IF s = "front" /\ abort = k THEN node[t] = k /\ goal[t] = "end"
  ELSE IF s = "front" /\ k \in MulMats THEN node[t] = k /\ goal[t] = "chunks"
  ELSE node[t] = k + 1 /\ goal[t] = IF k + 1 < NNodes THEN "node" ELSE "end"

(* A thread of the graph is on a section: it has still to start, it works  *)
(* on it, it goes to the barrier behind it or it comes from the one before.*)
At(t, k, s) ==
  \/ /\ k = 0 /\ s = "front"
     /\ \/ t = 0 /\ pc[t] = "wake"
        \/ t # 0 /\ Outside(t) /\ last_graph[t] # n_graph
  \/ /\ t = 0 \/ last_graph[t] = n_graph
     /\ \/ k = 0 /\ s = "front" /\ pc[t] = "start"
        \/ s = "front" /\ node[t] = k /\ pc[t] = "node"
        \/ s = "front" /\ node[t] = k /\ pc[t] = "forward" /\ abort # k
        \/ s = "chunks" /\ node[t] = k /\ pc[t] = "chunks"
        \/ (pc[t] \in {"enter", "arrive", "last", "release"} \/ Meets(t)) /\ Towards(t, k, s)
        \/ /\ pc[t] = "spin" /\ bar[t].passed # n_barrier_passed
           /\ node[t] = k /\ goal[t] = IF s = "front" THEN "node" ELSE "chunks"

OnSection(k, s) == (s = "chunks" => k \in MulMats) /\ \A t \in Team : At(t, k, s)

(* Nobody is in a graph, or the threads of the graph are on one section.   *)
GraphOK ==
  \/ Calling /\ \A t \in Team : t # 0 => Outside(t) /\ last_graph[t] = n_graph
  \/ \E k \in Nodes, s \in Sides : OnSection(k, s)

PoolInv ==
  /\ TypeOK /\ PlanOK /\ BarrierOK /\ GraphOK
  /\ \A t \in Threads : PlaceOK(t)

-----------------------------------------------------------------------------
LEMMA TeamFacts ==
  ASSUME TypeOK
  PROVE  /\ want \in Nat /\ want >= 1 /\ want <= N /\ N \in Nat
         /\ Team \subseteq Threads /\ 0 \in Team
         /\ IsFiniteSet(Team) /\ Cardinality(Team) = want
         /\ \A t \in Threads : t \in Nat /\ (t \in Team <=> t < want)
<1>1. want \in Nat /\ want >= 1 /\ want <= N /\ N \in Nat
  BY PoolAssumption DEF TypeOK
<1>2. Team \subseteq Threads /\ 0 \in Team /\ \A t \in Threads : t \in Nat /\ (t \in Team <=> t < want)
  BY <1>1 DEF Team, Threads
<1> DEFINE k == want - 1
<1>3. 0 \in Int /\ k \in Int /\ (IF 0 > k THEN 0 ELSE k - 0 + 1) = want
  BY <1>1, SMT
<1> HIDE DEF k
<1>4. IsFiniteSet(0 .. k) /\ Cardinality(0 .. k) = IF 0 > k THEN 0 ELSE k - 0 + 1
  BY <1>3, FS_Interval, Zenon
<1> QED
  BY <1>1, <1>2, <1>3, <1>4 DEF Team, k

(* The barrier is as it was when nobody has come to it or gone on.         *)
LEMMA BarrierSame ==
  ASSUME BarrierOK, want' = want, n_barrier' = n_barrier,
         \A u \in Team : /\ Meets(u)' <=> Meets(u)
                         /\ Completes(u) \/ Completes(u)' => pc'[u] = pc[u]
  PROVE  BarrierOK'
<1>1. Team' = Team
  BY DEF Team
<1>2. Waiting' = Waiting
  BY <1>1 DEF Waiting
<1>3. \A u \in Team : Completes(u)' <=> Completes(u)
  BY DEF Completes
<1>4. CASE /\ \A t \in Team : ~ Completes(t)
           /\ n_barrier = Cardinality(Waiting) /\ n_barrier < want
  BY <1>1, <1>2, <1>3, <1>4 DEF BarrierOK
<1>5. ASSUME NEW t \in Team, Completes(t), \A u \in Team : u # t => Meets(u),
             pc[t] = "release" => n_barrier = 0
      PROVE  BarrierOK'
  <2>1. Completes(t)' /\ \A u \in Team' : u # t => Meets(u)'
    BY <1>1, <1>3, <1>5
  <2>2. pc'[t] = "release" => n_barrier' = 0
    BY <1>5
  <2> QED
    BY <1>1, <2>1, <2>2 DEF BarrierOK
<1> QED
  BY <1>4, <1>5 DEF BarrierOK

(* What a thread is to the others does not change in the steps of another. *)
Still(u) ==
  /\ goal'[u] = goal[u] /\ node'[u] = node[u] /\ bar'[u] = bar[u]
  /\ last_graph'[u] = last_graph[u] /\ new_graph'[u] = new_graph[u]
  /\ pc'[u] = pc[u] \/ (u # 0 /\ {pc[u], pc'[u]} \subseteq Looking \ {"active"})

(* Graphs, barriers and the number of threads go on as they are.           *)
Steady == UNCHANGED <<want, n_graph, n_barrier_passed>>

LEMMA StillAt ==
  ASSUME NEW u, NEW k, NEW s, Still(u), Steady, At(u, k, s),
         s = "front" => (abort' = k <=> abort = k)
  PROVE  At(u, k, s)'
<1>1. Outside(u)' <=> Outside(u)
  BY DEF Outside, Left, Still, Steady, Looking
<1>2. Meets(u)' <=> Meets(u)
  BY DEF Meets, Still, Steady, Looking
<1>3. Towards(u, k, s) => Towards(u, k, s)'
  BY DEF Towards, Still
<1>4. CASE pc'[u] = pc[u]
  BY <1>1, <1>2, <1>3, <1>4 DEF At, Still, Steady
<1>5. CASE u # 0 /\ {pc[u], pc'[u]} \subseteq Looking
  BY <1>1, <1>5 DEF At, Still, Steady, Looking, Meets
<1> QED
  BY <1>4, <1>5 DEF Still

LEMMA StillPlace ==
  ASSUME NEW u, Still(u), Steady, PlaceOK(u)
  PROVE  PlaceOK(u)'
<1>1. CASE pc'[u] = pc[u]
  BY <1>1 DEF PlaceOK, Still, Steady
<1>2. CASE u # 0 /\ {pc[u], pc'[u]} \subseteq Looking \ {"active"}
  BY <1>2 DEF PlaceOK, Still, Steady, Looking, CallerOnly
<1> QED
  BY <1>1, <1>2 DEF Still

LEMMA StillBarrier ==
  ASSUME NEW u, Still(u), Steady
  PROVE  /\ Meets(u)' <=> Meets(u)
         /\ Completes(u) \/ Completes(u)' => pc'[u] = pc[u]
<1> QED
  BY DEF Meets, Completes, Still, Steady, Looking

(* Flags and the other variables of TypeOK are for different provers.      *)
Flags == stop \in BOOLEAN /\ pause \in BOOLEAN /\ kicking \in BOOLEAN /\ again \in BOOLEAN

Plans ==
  /\ want \in Counts /\ n_threads_cur \in 1 .. N /\ n_graph \in 0 .. MaxGraphs
  /\ n_barrier \in 0 .. N /\ n_barrier_passed \in Nat
  /\ bar \in [Threads -> [n : 0 .. N, passed : Nat]]
  /\ last_graph \in [Threads -> 0 .. MaxGraphs]
  /\ new_graph \in [Threads -> 0 .. MaxGraphs]

Control == pc \in [Threads -> Places]

Loops ==
  /\ current_chunk \in Nat /\ abort \in -1 .. NNodes
  /\ goal \in [Threads -> {"chunks", "node", "end"}]
  /\ node \in [Threads -> 0 .. NNodes] /\ nth \in [Threads -> 0 .. N]
  /\ chunk \in [Threads -> Nat]
  /\ done \in [Nodes -> SUBSET Nat]

LEMMA TypeParts == TypeOK <=> Flags /\ Plans /\ Control /\ Loops
<1> QED
  BY Zenon DEF TypeOK, Flags, Plans, Control, Loops

(* Initially nobody waits, and there is no graph.                          *)
LEMMA InitPoolInv == Init => PoolInv
<1> SUFFICES ASSUME Init PROVE PoolInv
  OBVIOUS
<1>1. TypeOK
  <2>1. Flags
    BY Zenon DEF Init, Flags
  <2>2. Plans /\ Control /\ Loops
    BY PoolAssumption, SMTT(30) DEF Init, Plans, Control, Loops, Places, Threads, Nodes
  <2> QED
    BY <2>1, <2>2, TypeParts
<1>2. PlanOK
  BY PoolAssumption DEF Init, PlanOK, Threads
<1>3. \A t \in Threads : PlaceOK(t)
  BY <1>1, PoolAssumption, SMTT(30) DEF Init, PlaceOK, Threads, Looking, CallerOnly, TypeOK
<1>4. Waiting = {}
  BY <1>1, TeamFacts DEF Init, Waiting, Meets, Threads
<1>5. BarrierOK
  <2>1. Cardinality(Waiting) = 0
    BY <1>4, FS_EmptySet, Zenon
  <2> QED
    BY <2>1, <1>1, TeamFacts DEF Init, BarrierOK, Completes, Threads
<1>6. GraphOK
  BY <1>1, TeamFacts DEF Init, GraphOK, Calling, Outside, Looking, Threads
<1> QED
  BY <1>1, <1>2, <1>3, <1>5, <1>6 DEF PoolInv

LEMMA FlagsStep == Flags /\ SteadyNext => Flags'
<1> SUFFICES ASSUME Flags, SteadyNext PROVE Flags'
  OBVIOUS
<1>1. CASE Calls \/ Kickoff \/ Join
  BY <1>1, Zenon DEF Flags, Calls, Kickoff, Join, Pause, Resume, Compute, Free, Kick, Publish,
     Wake, planVars, workVars
<1>2. ASSUME NEW w \in Workers, Look(w) \/ WakeSpuriously(w) PROVE Flags'
  BY <1>2, Zenon DEF Flags, Look, WakeSpuriously, CheckPause, SleepPaused, CheckStop, PollGraph,
     PollActive, PollEnds, CheckLocked, planVars, workVars
<1>3. ASSUME NEW t \in Threads, Work(t) PROVE Flags'
  <2>1. CASE Start(t) \/ Node(t) \/ MulMat(t) \/ NoChunk(t) \/ Barrier(t)
    BY <2>1, Zenon DEF Flags, Start, Node, MulMat, NoChunk, Barrier, EnterBarrier, Arrive,
       ResetBarrier, ReleaseBarrier, LeaveBarrier, planVars, workVars
  <2>2. CASE Forward(t) \/ NextChunk(t) \/ OnlyChunk(t)
    <3>1. again' \in BOOLEAN
      BY <2>2, Zenon DEF Forward, NextChunk, OnlyChunk, ComputePart
    <3> QED
      BY <3>1, <2>2, Zenon DEF Flags, Forward, NextChunk, OnlyChunk, planVars
  <2> QED
    BY <1>3, <2>1, <2>2, Zenon DEF Work
<1> QED
  BY <1>1, <1>2, <1>3, Zenon DEF SteadyNext

-----------------------------------------------------------------------------
(* The places of a thread that is in a graph, the barrier's spin apart.    *)
Working == {"start", "node", "forward", "chunks", "enter", "arrive", "last", "release"}

LEMMA InSection ==
  ASSUME PoolInv, NEW t \in Threads, pc[t] \in Working
  PROVE  /\ t \in Team /\ n_threads_cur = want
         /\ \E k \in Nodes, s \in Sides : OnSection(k, s)
<1>1. t \in Team
  BY TeamFacts DEF PoolInv, PlaceOK, Working, Looking
<1>2. ~ (Calling /\ \A u \in Team : u # 0 => Outside(u) /\ last_graph[u] = n_graph)
  BY <1>1 DEF Calling, Outside, Left, Looking, Working
<1>3. PICK k \in Nodes, s \in Sides : OnSection(k, s)
  BY <1>2 DEF PoolInv, GraphOK
<1>4. At(0, k, s)
  BY <1>3, TeamFacts DEF OnSection, PoolInv
<1>5. pc[0] \notin {"idle", "kick", "join", "freed"}
  BY <1>4 DEF At, Meets
<1> QED
  BY <1>1, <1>3, <1>5 DEF PoolInv, PlanOK


LEMMA CallsKeepTypes ==
  ASSUME PoolInv, Calls \/ Kickoff \/ Join
  PROVE  Plans' /\ Control' /\ Loops'
<1>1. Plans /\ Control /\ Loops
  BY TypeParts DEF PoolInv
<1>2. Plans'
  <2>1. CASE Publish
    BY <1>1, <2>1, PoolAssumption DEF Publish, PoolInv, PlanOK, Plans, barVars, seenVars
  <2>2. CASE Kick
    BY <1>1, <2>2, PoolAssumption DEF Kick, Plans, barVars, seenVars
  <2>3. CASE Calls \/ Wake \/ Join
    BY <1>1, <2>3 DEF Calls, Pause, Resume, Compute, Free, Wake, Join, Plans, planVars, barVars, seenVars
  <2> QED
    BY <2>1, <2>2, <2>3, Zenon DEF Kickoff
<1>3. Control'
  <2>1. CASE Compute \/ Kick \/ Publish \/ Join
    BY <1>1, <2>1 DEF Compute, Kick, Publish, Join, Goto, Control, Places
  <2>2. ASSUME NEW place \in Places, Broadcast(place) PROVE Control'
    BY <1>1, <2>2 DEF Broadcast, Control, Places
  <2> QED
    BY <2>1, <2>2 DEF Calls, Kickoff, Pause, Resume, Free, Wake, Places
<1>4. Loops'
  <2>1. CASE Compute
    BY <1>1, <2>1, PoolAssumption DEF Compute, Loops
  <2>2. CASE Pause \/ Resume \/ Free \/ Kickoff \/ Join
    BY <1>1, <2>2 DEF Kickoff, Pause, Resume, Free, Kick, Publish, Wake, Join, Loops, workVars
  <2> QED
    BY <2>1, <2>2, Zenon DEF Calls
<1> QED
  BY <1>2, <1>3, <1>4

LEMMA LookKeepsTypes ==
  ASSUME PoolInv, NEW w \in Workers, Look(w) \/ WakeSpuriously(w)
  PROVE  Plans' /\ Control' /\ Loops'
<1>1. Plans /\ Control /\ Loops
  BY TypeParts DEF PoolInv
<1>2. Plans'
  <2>1. CASE PollGraph(w) \/ PollActive(w) \/ CheckLocked(w)
    BY <1>1, <2>1 DEF PollGraph, PollActive, CheckLocked, Plans, planVars, barVars, Threads, Workers
  <2>2. CASE CheckPause(w) \/ SleepPaused(w) \/ CheckStop(w) \/ PollEnds(w) \/ WakeSpuriously(w)
    BY <1>1, <2>2 DEF CheckPause, SleepPaused, CheckStop, PollEnds, WakeSpuriously, Plans,
       planVars, barVars, seenVars
  <2> QED
    BY <2>1, <2>2, Zenon DEF Look
<1>3. Control'
  <2>1. PICK place \in Places : Goto(w, place)
    BY Zenon DEF Look, CheckPause, SleepPaused, CheckStop, PollGraph, PollActive, PollEnds,
       CheckLocked, WakeSpuriously, Places
  <2> QED
    BY <1>1, <2>1 DEF Control, Goto
<1>4. Loops'
  BY <1>1 DEF Look, CheckPause, SleepPaused, CheckStop, PollGraph, PollActive, PollEnds,
     CheckLocked, WakeSpuriously, Loops, workVars
<1> QED
  BY <1>2, <1>3, <1>4

LEMMA WorkKeepsTypes ==
  ASSUME PoolInv, NEW t \in Threads, Work(t)
  PROVE  Plans' /\ Control' /\ Loops'
<1>1. Plans /\ Control /\ Loops
  BY TypeParts DEF PoolInv
<1>2. pc[t] \in {"forward", "chunks"} => node[t] < NNodes
  <2>1. SUFFICES ASSUME pc[t] \in {"forward", "chunks"} PROVE node[t] < NNodes
    OBVIOUS
  <2>2. PICK k \in Nodes, s \in Sides : OnSection(k, s)
    BY <2>1, InSection DEF Working
  <2>3. t \in Team
    BY <2>1, InSection DEF Working
  <2>4. At(t, k, s)
    BY <2>2, <2>3 DEF OnSection
  <2>5. node[t] = k
    BY <2>1, <2>4 DEF At, Outside, Left, Meets, Looking
  <2> QED
    BY <2>5, PoolAssumption DEF Nodes
<1>3. pc[t] = "arrive" => n_barrier < want
  BY InSection DEF Working, PoolInv, BarrierOK, Completes, Meets
<1>4. Plans'
  <2>1. CASE EnterBarrier(t) \/ ReleaseBarrier(t) \/ ResetBarrier(t)
    BY <1>1, <2>1, PoolAssumption DEF EnterBarrier, ReleaseBarrier, ResetBarrier, Plans, planVars, seenVars
  <2>2. CASE Arrive(t)
    BY <1>1, <1>3, <2>2, PoolAssumption DEF Arrive, Plans, planVars, seenVars
  <2>3. CASE Start(t) \/ Node(t) \/ Forward(t) \/ MulMat(t) \/ NextChunk(t) \/ OnlyChunk(t)
             \/ NoChunk(t) \/ LeaveBarrier(t)
    BY <1>1, <2>3 DEF Start, Node, Forward, MulMat, NextChunk, OnlyChunk, NoChunk, LeaveBarrier,
       Plans, planVars, barVars, seenVars
  <2> QED
    BY <2>1, <2>2, <2>3, Zenon DEF Work, Barrier
<1>5. Control'
  <2>1. Exit(t) \in Places
    BY <1>1 DEF Exit, Loops, Places
  <2>2. PICK place \in Places : Goto(t, place) \/ UNCHANGED pc
    BY <2>1, Zenon DEF Work, Start, Node, Forward, MulMat, NextChunk, OnlyChunk, NoChunk, Leave,
       Barrier, EnterBarrier, Arrive, ResetBarrier, ReleaseBarrier, LeaveBarrier, Places
  <2> QED
    BY <1>1, <2>2 DEF Control, Goto
<1>6. Loops'
  <2>0. ASSUME NEW p \in Nat, ComputePart(t, p) PROVE done' \in [Nodes -> SUBSET Nat]
    BY <1>1, <2>0, Zenon DEF ComputePart, Loops
  <2>1. CASE Start(t)
    BY <1>1, <2>1, PoolAssumption DEF Start, Loops, Plans
  <2>2. CASE Node(t)
    BY <1>1, <2>2 DEF Node, Loops
  <2>3. CASE Forward(t)
    BY <1>1, <1>2, <2>0, <2>3, PoolAssumption, SMTT(30) DEF Forward, Leave, Loops, Threads
  <2>4. CASE MulMat(t)
    BY <1>1, <2>4, PoolAssumption, SMTT(30) DEF MulMat, Loops, Threads
  <2>5. CASE NextChunk(t)
    BY <1>1, <2>0, <2>5, SMTT(30) DEF NextChunk, Loops
  <2>6. CASE OnlyChunk(t)
    BY <1>1, <1>2, <2>0, <2>6, PoolAssumption, SMTT(30) DEF OnlyChunk, Leave, Loops
  <2>7. CASE NoChunk(t)
    BY <1>1, <1>2, <2>7, PoolAssumption, SMTT(30) DEF NoChunk, Leave, Loops
  <2>8. CASE Barrier(t)
    BY <1>1, <2>8 DEF Barrier, EnterBarrier, Arrive, ResetBarrier, ReleaseBarrier, LeaveBarrier,
       Loops, workVars
  <2> QED
    BY <2>1, <2>2, <2>3, <2>4, <2>5, <2>6, <2>7, <2>8, Zenon DEF Work
<1> QED
  BY <1>4, <1>5, <1>6

LEMMA TypeStep ==
  ASSUME PoolInv, SteadyNext
  PROVE  TypeOK'
<1>1. Flags'
  BY FlagsStep, TypeParts DEF PoolInv
<1>2. Plans' /\ Control' /\ Loops'
  BY CallsKeepTypes, LookKeepsTypes, WorkKeepsTypes, Zenon DEF SteadyNext
<1>3. (Flags /\ Plans /\ Control /\ Loops => TypeOK)'
  BY TypeParts, PTL
<1> QED
  BY <1>1, <1>2, <1>3

-----------------------------------------------------------------------------
LEMMA OthersPlace ==
  ASSUME PoolInv, NEW t \in Threads, Steady, \A u \in Threads \ {t} : Still(u), PlaceOK(t)'
  PROVE  \A u \in Threads : PlaceOK(u)'
<1>1. ASSUME NEW u \in Threads, u # t PROVE PlaceOK(u)'
  BY <1>1, StillPlace DEF PoolInv
<1> QED
  BY <1>1

LEMMA OthersBarrier ==
  ASSUME PoolInv, NEW t \in Threads, Steady, \A u \in Threads \ {t} : Still(u),
         n_barrier' = n_barrier, Meets(t)' <=> Meets(t),
         Completes(t) \/ Completes(t)' => pc'[t] = pc[t]
  PROVE  BarrierOK'
<1>1. \A u \in Team : /\ Meets(u)' <=> Meets(u)
                      /\ Completes(u) \/ Completes(u)' => pc'[u] = pc[u]
  <2>1. Team \subseteq Threads
    BY TeamFacts DEF PoolInv
  <2> QED
    BY <2>1, StillBarrier
<1> QED
  BY <1>1, BarrierSame DEF PoolInv, Steady

LEMMA OthersAt ==
  ASSUME PoolInv, NEW t \in Threads, NEW k \in Nodes, NEW s \in Sides, OnSection(k, s), Steady,
         \A u \in Threads \ {t} : Still(u),
         s = "front" => (abort' = k <=> abort = k), At(t, k, s)'
  PROVE  GraphOK'
<1>1. Team \subseteq Threads
  BY TeamFacts DEF PoolInv
<1>2. \A u \in Team : At(u, k, s)'
  BY <1>1, StillAt DEF OnSection
<1>3. OnSection(k, s)'
  BY <1>2 DEF OnSection, Steady, Team
<1> QED
  BY <1>3 DEF GraphOK

(* A worker that goes on its way from one graph to the next.               *)
LEMMA WorkerMoves ==
  ASSUME PoolInv, TypeOK', NEW w \in Workers, Steady, UNCHANGED <<abort, n_barrier, n_threads_cur>>,
         \A u \in Threads \ {w} : Still(u), PlaceOK(w)',
         Meets(w)' <=> Meets(w), ~ Completes(w), ~ Completes(w)',
         w \in Team /\ Outside(w) /\ last_graph[w] = n_graph =>
           Outside(w)' /\ last_graph'[w] = n_graph,
         w \in Team => \A k \in Nodes, s \in Sides : At(w, k, s) => At(w, k, s)'
  PROVE  PoolInv'
<1>1. w \in Threads /\ w # 0 /\ 0 \in Threads /\ Team \subseteq Threads /\ Team' = Team
  BY TeamFacts, PoolAssumption DEF Workers, Threads, PoolInv, Team, Steady
<1>2. \A u \in Threads : PlaceOK(u)'
  BY <1>1, OthersPlace
<1>3. BarrierOK'
  BY <1>1, OthersBarrier
<1>4. pc'[0] = pc[0] /\ goal'[0] = goal[0] /\ bar'[0] = bar[0]
  BY <1>1 DEF Still
<1>5. PlanOK'
  BY <1>4 DEF PoolInv, PlanOK, Steady
<1>6. ASSUME Calling, \A t \in Team : t # 0 => Outside(t) /\ last_graph[t] = n_graph
      PROVE  GraphOK'
  <2>1. Calling'
    BY <1>4, <1>6 DEF Calling, Left, Steady
  <2>2. ASSUME NEW t \in Team, t # 0 PROVE (Outside(t) /\ last_graph[t] = n_graph)'
    <3>1. CASE t = w
      BY <1>6, <2>2, <3>1 DEF Steady
    <3>2. CASE t # w
      BY <1>1, <1>6, <2>2, <3>2 DEF Still, Steady, Outside, Left
    <3> QED
      BY <3>1, <3>2
  <2>3. (Calling /\ \A t \in Team : t # 0 => Outside(t) /\ last_graph[t] = n_graph)'
    BY <1>1, <2>1, <2>2
  <2> QED
    BY <2>3, Zenon DEF GraphOK
<1>7. ASSUME NEW k \in Nodes, NEW s \in Sides, OnSection(k, s) PROVE GraphOK'
  <2>1. CASE w \in Team
    <3>1. At(w, k, s)'
      BY <1>7, <2>1 DEF OnSection
    <3> QED
      BY <1>1, <1>7, <3>1, OthersAt
  <2>2. CASE w \notin Team
    <3>1. ASSUME NEW u \in Team PROVE At(u, k, s)'
      BY <1>1, <1>7, <2>2, StillAt DEF OnSection
    <3>2. OnSection(k, s)'
      BY <1>1, <1>7, <3>1 DEF OnSection
    <3> QED
      BY <3>2 DEF GraphOK
  <2> QED
    BY <2>1, <2>2
<1>8. GraphOK'
  BY <1>6, <1>7 DEF PoolInv, GraphOK
<1> QED
  BY <1>2, <1>3, <1>5, <1>8 DEF PoolInv

(* Where a worker goes on its way from graph to graph is nobody else's     *)
(* business, until it takes a graph up.                                    *)
LEMMA LookStep ==
  ASSUME PoolInv, TypeOK', NEW w \in Workers, Look(w) \/ WakeSpuriously(w)
  PROVE  PoolInv'
<1> USE DEF planVars, barVars, workVars, seenVars
<1>1. w \in Threads /\ w # 0 /\ w \in Nat /\ want \in Nat /\ (w \in Team <=> w < want)
  BY TeamFacts, PoolAssumption DEF Workers, Threads, PoolInv
<1>2. pc \in [Threads -> Places] /\ n_graph \in Nat /\ last_graph \in [Threads -> Nat]
      /\ new_graph \in [Threads -> Nat]
  BY PoolAssumption DEF PoolInv, TypeOK
<1>3. PlaceOK(w)
  BY <1>1 DEF PoolInv
<1>4. UNCHANGED <<want, n_graph, n_barrier_passed, abort, n_barrier, n_threads_cur, bar, goal, node>>
  BY DEF Look, CheckPause, SleepPaused, CheckStop, PollGraph, PollActive, PollEnds, CheckLocked,
     WakeSpuriously
<1>5. ASSUME NEW u \in Threads \ {w} PROVE Still(u)
  BY <1>2, <1>5 DEF Look, CheckPause, SleepPaused, CheckStop, PollGraph, PollActive, PollEnds,
     CheckLocked, WakeSpuriously, Goto, Still
<1>6. pc[w] \in Looking \ {"ended"}
  BY DEF Look, CheckPause, SleepPaused, CheckStop, PollGraph, PollActive, PollEnds, CheckLocked,
     WakeSpuriously, Looking
<1>7. pc'[w] \in Looking \cup {"start"}
  BY <1>1, <1>2 DEF Look, CheckPause, SleepPaused, CheckStop, PollGraph, PollActive, PollEnds,
     CheckLocked, WakeSpuriously, Goto, Looking
<1>8. Meets(w)' <=> Meets(w)
  BY <1>6, <1>7 DEF Meets, Looking
<1>9. ~ Completes(w) /\ ~ Completes(w)'
  BY <1>6, <1>7 DEF Completes, Looking
(* A graph is taken up by a worker that is one of its threads and does not *)
(* know it yet.                                                            *)
<1>10. n_graph > 0 => n_threads_cur = want
  BY DEF PoolInv, PlanOK
<1>11. CASE CheckPause(w) \/ SleepPaused(w) \/ CheckStop(w) \/ PollEnds(w) \/ WakeSpuriously(w)
  <2>1. Still(w)
    BY <1>1, <1>2, <1>11 DEF CheckPause, SleepPaused, CheckStop, PollEnds, WakeSpuriously, Goto,
       Still, Looking
  <2>2. Steady
    BY <1>4 DEF Steady
  <2>3. PlaceOK(w)'
    BY <1>3, <2>1, <2>2, StillPlace
  <2>4. \A k \in Nodes, s \in Sides : At(w, k, s) => At(w, k, s)'
    BY <1>4, <2>1, <2>2, StillAt
  <2>5. Outside(w) /\ last_graph[w] = n_graph => Outside(w)' /\ last_graph'[w] = n_graph
    BY <2>1, <2>2 DEF Outside, Left, Still, Steady
  <2> QED
    BY <1>4, <1>5, <1>8, <1>9, <2>2, <2>3, <2>4, <2>5, WorkerMoves
<1>12. CASE PollGraph(w)
  <2>1. pc[w] = "poll" /\ pc'[w] = "active" /\ n_graph # last_graph[w]
        /\ last_graph'[w] = last_graph[w] /\ new_graph'[w] = n_graph
    BY <1>1, <1>2, <1>12 DEF PollGraph, Goto
  <2>2. PlaceOK(w)'
    BY <1>1, <1>2, <1>3, <1>4, <2>1 DEF PlaceOK, Looking, CallerOnly
  <2>3. \A k \in Nodes, s \in Sides : At(w, k, s) => At(w, k, s)'
    BY <1>1, <1>4, <2>1 DEF At, Outside, Looking
  <2> QED
    BY <1>4, <1>5, <1>8, <1>9, <2>1, <2>2, <2>3, WorkerMoves DEF Steady
<1>13. CASE PollActive(w)
  <2>1. pc[w] = "active" /\ last_graph'[w] = new_graph[w] /\ new_graph'[w] = new_graph[w]
        /\ pc'[w] = IF w < n_threads_cur THEN "start" ELSE "poll"
    BY <1>1, <1>2, <1>13 DEF PollActive, Goto
  <2>2. n_threads_cur = want /\ n_graph > 0
        /\ (w < want => new_graph[w] = n_graph /\ last_graph[w] # n_graph)
    BY <1>3, <1>10, <2>1 DEF PlaceOK
  <2>3. PlaceOK(w)'
    BY <1>1, <1>2, <1>3, <1>4, <2>1, <2>2 DEF PlaceOK, Looking, CallerOnly
  <2>4. w \in Team => \A k \in Nodes, s \in Sides : At(w, k, s) => At(w, k, s)'
    BY <1>1, <1>4, <2>1, <2>2 DEF At, Outside, Looking
  <2> QED
    BY <1>1, <1>4, <1>5, <1>8, <1>9, <2>2, <2>3, <2>4, WorkerMoves DEF Steady
<1>14. CASE CheckLocked(w)
  <2>1. CASE stop \/ pause
    <3>1. Still(w)
      BY <1>1, <1>2, <1>14, <2>1 DEF CheckLocked, Goto, Still, Looking
    <3>2. Steady
      BY <1>4 DEF Steady
    <3>3. PlaceOK(w)'
      BY <1>3, <3>1, <3>2, StillPlace
    <3>4. \A k \in Nodes, s \in Sides : At(w, k, s) => At(w, k, s)'
      BY <1>4, <3>1, <3>2, StillAt
    <3>5. Outside(w) /\ last_graph[w] = n_graph => Outside(w)' /\ last_graph'[w] = n_graph
      BY <3>1, <3>2 DEF Outside, Left, Still, Steady
    <3> QED
      BY <1>4, <1>5, <1>8, <1>9, <3>2, <3>3, <3>4, <3>5, WorkerMoves
  <2>2. CASE ~ stop /\ ~ pause
    <3>1. pc[w] = "lock" /\ last_graph'[w] = n_graph /\ new_graph'[w] = new_graph[w]
          /\ pc'[w] = IF n_graph # last_graph[w] /\ w < n_threads_cur THEN "start" ELSE "asleep"
      BY <1>1, <1>2, <1>14, <2>2 DEF CheckLocked, Goto
    <3>2. n_graph # last_graph[w] => n_threads_cur = want
      BY <1>1, <1>2, <1>3, <1>10 DEF PlaceOK
    <3>3. PlaceOK(w)'
      BY <1>1, <1>2, <1>3, <1>4, <3>1, <3>2 DEF PlaceOK, Looking, CallerOnly
    <3>4. w \in Team => \A k \in Nodes, s \in Sides : At(w, k, s) => At(w, k, s)'
      BY <1>1, <1>4, <3>1, <3>2 DEF At, Outside, Looking, Meets
    <3>5. Outside(w) /\ last_graph[w] = n_graph => Outside(w)' /\ last_graph'[w] = n_graph
      BY <3>1 DEF Outside, Looking
    <3> QED
      BY <1>1, <1>4, <1>5, <1>8, <1>9, <3>3, <3>4, <3>5, WorkerMoves DEF Steady
  <2> QED
    BY <2>1, <2>2
<1> QED
  BY <1>11, <1>12, <1>13, <1>14, Zenon DEF Look

-----------------------------------------------------------------------------
(* Between graphs the workers of the last one are out of it and know it.   *)
LEMMA CallerOut ==
  ASSUME PoolInv, pc[0] \in {"idle", "kick", "publish", "join", "freed"}
  PROVE  \A t \in Team : t # 0 => Outside(t) /\ last_graph[t] = n_graph
<1>1. ASSUME NEW k \in Nodes, NEW s \in Sides, OnSection(k, s) PROVE FALSE
  <2>1. At(0, k, s)
    BY <1>1, TeamFacts DEF OnSection, PoolInv
  <2> QED
    BY <2>1 DEF At, Meets
<1> QED
  BY <1>1 DEF PoolInv, GraphOK

LEMMA CallerMoves ==
  ASSUME PoolInv, TypeOK', Steady, n_barrier' = n_barrier,
         \A u \in Threads \ {0} : Still(u), last_graph' = last_graph, new_graph' = new_graph,
         pc[0] \in {"idle", "kick", "publish", "join", "freed"},
         pc'[0] \in {"idle", "kick", "publish", "join", "freed"}, PlanOK'
  PROVE  PoolInv'
<1>1. 0 \in Threads /\ Team \subseteq Threads /\ Team' = Team /\ want >= 1
  BY TeamFacts, PoolAssumption DEF Threads, PoolInv, Team, Steady
<1>2. PlaceOK(0)'
  BY <1>1 DEF PoolInv, PlaceOK, Steady, Looking
<1>3. \A u \in Threads : PlaceOK(u)'
  BY <1>1, <1>2, OthersPlace
<1>4. BarrierOK'
  <2>1. Meets(0)' <=> Meets(0)
    BY DEF Meets
  <2>2. ~ Completes(0) /\ ~ Completes(0)'
    BY DEF Completes
  <2> QED
    BY <1>1, <2>1, <2>2, OthersBarrier
<1>5. GraphOK'
  <2>1. \A t \in Team : t # 0 => Outside(t) /\ last_graph[t] = n_graph
    BY CallerOut
  <2>2. ASSUME NEW t \in Team, t # 0 PROVE (Outside(t) /\ last_graph[t] = n_graph)'
    BY <1>1, <2>1, <2>2 DEF Still, Steady, Outside, Left
  <2>3. Calling'
    BY DEF Calling
  <2>4. (Calling /\ \A t \in Team : t # 0 => Outside(t) /\ last_graph[t] = n_graph)'
    BY <1>1, <2>2, <2>3
  <2> QED
    BY <2>4, Zenon DEF GraphOK
<1> QED
  BY <1>3, <1>4, <1>5 DEF PoolInv

(* A broadcast wakes sleepers, which are none of the threads of a graph.   *)
LEMMA BroadcastStill ==
  ASSUME PoolInv, NEW place \in CallerOnly \cup {"start"}, Broadcast(place),
         UNCHANGED <<barVars, workVars, seenVars>>
  PROVE  pc'[0] = place /\ \A u \in Threads \ {0} : Still(u)
<1>1. 0 \in Threads
  BY TeamFacts DEF PoolInv
<1> QED
  BY <1>1 DEF Broadcast, Still, Looking, barVars, workVars, seenVars

LEMMA CallStep ==
  ASSUME PoolInv, TypeOK', Calls \/ Kick \/ Join
  PROVE  PoolInv'
<1> USE DEF planVars, barVars, workVars, seenVars
<1>1. 0 \in Threads /\ pc \in [Threads -> Places]
  BY TeamFacts DEF PoolInv, TypeOK
<1>2. PlanOK
  BY DEF PoolInv
<1>3. CASE Pause \/ Resume
  <2>1. pc[0] = "idle" /\ Broadcast("idle") /\ UNCHANGED <<barVars, workVars, seenVars>>
        /\ UNCHANGED <<want, n_graph, n_threads_cur>>
    BY <1>3 DEF Pause, Resume
  <2>2. pc'[0] = "idle" /\ \A u \in Threads \ {0} : Still(u)
    BY <2>1, BroadcastStill DEF CallerOnly
  <2>3. PlanOK'
    BY <1>2, <2>1, <2>2 DEF PlanOK
  <2> QED
    BY <2>1, <2>2, <2>3, CallerMoves DEF Steady
<1>4. CASE Free
  <2>1. pc[0] = "idle" /\ Broadcast("join") /\ UNCHANGED <<barVars, workVars, seenVars>>
        /\ UNCHANGED <<want, n_graph, n_threads_cur>>
    BY <1>4 DEF Free
  <2>2. pc'[0] = "join" /\ \A u \in Threads \ {0} : Still(u)
    BY <2>1, BroadcastStill DEF CallerOnly
  <2>3. PlanOK'
    BY <1>2, <2>1, <2>2 DEF PlanOK
  <2> QED
    BY <2>1, <2>2, <2>3, CallerMoves DEF Steady
<1>5. CASE Compute
  <2>1. pc[0] = "idle" /\ pc'[0] = "kick" /\ PlanOK'
    BY <1>1, <1>2, <1>5 DEF Compute, Goto, PlanOK
  <2>2. \A u \in Threads \ {0} : Still(u)
    BY <1>1, <1>5 DEF Compute, Goto, Still
  <2> QED
    BY <1>5, <2>1, <2>2, CallerMoves DEF Compute, Steady
<1>6. CASE Kick
  <2>1. pc[0] = "kick" /\ pc'[0] = "publish" /\ PlanOK'
    BY <1>1, <1>2, <1>6 DEF Kick, Goto, PlanOK
  <2>2. \A u \in Threads \ {0} : Still(u)
    BY <1>1, <1>6 DEF Kick, Goto, Still
  <2> QED
    BY <1>6, <2>1, <2>2, CallerMoves DEF Kick, Steady
<1>7. CASE Join
  <2>1. pc[0] = "join" /\ pc'[0] = "freed" /\ PlanOK'
    BY <1>1, <1>2, <1>7 DEF Join, Goto, PlanOK
  <2>2. \A u \in Threads \ {0} : Still(u)
    BY <1>1, <1>7 DEF Join, Goto, Still
  <2> QED
    BY <1>7, <2>1, <2>2, CallerMoves DEF Join, Steady
<1> QED
  BY <1>3, <1>4, <1>5, <1>6, <1>7, Zenon DEF Calls

(* The graph is shown: all its threads have still to start.                *)
LEMMA PublishStep ==
  ASSUME PoolInv, TypeOK', Publish
  PROVE  PoolInv'
<1> USE DEF planVars, barVars, workVars, seenVars
<1>1. 0 \in Threads /\ Team \subseteq Threads /\ Team' = Team /\ pc \in [Threads -> Places]
      /\ n_graph \in Nat /\ n_graph' = n_graph + 1 /\ want \in Nat
      /\ \A t \in Threads : t \in Nat /\ (t \in Team <=> t < want)
  <2>1. TypeOK
    BY DEF PoolInv
  <2>2. pc \in [Threads -> Places] /\ n_graph \in Nat
    BY <2>1, PoolAssumption DEF TypeOK
  <2>3. Team' = Team /\ n_graph' = n_graph + 1
    BY DEF Publish, Team
  <2> QED
    BY <2>1, <2>2, <2>3, TeamFacts
<1>2. pc[0] = "publish" /\ pc'[0] = "wake" /\ \A u \in Threads \ {0} : pc'[u] = pc[u]
  BY <1>1 DEF Publish, Goto
<1>3. UNCHANGED <<want, n_threads_cur, n_barrier, n_barrier_passed, bar, goal, node, abort,
                  last_graph, new_graph>>
  BY DEF Publish
<1>4. \A t \in Team : t # 0 => Outside(t) /\ last_graph[t] = n_graph
  BY <1>2, CallerOut
<1>5. PlanOK'
  BY <1>1, <1>2, <1>3 DEF PoolInv, PlanOK
<1>6. ASSUME NEW u \in Threads PROVE PlaceOK(u)'
  <2>1. PlaceOK(u) /\ last_graph[u] \in Nat /\ new_graph[u] \in Nat
    BY PoolAssumption DEF PoolInv, TypeOK
  <2>2. CASE u = 0
    BY <1>1, <1>2, <1>3, <2>1, <2>2 DEF PlaceOK, Looking
  <2>3. CASE u # 0 /\ pc[u] = "active"
    <3>1. u >= want
      BY <1>1, <1>4, <2>1, <2>3 DEF PlaceOK
    <3> QED
      BY <1>1, <1>2, <1>3, <2>1, <2>3, <3>1 DEF PlaceOK, Looking, CallerOnly
  <2>4. CASE u # 0 /\ pc[u] # "active"
    BY <1>1, <1>2, <1>3, <2>1, <2>4 DEF PlaceOK
  <2> QED
    BY <2>2, <2>3, <2>4
<1>7. BarrierOK'
  <2>1. ASSUME NEW u \in Team
        PROVE  (Meets(u)' <=> Meets(u)) /\ (Completes(u) \/ Completes(u)' => pc'[u] = pc[u])
    BY <1>1, <1>2, <1>3, <2>1 DEF Meets, Completes
  <2> QED
    BY <1>3, <2>1, BarrierSame DEF PoolInv
<1>8. GraphOK'
  <2>1. 0 \in Nodes /\ "front" \in Sides
    BY PoolAssumption DEF Nodes, Sides
  <2>2. ASSUME NEW t \in Team PROVE At(t, 0, "front")'
    <3>1. CASE t = 0
      BY <1>2, <3>1 DEF At
    <3>2. CASE t # 0
      <4>1. Outside(t)' /\ last_graph'[t] # n_graph'
        BY <1>1, <1>2, <1>3, <1>4, <2>2, <3>2 DEF Outside, Left
      <4> QED
        BY <3>2, <4>1 DEF At
    <3> QED
      BY <3>1, <3>2
  <2>3. OnSection(0, "front")'
    BY <1>1, <2>2 DEF OnSection
  <2> QED
    BY <2>1, <2>3 DEF GraphOK
<1> QED
  BY <1>5, <1>6, <1>7, <1>8 DEF PoolInv

(* The sleepers are woken, and the caller starts.                          *)
LEMMA WakeStep ==
  ASSUME PoolInv, TypeOK', Wake
  PROVE  PoolInv'
<1> USE DEF planVars, barVars, workVars, seenVars
<1>1. 0 \in Threads /\ 0 \in Team
  BY TeamFacts DEF PoolInv
<1>2. pc[0] = "wake" /\ Broadcast("start") /\ UNCHANGED <<barVars, workVars, seenVars>>
      /\ UNCHANGED <<want, n_graph, n_threads_cur>>
  BY DEF Wake
<1>3. pc'[0] = "start" /\ \A u \in Threads \ {0} : Still(u)
  BY <1>2, BroadcastStill
<1>4. Steady /\ abort' = abort /\ n_barrier' = n_barrier
  BY <1>2 DEF Steady
<1>5. PlanOK'
  BY <1>2, <1>3 DEF PoolInv, PlanOK
<1>6. PlaceOK(0)'
  BY <1>1, <1>2, <1>3 DEF PoolInv, PlaceOK, Looking
<1>7. \A u \in Threads : PlaceOK(u)'
  BY <1>1, <1>3, <1>4, <1>6, OthersPlace
<1>8. BarrierOK'
  <2>1. ~ Meets(0) /\ ~ Meets(0)' /\ ~ Completes(0) /\ ~ Completes(0)'
    BY <1>2, <1>3 DEF Meets, Completes
  <2> QED
    BY <1>1, <1>3, <1>4, <2>1, OthersBarrier
<1>9. GraphOK'
  <2>1. ~ Calling
    BY <1>2 DEF Calling, Left
  <2>2. PICK k \in Nodes, s \in Sides : OnSection(k, s)
    BY <2>1 DEF PoolInv, GraphOK
  <2>3. At(0, k, s)
    BY <1>1, <2>2 DEF OnSection
  <2>4. At(0, k, s)'
    BY <1>2, <1>3, <2>3 DEF At, Meets
  <2> QED
    BY <1>1, <1>3, <1>4, <2>2, <2>4, OthersAt
<1> QED
  BY <1>5, <1>7, <1>8, <1>9 DEF PoolInv

-----------------------------------------------------------------------------
(* A thread goes on within its section.                                    *)
LEMMA SectionMoves ==
  ASSUME PoolInv, TypeOK', NEW t \in Threads, NEW k \in Nodes, NEW s \in Sides, OnSection(k, s),
         Steady, n_threads_cur = want, UNCHANGED <<n_threads_cur, n_barrier, last_graph, new_graph>>,
         \A u \in Threads \ {t} : Still(u),
         s = "front" => (abort' = k <=> abort = k), At(t, k, s)',
         pc[t] \in Working \ {"last", "release"},
         pc'[t] \in Working \ {"last", "release"},
         pc'[t] = "arrive" => bar'[t].passed = n_barrier_passed /\ bar'[t].n = want
  PROVE  PoolInv'
<1>1. t \in Team /\ Team' = Team
  BY InSection DEF Steady, Team
<1>2. PlaceOK(t)'
  BY <1>1, TeamFacts DEF PoolInv, PlaceOK, Steady, Working, Looking, CallerOnly
<1>3. \A u \in Threads : PlaceOK(u)'
  BY <1>2, OthersPlace
<1>4. BarrierOK'
  <2>1. ~ Meets(t) /\ ~ Meets(t)' /\ ~ Completes(t) /\ ~ Completes(t)'
    BY DEF Meets, Completes, Working
  <2> QED
    BY <2>1, OthersBarrier
<1>5. GraphOK'
  BY OthersAt
<1>6. PlanOK'
  <2>1. 0 \in Threads
    BY TeamFacts DEF PoolInv
  <2>2. pc'[0] \notin {"kick", "publish"} \/ pc'[0] = pc[0]
    BY <2>1 DEF Still, Working
  <2> QED
    BY <2>2 DEF PoolInv, PlanOK, Steady
<1> QED
  BY <1>3, <1>4, <1>5, <1>6 DEF PoolInv

(* The loop over the nodes and the operations, without the barrier.        *)
Operate(t) ==
  Start(t) \/ Node(t) \/ Forward(t) \/ MulMat(t) \/ NextChunk(t) \/ OnlyChunk(t) \/ NoChunk(t)

LEMMA OperateStays ==
  ASSUME PoolInv, NEW t \in Threads, NEW k \in Nodes, NEW s \in Sides, OnSection(k, s), Operate(t)
  PROVE  /\ At(t, k, s)'
         /\ abort' = abort \/ (t = 0 /\ abort' = k + 1 /\ (s = "front" => abort # k /\ k \notin MulMats))
         /\ pc[t] \in {"start", "node", "forward", "chunks"}
         /\ pc'[t] \in {"node", "forward", "chunks", "enter"}
         /\ pc[t] \in {"node", "forward", "chunks"} => node[t] = k
         /\ pc[t] = "chunks" <=> s = "chunks"
         /\ pc[t] = "forward" => abort # k
         /\ Node(t) /\ pc'[t] = "enter" => abort = k
<1> USE DEF planVars, barVars, workVars, seenVars, Operate
<1>1. pc \in [Threads -> Places] /\ node \in [Threads -> 0 .. NNodes]
      /\ goal \in [Threads -> {"chunks", "node", "end"}]
  BY DEF PoolInv, TypeOK
<1>2. pc[t] \in {"start", "node", "forward", "chunks"}
  BY DEF Start, Node, Forward, MulMat, NextChunk, OnlyChunk, NoChunk
<1>3. t \in Team
  BY <1>2, InSection DEF Working
<1>5. At(t, k, s) /\ (s = "chunks" => k \in MulMats)
  BY <1>3 DEF OnSection
<1>6. k \in Nat /\ k < NNodes /\ NNodes \in Nat
  BY PoolAssumption DEF Nodes
<1>7. UNCHANGED <<want, n_graph, n_barrier_passed, bar, last_graph>>
  BY DEF Start, Node, Forward, MulMat, NextChunk, OnlyChunk, NoChunk
<1>9. t = 0 \/ last_graph[t] = n_graph
  BY <1>2, <1>5 DEF At, Outside, Looking, Left
<1>10. CASE Start(t)
  <2>1. pc[t] = "start" /\ pc'[t] = "node" /\ node'[t] = 0 /\ k = 0 /\ s = "front"
        /\ abort' = abort
    BY <1>1, <1>5, <1>10 DEF Start, Goto, At, Outside, Looking, Left, Meets
  <2> QED
    BY <1>7, <1>9, <2>1 DEF At, Node
<1>11. CASE Node(t)
  <2>1. pc[t] = "node" /\ node[t] = k /\ node'[t] = k /\ s = "front" /\ abort' = abort
    BY <1>1, <1>5, <1>11 DEF Node, At, Outside, Looking, Left, Meets
  <2>2. \/ abort # k /\ pc'[t] = "forward"
        \/ abort = k /\ pc'[t] = "enter" /\ goal'[t] = "end"
    BY <1>1, <1>6, <1>11, <2>1 DEF Node, Goto
  <2> QED
    BY <1>7, <1>9, <2>1, <2>2 DEF At, Towards
<1>12. CASE Forward(t)
  <2>1. pc[t] = "forward" /\ node[t] = k /\ s = "front" /\ abort # k /\ k \notin MulMats
    BY <1>5, <1>12 DEF Forward, At, Outside, Looking, Left, Meets
  <2>2. /\ abort' = abort \/ (t = 0 /\ abort' = k + 1)
        /\ node'[t] = k + 1 /\ pc'[t] = "enter"
        /\ goal'[t] = IF k + 1 < NNodes THEN "node" ELSE "end"
    BY <1>1, <1>12, <2>1 DEF Forward, Leave, Goto
  <2>3. abort' # k
    BY <1>6, <2>1, <2>2
  <2> QED
    BY <1>7, <1>9, <2>1, <2>2, <2>3 DEF At, Towards, Node
<1>13. CASE MulMat(t)
  <2>1. pc[t] = "forward" /\ node[t] = k /\ s = "front" /\ abort # k /\ k \in MulMats
    BY <1>5, <1>13 DEF MulMat, At, Outside, Looking, Left, Meets
  <2>2. abort' = abort /\ node'[t] = k /\ pc'[t] = "enter" /\ goal'[t] = "chunks"
    BY <1>1, <1>13, <2>1 DEF MulMat, Goto
  <2> QED
    BY <1>7, <1>9, <2>1, <2>2 DEF At, Towards, Node
<1>14. CASE NextChunk(t)
  <2>1. pc[t] = "chunks" /\ node[t] = k /\ s = "chunks" /\ node' = node /\ pc'[t] = "chunks"
        /\ abort' = abort
    BY <1>5, <1>14 DEF NextChunk, At, Outside, Looking, Left, Meets
  <2> QED
    BY <1>7, <1>9, <2>1 DEF At
<1>15. CASE OnlyChunk(t) \/ NoChunk(t)
  <2>1. pc[t] = "chunks" /\ node[t] = k /\ s = "chunks"
    BY <1>5, <1>15 DEF OnlyChunk, NoChunk, At, Outside, Looking, Left, Meets
  <2>2. /\ abort' = abort \/ (t = 0 /\ abort' = k + 1)
        /\ node'[t] = k + 1 /\ pc'[t] = "enter"
        /\ goal'[t] = IF k + 1 < NNodes THEN "node" ELSE "end"
    BY <1>1, <1>15, <2>1 DEF OnlyChunk, NoChunk, Leave, Goto
  <2> QED
    BY <1>7, <1>9, <2>1, <2>2 DEF At, Towards, Node
<1> QED
  BY <1>10, <1>11, <1>12, <1>13, <1>14, <1>15, Zenon

LEMMA OperateStill ==
  ASSUME PoolInv, NEW t \in Threads, Operate(t)
  PROVE  /\ \A u \in Threads \ {t} : Still(u) /\ pc'[u] = pc[u]
         /\ UNCHANGED <<want, n_graph, n_barrier_passed, n_threads_cur, n_barrier, bar,
                        last_graph, new_graph>>
<1> USE DEF planVars, barVars, workVars, seenVars, Operate
<1>1. pc \in [Threads -> Places] /\ node \in [Threads -> 0 .. NNodes]
      /\ goal \in [Threads -> {"chunks", "node", "end"}]
  BY DEF PoolInv, TypeOK
<1>2. UNCHANGED <<want, n_graph, n_barrier_passed, n_threads_cur, n_barrier, bar, last_graph, new_graph>>
  BY DEF Start, Node, Forward, MulMat, NextChunk, OnlyChunk, NoChunk
<1>3. \A u \in Threads \ {t} : Still(u) /\ pc'[u] = pc[u]
  BY <1>1 DEF Start, Node, Forward, MulMat, NextChunk, OnlyChunk, NoChunk, Leave, Goto, Still
<1> QED
  BY <1>2, <1>3

LEMMA OperateStep ==
  ASSUME PoolInv, TypeOK', NEW t \in Threads, Operate(t)
  PROVE  PoolInv'
<1>1. pc[t] \in {"start", "node", "forward", "chunks"}
  BY DEF Operate, Start, Node, Forward, MulMat, NextChunk, OnlyChunk, NoChunk
<1>2. n_threads_cur = want
  BY <1>1, InSection DEF Working
<1>3. PICK k \in Nodes, s \in Sides : OnSection(k, s)
  BY <1>1, InSection DEF Working
<1>4. /\ At(t, k, s)' /\ pc'[t] \in {"node", "forward", "chunks", "enter"}
      /\ s = "front" => (abort' = k <=> abort = k)
  <2>1. k # k + 1
    BY PoolAssumption DEF Nodes
  <2> QED
    BY <1>3, <2>1, OperateStays
<1> QED
  BY <1>1, <1>2, <1>3, <1>4, OperateStill, SectionMoves DEF Steady, Working

-----------------------------------------------------------------------------
(* What is behind a section: the end, or the next section.                 *)
Final(k, s) == (s = "front" /\ abort = k) \/ (~ (s = "front" /\ k \in MulMats) /\ k + 1 >= NNodes)
NextNode(k, s) == IF s = "front" /\ k \in MulMats THEN k ELSE k + 1
NextSide(k, s) == IF s = "front" /\ k \in MulMats THEN "chunks" ELSE "front"

Entry(s) == IF s = "front" THEN "node" ELSE "chunks"

LEMMA Onward ==
  ASSUME NEW k \in Nodes, NEW s \in Sides, NEW t, Towards(t, k, s)
  PROVE  IF Final(k, s) THEN goal[t] = "end"
         ELSE /\ NextNode(k, s) \in Nodes /\ NextSide(k, s) \in Sides
              /\ NextSide(k, s) = "chunks" => NextNode(k, s) \in MulMats
              /\ node[t] = NextNode(k, s) /\ goal[t] = Entry(NextSide(k, s))
<1> QED
  BY PoolAssumption DEF Final, NextNode, NextSide, Entry, Towards, Nodes, Sides

(* A graph of one thread: it goes on without a barrier.                    *)
LEMMA AloneStep ==
  ASSUME PoolInv, TypeOK', NEW t \in Threads, EnterBarrier(t), want = 1
  PROVE  PoolInv'
<1> USE DEF planVars, workVars, seenVars
<1>1. pc \in [Threads -> Places] /\ Team' = Team
      /\ bar \in [Threads -> [n : 0 .. N, passed : Nat]]
  BY DEF PoolInv, TypeOK, EnterBarrier, Team
<1>2. pc[t] = "enter" /\ t \in Team /\ n_threads_cur = 1 /\ t \in Nat
  BY InSection, TeamFacts DEF Working, EnterBarrier, PoolInv
<1>3. t = 0 /\ Team = {0}
  BY <1>2, TeamFacts DEF Team, PoolInv
<1>4. PICK k \in Nodes, s \in Sides : OnSection(k, s)
  BY <1>2, InSection DEF Working
<1>5. Towards(t, k, s)
  BY <1>2, <1>4 DEF OnSection, At, Outside, Left, Looking
<1>6. UNCHANGED <<want, n_graph, n_barrier_passed, n_threads_cur, n_barrier, abort, goal, node,
                  last_graph, new_graph>>
  BY DEF EnterBarrier
<1>7. \A u \in Threads \ {t} : Still(u)
  BY <1>1 DEF EnterBarrier, Goto, Still
<1>8. pc'[0] = IF goal[0] # "end" THEN goal[0] ELSE "idle"
  BY <1>1, <1>2, <1>3 DEF EnterBarrier, Goto, Exit
<1>9. goal[0] \in {"chunks", "node", "end"}
  BY <1>2, <1>3 DEF PoolInv, TypeOK
<1>10. \A u \in Threads : PlaceOK(u)'
  <2>1. PlaceOK(0)'
    BY <1>2, <1>3, <1>6, <1>8, <1>9 DEF PoolInv, PlaceOK, Looking
  <2> QED
    BY <1>3, <1>6, <1>7, <2>1, OthersPlace DEF Steady
<1>11. BarrierOK'
  <2>1. ~ Meets(t) /\ ~ Meets(t)' /\ ~ Completes(t) /\ ~ Completes(t)'
    BY <1>2, <1>3, <1>8, <1>9 DEF Meets, Completes
  <2> QED
    BY <1>6, <1>7, <2>1, OthersBarrier DEF Steady
<1>12. GraphOK'
  <2>1. CASE Final(k, s)
    <3>1. Calling'
      BY <1>3, <1>5, <1>8, <2>1, Onward DEF Calling
    <3>2. (Calling /\ \A u \in Team : u # 0 => Outside(u) /\ last_graph[u] = n_graph)'
      BY <1>1, <1>3, <3>1
    <3> QED
      BY <3>2, Zenon DEF GraphOK
  <2>2. CASE ~ Final(k, s)
    <3> DEFINE k2 == NextNode(k, s)
    <3> DEFINE s2 == NextSide(k, s)
    <3>1. k2 \in Nodes /\ s2 \in Sides /\ (s2 = "chunks" => k2 \in MulMats)
          /\ node[t] = k2 /\ goal[t] = Entry(s2)
      BY <1>5, <2>2, Onward
    <3> HIDE DEF k2, s2
    <3>2. At(0, k2, s2)'
      BY <1>3, <1>6, <1>8, <3>1 DEF At, Entry, Sides
    <3>3. OnSection(k2, s2)'
      BY <1>1, <1>3, <3>1, <3>2 DEF OnSection
    <3> QED
      BY <3>1, <3>3 DEF GraphOK
  <2> QED
    BY <2>1, <2>2
<1>13. PlanOK'
  BY <1>2, <1>6, <1>8, <1>9 DEF PoolInv, PlanOK
<1> QED
  BY <1>10, <1>11, <1>12, <1>13 DEF PoolInv

LEMMA EnterStep ==
  ASSUME PoolInv, TypeOK', NEW t \in Threads, EnterBarrier(t)
  PROVE  PoolInv'
<1> USE DEF planVars, workVars, seenVars
<1>1. pc \in [Threads -> Places] /\ bar \in [Threads -> [n : 0 .. N, passed : Nat]]
  BY DEF PoolInv, TypeOK
<1>2. pc[t] = "enter" /\ t \in Team /\ n_threads_cur = want
  BY InSection DEF Working, EnterBarrier
<1>3. CASE want # 1
  <2>1. PICK k \in Nodes, s \in Sides : OnSection(k, s)
    BY <1>2, InSection DEF Working
  <2>2. Towards(t, k, s) /\ (t = 0 \/ last_graph[t] = n_graph)
    BY <1>2, <2>1 DEF OnSection, At, Outside, Left, Looking
  <2>3. UNCHANGED <<want, n_graph, n_barrier_passed, n_threads_cur, n_barrier, abort, goal, node,
                    last_graph, new_graph>>
    BY DEF EnterBarrier
  <2>4. \A u \in Threads \ {t} : Still(u)
    BY <1>1 DEF EnterBarrier, Goto, Still
  <2>5. pc'[t] = "arrive" /\ bar'[t] = [n |-> want, passed |-> n_barrier_passed]
    BY <1>1, <1>2, <1>3 DEF EnterBarrier, Goto
  <2>6. At(t, k, s)'
    BY <2>2, <2>3, <2>5 DEF At, Towards
  <2> QED
    BY <1>2, <2>1, <2>3, <2>4, <2>5, <2>6, SectionMoves DEF Steady, Working
<1> QED
  BY <1>3, AloneStep

-----------------------------------------------------------------------------
LEMMA WaitingFinite ==
  ASSUME TypeOK
  PROVE  IsFiniteSet(Waiting) /\ Cardinality(Waiting) \in Nat
<1>1. Waiting \subseteq Team
  BY DEF Waiting
<1>2. IsFiniteSet(Waiting)
  BY <1>1, TeamFacts, FS_Subset
<1> QED
  BY <1>2, FS_CardinalityType

(* If all but one wait, the one that does not is the last.                 *)
LEMMA AllButOne ==
  ASSUME TypeOK, NEW t \in Team, t \notin Waiting, Cardinality(Waiting) = want - 1
  PROVE  \A u \in Team : u # t => Meets(u)
<1>1. IsFiniteSet(Team) /\ Cardinality(Team) = want /\ want \in Nat
  BY TeamFacts
<1>2. IsFiniteSet(Team \ {t}) /\ Cardinality(Team \ {t}) = want - 1
  BY <1>1, FS_RemoveElement
<1>3. Waiting \subseteq Team \ {t}
  BY DEF Waiting
<1>4. Waiting = Team \ {t}
  BY <1>2, <1>3, FS_Subset, WaitingFinite
<1> QED
  BY <1>4 DEF Waiting

LEMMA ArriveStep ==
  ASSUME PoolInv, TypeOK', NEW t \in Threads, Arrive(t)
  PROVE  PoolInv'
<1> USE DEF planVars, workVars, seenVars
<1>1. pc \in [Threads -> Places] /\ bar \in [Threads -> [n : 0 .. N, passed : Nat]]
      /\ Team' = Team /\ n_barrier \in Nat /\ want \in Nat
      /\ Team \subseteq Threads /\ 0 \in Threads
  <2>1. TypeOK
    BY DEF PoolInv
  <2>2. n_barrier \in Nat
    BY <2>1, PoolAssumption DEF TypeOK
  <2> QED
    BY <2>1, <2>2, TeamFacts DEF TypeOK, Arrive, Team
<1>2. pc[t] = "arrive" /\ t \in Team /\ n_threads_cur = want
  BY InSection DEF Working, Arrive
<1>3. bar[t].passed = n_barrier_passed /\ bar[t].n = want
  BY <1>2 DEF PoolInv, PlaceOK
<1>4. PICK k \in Nodes, s \in Sides : OnSection(k, s)
  BY <1>2, InSection DEF Working
<1>5. Towards(t, k, s) /\ (t = 0 \/ last_graph[t] = n_graph)
  BY <1>2, <1>4 DEF OnSection, At, Outside, Left, Looking
<1>6. UNCHANGED <<want, n_graph, n_barrier_passed, n_threads_cur, abort, goal, node, bar,
                  last_graph, new_graph>> /\ n_barrier' = n_barrier + 1
  BY DEF Arrive
<1>7. \A u \in Threads \ {t} : Still(u) /\ pc'[u] = pc[u]
  BY <1>1 DEF Arrive, Goto, Still
<1>8. pc'[t] = IF n_barrier = want - 1 THEN "last" ELSE "spin"
  BY <1>1, <1>2, <1>3 DEF Arrive, Goto
<1>9. Meets(t)' <=> n_barrier # want - 1
  BY <1>3, <1>6, <1>8 DEF Meets
<1>10. \A u \in Threads : PlaceOK(u)'
  <2>1. PlaceOK(t)'
    BY <1>1, <1>2, <1>3, <1>6, <1>8, TeamFacts DEF PoolInv, PlaceOK, Looking, CallerOnly, TypeOK
  <2> QED
    BY <1>6, <1>7, <2>1, OthersPlace DEF Steady
<1>11. PlanOK'
  BY <1>1, <1>2, <1>6, <1>7, <1>8 DEF PoolInv, PlanOK
<1>12. GraphOK'
  <2>1. At(t, k, s)'
    BY <1>5, <1>6, <1>8, <1>9 DEF At, Towards
  <2> QED
    BY <1>4, <1>6, <1>7, <2>1, OthersAt DEF Steady
<1>13. BarrierOK'
  <2>1. ~ Meets(t) /\ ~ Completes(t) /\ t \notin Waiting
    BY <1>2 DEF Meets, Completes, Waiting
  <2>2. /\ \A u \in Team : ~ Completes(u)
        /\ n_barrier = Cardinality(Waiting) /\ n_barrier < want
    BY <1>2, <2>1 DEF PoolInv, BarrierOK
  <2>3. \A u \in Team : u # t => (Meets(u)' <=> Meets(u)) /\ ~ Completes(u)'
    BY <1>1, <1>6, <1>7, <2>2 DEF Meets, Completes
  <2>4. CASE n_barrier = want - 1
    <3>1. \A u \in Team : u # t => Meets(u)
      BY <1>2, <2>1, <2>2, <2>4, AllButOne DEF PoolInv
    <3>2. Completes(t)' /\ pc'[t] # "release"
      BY <1>8, <2>4 DEF Completes
    <3>3. \A u \in Team' : u # t => Meets(u)'
      BY <1>1, <2>3, <3>1
    <3> QED
      BY <1>1, <1>2, <3>2, <3>3 DEF BarrierOK
  <2>5. CASE n_barrier # want - 1
    <3>1. Waiting' = Waiting \cup {t}
      BY <1>1, <1>2, <1>9, <2>3, <2>5 DEF Waiting
    <3>2. Cardinality(Waiting \cup {t}) = Cardinality(Waiting) + 1
      BY <2>1, WaitingFinite, FS_AddElement DEF PoolInv
    <3>3. n_barrier' = Cardinality(Waiting') /\ n_barrier' < want'
      BY <1>1, <1>6, <2>2, <2>5, <3>1, <3>2
    <3>4. \A u \in Team' : ~ Completes(u)'
      BY <1>1, <1>8, <2>3, <2>5 DEF Completes
    <3> QED
      BY <3>3, <3>4 DEF BarrierOK
  <2> QED
    BY <2>4, <2>5
<1> QED
  BY <1>10, <1>11, <1>12, <1>13 DEF PoolInv

LEMMA ResetStep ==
  ASSUME PoolInv, TypeOK', NEW t \in Threads, ResetBarrier(t)
  PROVE  PoolInv'
<1> USE DEF planVars, workVars, seenVars
<1>1. pc \in [Threads -> Places] /\ Team' = Team /\ Team \subseteq Threads /\ 0 \in Threads
  BY TeamFacts DEF PoolInv, TypeOK, ResetBarrier, Team
<1>2. pc[t] = "last" /\ t \in Team /\ n_threads_cur = want /\ pc'[t] = "release"
  BY <1>1, InSection DEF Working, ResetBarrier, Goto
<1>3. PICK k \in Nodes, s \in Sides : OnSection(k, s)
  BY <1>2, InSection DEF Working
<1>4. Towards(t, k, s) /\ (t = 0 \/ last_graph[t] = n_graph)
  BY <1>2, <1>3 DEF OnSection, At, Outside, Left, Looking
<1>5. UNCHANGED <<want, n_graph, n_barrier_passed, n_threads_cur, abort, goal, node, bar,
                  last_graph, new_graph>> /\ n_barrier' = 0
  BY DEF ResetBarrier
<1>6. \A u \in Threads \ {t} : Still(u) /\ pc'[u] = pc[u]
  BY <1>1 DEF ResetBarrier, Goto, Still
<1>7. \A u \in Threads : PlaceOK(u)'
  <2>1. PlaceOK(t)'
    BY <1>2, <1>5, TeamFacts DEF PoolInv, PlaceOK, Looking, CallerOnly
  <2> QED
    BY <1>5, <1>6, <2>1, OthersPlace DEF Steady
<1>8. PlanOK'
  BY <1>1, <1>2, <1>5, <1>6 DEF PoolInv, PlanOK
<1>9. GraphOK'
  <2>1. At(t, k, s)'
    BY <1>2, <1>4, <1>5 DEF At, Towards
  <2> QED
    BY <1>3, <1>5, <1>6, <2>1, OthersAt DEF Steady
<1>10. BarrierOK'
  <2>1. \A u \in Team : u # t => Meets(u)
    BY <1>2 DEF PoolInv, BarrierOK, Completes, Meets
  <2>2. \A u \in Team' : u # t => Meets(u)'
    BY <1>1, <1>5, <1>6, <2>1 DEF Meets
  <2>3. Completes(t)' /\ t \in Team'
    BY <1>1, <1>2 DEF Completes
  <2> QED
    BY <1>5, <2>2, <2>3 DEF BarrierOK
<1> QED
  BY <1>7, <1>8, <1>9, <1>10 DEF PoolInv

(* The last one lets all others out at once: behind the barrier is the     *)
(* next section, or the end of the graph.                                  *)
LEMMA ReleaseStep ==
  ASSUME PoolInv, TypeOK', NEW t \in Threads, ReleaseBarrier(t)
  PROVE  PoolInv'
<1> USE DEF planVars, workVars, seenVars
<1>1. pc \in [Threads -> Places] /\ Team' = Team /\ Team \subseteq Threads /\ 0 \in Threads
      /\ n_barrier_passed \in Nat /\ want \in Nat /\ want >= 1
      /\ \A u \in Threads : u \in Nat /\ (u \in Team <=> u < want)
  BY TeamFacts DEF PoolInv, TypeOK, ReleaseBarrier, Team
<1>2. pc[t] = "release" /\ t \in Team /\ n_threads_cur = want
  BY InSection DEF Working, ReleaseBarrier
<1>3. PICK k \in Nodes, s \in Sides : OnSection(k, s)
  BY <1>2, InSection DEF Working
<1>4. UNCHANGED <<want, n_graph, n_barrier, n_threads_cur, abort, goal, node, bar,
                  last_graph, new_graph>> /\ n_barrier_passed' = n_barrier_passed + 1
  BY DEF ReleaseBarrier
<1>5. \A u \in Threads \ {t} : pc'[u] = pc[u]
  BY <1>1 DEF ReleaseBarrier, Goto
<1>6. pc'[t] = IF goal[t] # "end" THEN goal[t] ELSE IF t = 0 THEN "idle" ELSE "top"
  BY <1>1 DEF ReleaseBarrier, Goto, Exit
<1>7. goal[t] \in {"chunks", "node", "end"}
  BY DEF PoolInv, TypeOK
<1>8. n_barrier = 0 /\ \A u \in Team : u # t => Meets(u)
  BY <1>2 DEF PoolInv, BarrierOK, Completes, Meets
<1>9. \A u \in Team : Towards(u, k, s) /\ (u = 0 \/ last_graph[u] = n_graph)
  BY <1>2, <1>3, <1>8 DEF OnSection, At, Outside, Left, Looking, Meets
<1>10. \A u \in Team : u # t => pc'[u] = "spin" /\ bar'[u].passed # n_barrier_passed'
  BY <1>1, <1>4, <1>5, <1>8 DEF Meets
<1>11. ASSUME NEW u \in Threads PROVE PlaceOK(u)'
  <2>1. PlaceOK(u)
    BY DEF PoolInv
  <2>2. CASE u = t
    BY <1>1, <1>2, <1>4, <1>6, <1>7, <2>1, <2>2 DEF PlaceOK, Looking, CallerOnly
  <2>3. CASE u # t /\ u \in Team
    <3>1. bar[u].passed = n_barrier_passed /\ pc[u] = "spin"
      BY <1>8, <2>3 DEF Meets
    <3> QED
      BY <1>1, <1>4, <1>5, <2>1, <2>3, <3>1 DEF PlaceOK
  <2>4. CASE u # t /\ u \notin Team
    <3>1. pc[u] \in Looking
      BY <1>1, <2>1, <2>4 DEF PlaceOK
    <3> QED
      BY <1>1, <1>4, <1>5, <2>1, <2>4, <3>1 DEF PlaceOK, Looking
  <2> QED
    BY <2>2, <2>3, <2>4
<1>12. PlanOK'
  BY <1>1, <1>2, <1>4, <1>5, <1>6, <1>7 DEF PoolInv, PlanOK
<1>13. BarrierOK'
  <2>1. \A u \in Team' : ~ Meets(u)' /\ ~ Completes(u)'
    BY <1>1, <1>6, <1>7, <1>10 DEF Meets, Completes
  <2>2. Waiting' = {}
    BY <2>1 DEF Waiting
  <2>3. Cardinality(Waiting') = 0
    BY <2>2, FS_EmptySet, Zenon
  <2> QED
    BY <1>1, <1>4, <1>8, <2>1, <2>3 DEF BarrierOK
<1>14. GraphOK'
  <2>1. CASE Final(k, s)
    <3>1. \A u \in Team : goal[u] = "end"
      BY <1>9, <2>1, Onward
    <3>2. ASSUME NEW u \in Team, u # 0 PROVE (Outside(u) /\ last_graph[u] = n_graph)'
      <4>1. CASE u = t
        BY <1>4, <1>6, <1>9, <3>1, <3>2, <4>1 DEF Outside, Looking
      <4>2. CASE u # t
        BY <1>4, <1>9, <1>10, <3>1, <3>2, <4>2 DEF Outside, Left
      <4> QED
        BY <4>1, <4>2
    <3>3. Calling'
      <4>1. 0 \in Team
        BY <1>1
      <4> QED
        BY <1>4, <1>6, <1>10, <3>1, <4>1 DEF Calling, Left
    <3>4. (Calling /\ \A u \in Team : u # 0 => Outside(u) /\ last_graph[u] = n_graph)'
      BY <1>1, <3>2, <3>3
    <3> QED
      BY <3>4, Zenon DEF GraphOK
  <2>2. CASE ~ Final(k, s)
    <3> DEFINE k2 == NextNode(k, s)
    <3> DEFINE s2 == NextSide(k, s)
    <3>1. k2 \in Nodes /\ s2 \in Sides /\ (s2 = "chunks" => k2 \in MulMats)
          /\ \A u \in Team : node[u] = k2 /\ goal[u] = Entry(s2)
      BY <1>2, <1>9, <2>2, Onward
    <3> HIDE DEF k2, s2
    <3>2. ASSUME NEW u \in Team PROVE At(u, k2, s2)'
      <4>1. node'[u] = k2 /\ goal'[u] = Entry(s2) /\ (u = 0 \/ last_graph'[u] = n_graph')
        BY <1>4, <1>9, <3>1
      <4>2. CASE u = t
        BY <1>6, <3>1, <4>1, <4>2 DEF At, Entry, Sides
      <4>3. CASE u # t
        BY <1>10, <4>1, <4>3 DEF At, Entry
      <4> QED
        BY <4>2, <4>3
    <3>3. OnSection(k2, s2)'
      BY <1>1, <3>1, <3>2 DEF OnSection
    <3> QED
      BY <3>1, <3>3 DEF GraphOK
  <2> QED
    BY <2>1, <2>2
<1> QED
  BY <1>11, <1>12, <1>13, <1>14 DEF PoolInv

(* A thread notices that it was let out.                                   *)
LEMMA LeaveStep ==
  ASSUME PoolInv, TypeOK', NEW t \in Threads, LeaveBarrier(t)
  PROVE  PoolInv'
<1> USE DEF planVars, barVars, workVars, seenVars
<1>1. pc \in [Threads -> Places] /\ Team' = Team /\ Team \subseteq Threads /\ 0 \in Threads
      /\ want \in Nat /\ \A u \in Threads : u \in Nat /\ (u \in Team <=> u < want)
  BY TeamFacts DEF PoolInv, TypeOK, LeaveBarrier, Team
<1>2. pc[t] = "spin" /\ bar[t].passed # n_barrier_passed
      /\ pc'[t] = IF goal[t] # "end" THEN goal[t] ELSE IF t = 0 THEN "idle" ELSE "top"
  BY <1>1 DEF LeaveBarrier, Goto, Exit
<1>3. UNCHANGED <<want, n_graph, n_barrier_passed, n_threads_cur, n_barrier, abort, goal, node, bar,
                  last_graph, new_graph>>
  BY DEF LeaveBarrier
<1>4. \A u \in Threads \ {t} : Still(u) /\ pc'[u] = pc[u]
  BY <1>1 DEF LeaveBarrier, Goto, Still
<1>5. goal[t] \in {"chunks", "node", "end"}
  BY DEF PoolInv, TypeOK
<1>6. ~ Meets(t) /\ ~ Meets(t)' /\ ~ Completes(t) /\ ~ Completes(t)'
  BY <1>2, <1>5 DEF Meets, Completes
<1>7. t \in Team
  BY <1>1, <1>2 DEF PoolInv, PlaceOK, Looking
<1>8. PlaceOK(t)'
  BY <1>1, <1>2, <1>3, <1>5, <1>7 DEF PoolInv, PlaceOK, Looking, CallerOnly
<1>9. CASE t # 0
  <2>1. t \in Workers
    BY <1>1, <1>9 DEF Threads, Workers
  <2>2. Outside(t) /\ last_graph[t] = n_graph => Outside(t)' /\ last_graph'[t] = n_graph
    BY <1>2, <1>3, <1>9 DEF Outside, Left, Looking
  <2>3. ASSUME NEW k \in Nodes, NEW s \in Sides, At(t, k, s) PROVE At(t, k, s)'
    <3>1. CASE Outside(t)
      BY <1>2, <1>3, <1>6, <1>9, <2>3, <3>1 DEF At, Outside, Left, Looking
    <3>2. CASE ~ Outside(t)
      <4>1. goal[t] # "end"
        BY <1>2, <3>2 DEF Outside, Left
      <4>2. node[t] = k /\ goal[t] = Entry(s) /\ last_graph[t] = n_graph
        BY <1>2, <1>6, <1>9, <2>3, <3>2 DEF At, Entry
      <4> QED
        BY <1>2, <1>3, <1>9, <4>1, <4>2 DEF At, Entry, Sides
    <3> QED
      BY <3>1, <3>2
  <2> QED
    BY <1>3, <1>4, <1>6, <1>8, <2>1, <2>2, <2>3, WorkerMoves DEF Steady
<1>10. CASE t = 0
  <2>1. \A u \in Threads : PlaceOK(u)'
    BY <1>3, <1>4, <1>8, OthersPlace DEF Steady
  <2>2. BarrierOK'
    BY <1>3, <1>4, <1>6, OthersBarrier DEF Steady
  <2>4. n_threads_cur = want
    BY <1>2, <1>10 DEF PoolInv, PlanOK
  <2>5. PlanOK'
    BY <1>2, <1>3, <1>5, <1>10, <2>4 DEF PlanOK
  <2>6. ASSUME Calling, \A u \in Team : u # 0 => Outside(u) /\ last_graph[u] = n_graph
        PROVE  GraphOK'
    <3>1. Calling'
      BY <1>2, <1>10, <2>6 DEF Calling, Left
    <3>2. ASSUME NEW u \in Team, u # 0 PROVE (Outside(u) /\ last_graph[u] = n_graph)'
      BY <1>1, <1>3, <1>4, <1>10, <2>6, <3>2 DEF Outside, Left
    <3>3. (Calling /\ \A u \in Team : u # 0 => Outside(u) /\ last_graph[u] = n_graph)'
      BY <1>1, <3>1, <3>2
    <3> QED
      BY <3>3, Zenon DEF GraphOK
  <2>7. ASSUME NEW k \in Nodes, NEW s \in Sides, OnSection(k, s) PROVE GraphOK'
    <3>1. At(0, k, s)
      BY <1>7, <1>10, <2>7 DEF OnSection
    <3>2. node[0] = k /\ goal[0] = Entry(s)
      BY <1>2, <1>6, <1>10, <3>1 DEF At, Entry
    <3>3. At(0, k, s)'
      BY <1>2, <1>3, <1>10, <3>2 DEF At, Entry, Sides
    <3> QED
      BY <1>1, <1>3, <1>4, <1>10, <2>7, <3>3, OthersAt DEF Steady
  <2>8. GraphOK'
    BY <2>6, <2>7 DEF PoolInv, GraphOK
  <2> QED
    BY <2>1, <2>2, <2>5, <2>8 DEF PoolInv
<1> QED
  BY <1>9, <1>10

-----------------------------------------------------------------------------
(* The threads of a graph are on one section of it between two barriers,   *)
(* and the barrier counts those who wait (ggml_barrier, and the loop of    *)
(* ggml_graph_compute_thread).                                             *)
THEOREM PoolInvariant == SteadySpec => []PoolInv
<1>1. PoolInv /\ [SteadyNext]_vars => PoolInv'
  <2> SUFFICES ASSUME PoolInv, [SteadyNext]_vars PROVE PoolInv'
    OBVIOUS
  <2>1. CASE SteadyNext
    <3>1. TypeOK'
      BY <2>1, TypeStep
    <3>2. CASE Calls \/ Kickoff \/ Join
      BY <3>1, <3>2, CallStep, PublishStep, WakeStep, Zenon DEF Kickoff
    <3>3. ASSUME NEW w \in Workers, Look(w) \/ WakeSpuriously(w) PROVE PoolInv'
      BY <3>1, <3>3, LookStep, Zenon
    <3>4. ASSUME NEW t \in Threads, Work(t) PROVE PoolInv'
      BY <3>1, <3>4, OperateStep, EnterStep, ArriveStep, ResetStep, ReleaseStep, LeaveStep, Zenon
      DEF Work, Barrier, Operate
    <3> QED
      BY <2>1, <3>2, <3>3, <3>4, Zenon DEF SteadyNext
  <2>2. CASE UNCHANGED vars
    <3> USE <2>2 DEF vars, planVars, barVars, workVars, seenVars
    <3>1. TypeOK'
      BY Zenon DEF PoolInv, TypeOK
    <3>2. PlanOK'
      BY DEF PoolInv, PlanOK
    <3>3. \A t \in Threads : Still(t)
      BY DEF Still
    <3>4. Steady /\ Team' = Team
      BY DEF Steady, Team
    <3>5. \A t \in Threads : PlaceOK(t)'
      BY <3>3, <3>4, StillPlace DEF PoolInv
    <3>6. 0 \in Threads /\ Team \subseteq Threads
      BY TeamFacts DEF PoolInv
    <3>7. BarrierOK'
      BY <3>3, <3>4, <3>6, OthersBarrier, StillBarrier
    <3>8. GraphOK'
      <4>1. CASE Calling /\ \A t \in Team : t # 0 => Outside(t) /\ last_graph[t] = n_graph
        BY <3>4, <4>1 DEF GraphOK, Calling, Outside, Left
      <4>2. ASSUME NEW k \in Nodes, NEW s \in Sides, OnSection(k, s) PROVE GraphOK'
        BY <3>3, <3>4, <3>6, <4>2, OthersAt, StillAt, TeamFacts DEF PoolInv, OnSection
      <4> QED
        BY <4>1, <4>2 DEF PoolInv, GraphOK
    <3> QED
      BY <3>1, <3>2, <3>5, <3>7, <3>8 DEF PoolInv
  <2> QED
    BY <2>1, <2>2
<1> QED
  BY <1>1, InitPoolInv, PTL DEF SteadySpec

(* What the threads of a pool hold is always of its type: no count, node   *)
(* or graph number leaves its range.                                       *)
THEOREM TypeCorrect == SteadySpec => []TypeOK
<1>1. PoolInv => TypeOK
  BY DEF PoolInv
<1> QED
  BY <1>1, PoolInvariant, PTL

(* Threads that compute are at the same node and on the same side of the   *)
(* barrier inside a product (ggml_graph_compute_thread, ggml_barrier).     *)
THEOREM ThreadsInStep == SteadySpec => []InStep
<1>1. PoolInv => InStep
  <2> SUFFICES ASSUME PoolInv, NEW t \in Threads, NEW u \in Threads, AtWork(t), AtWork(u)
               PROVE  node[t] = node[u] /\ Side(t) = Side(u)
    BY DEF InStep
  <2>1. t \in Team /\ u \in Team
    BY InSection DEF AtWork, Working
  <2>2. PICK k \in Nodes, s \in Sides : OnSection(k, s)
    BY InSection DEF AtWork, Working
  <2>3. ASSUME NEW v \in Team, AtWork(v) PROVE node[v] = k /\ Side(v) = s
    BY <2>2, <2>3 DEF OnSection, At, Outside, Left, Meets, Looking, AtWork, Side
  <2> QED
    BY <2>1, <2>3
<1> QED
  BY <1>1, PoolInvariant, PTL

(* Between graphs no worker is inside one, so that ggml_graph_compute may  *)
(* reset what they share.                                                  *)
THEOREM NoWorkerLeftInside == SteadySpec => []NoWorkerInside
<1>1. PoolInv => NoWorkerInside
  <2> SUFFICES ASSUME PoolInv, pc[0] \in {"idle", "kick"}, NEW w \in Workers, Inside(w)
               PROVE  FALSE
    BY DEF NoWorkerInside
  <2>1. w \in Threads /\ w # 0
    BY PoolAssumption DEF Workers, Threads
  <2>2. w \in Team
    BY <2>1, InSection DEF Inside, AtWork, Working
  <2>3. Outside(w)
    BY <2>1, <2>2, CallerOut
  <2> QED
    BY <2>3 DEF Outside, Left, Looking, Inside, AtWork
<1> QED
  BY <1>1, PoolInvariant, PTL

-----------------------------------------------------------------------------
(* What is computed.  A thread is past its part of a section when it is on *)
(* its way to the barrier behind it, or waits there.                       *)
Past(t) == pc[t] \in {"enter", "arrive", "last", "release"} \/ Meets(t)

PartsOf(k) == 0 .. (IF k \in MulMats THEN NChunk(want) ELSE want) - 1

(* The nodes before are complete and those behind untouched; an abort is   *)
(* for this node, or for the next one.                                     *)
Around(k, s) ==
  /\ \A j \in Nodes : (j < k => done[j] = PartsOf(j)) /\ (j > k => done[j] = {})
  /\ \/ abort = -1
     \/ s = "front" /\ abort = k
     \/ abort = k + 1 /\ ~ (s = "front" /\ k \in MulMats)

(* A node that is cut by threads ...                                       *)
Plain(k) == k \notin MulMats /\ abort # k => done[k] = {t \in Team : Past(t)}

(* ... and one whose operand is converted, or at which the graph ends.     *)
Prepared(k) ==
  /\ k \in MulMats \/ abort = k => done[k] = {}
  /\ k \in MulMats /\ abort # k =>
       \A t \in Team : Past(t) => chunk[t] = t /\ (t = 0 => current_chunk = want)

(* Chunks below the counter are computed or in the hands of one thread,    *)
(* and a thread is past a product only when the counter is.                *)
Taken(k) ==
  /\ current_chunk >= want
  /\ \A p \in done[k] : p < current_chunk /\ p < NChunk(want)
  /\ \A t \in Team :
       IF Past(t) THEN current_chunk >= NChunk(want)
       ELSE /\ chunk[t] < current_chunk /\ chunk[t] \notin done[k]
            /\ \A u \in Team : u # t /\ ~ Past(u) => chunk[u] # chunk[t]
  /\ \A p \in Nat : p < NChunk(want) /\ p < current_chunk =>
       p \in done[k] \/ \E t \in Team : ~ Past(t) /\ chunk[t] = p

PartsOK(k, s) ==
  Around(k, s) /\ IF s = "front" THEN Plain(k) /\ Prepared(k) ELSE Taken(k)

(* The section of the graph is that of the caller.                         *)
Section(k, s) == (s = "chunks" => k \in MulMats) /\ At(0, k, s)

NthOK ==
  \A t \in Team : pc[t] \in (Working \ {"start"}) \cup {"spin"} => nth[t] = want

(* Between graphs all is as the last one has left it, or as it was reset.  *)
Whole == \A j \in Nodes : done[j] = IF abort < 0 \/ j < abort THEN PartsOf(j) ELSE {}

CallOK ==
  /\ (pc[0] = "idle" /\ n_graph > 0) \/ Left(0) => Whole
  /\ pc[0] \in {"kick", "publish"} => abort = -1 /\ \A j \in Nodes : done[j] = {}

(* The caller finds on its section, or between graphs, what it should.     *)
SectionsOK == CallOK /\ \A k \in Nodes, s \in Sides : Section(k, s) => PartsOK(k, s)

PartsInv == PoolInv /\ NthOK /\ ~ again /\ SectionsOK

-----------------------------------------------------------------------------
LEMMA NodesAreNat ==
  /\ NNodes \in Nat /\ \A k \in Nodes : k \in Nat /\ k < NNodes /\ k # k + 1
  /\ \A n \in Nat : NChunk(n) \in Nat
<1> QED
  BY PoolAssumption DEF Nodes, NChunk

LEMMA NotCalling ==
  ASSUME NEW k, NEW s, Section(k, s)
  PROVE  ~ Calling /\ pc[0] # "kick"
<1> QED
  BY DEF Section, At, Calling, Meets, Left, Outside, Looking

(* The caller is on one section at most.                                   *)
OneSection ==
  \A k \in Nodes, s \in Sides, k2 \in Nodes, s2 \in Sides :
    Section(k, s) /\ Section(k2, s2) => k2 = k /\ s2 = s

LEMMA SectionUnique == OneSection
<1> USE NodesAreNat
<1> SUFFICES ASSUME NEW k \in Nodes, NEW s \in Sides, NEW k2 \in Nodes, NEW s2 \in Sides,
                    Section(k, s), Section(k2, s2)
             PROVE  k2 = k /\ s2 = s
  BY DEF OneSection
<1>1. CASE pc[0] \in {"enter", "arrive", "last", "release"} \/ Meets(0)
  <2>1. Towards(0, k, s) /\ Towards(0, k2, s2)
    BY <1>1 DEF Section, At, Meets
  <2> QED
    BY <2>1 DEF Section, Towards, Sides
<1>2. CASE ~ (pc[0] \in {"enter", "arrive", "last", "release"} \/ Meets(0))
  BY <1>2 DEF Section, At, Sides
<1> QED
  BY <1>1, <1>2

LEMMA SectionUniqueNext == OneSection'
<1> QED
  BY SectionUnique, PTL

LEMMA SectionOfAll ==
  ASSUME PoolInv, NEW k \in Nodes, NEW s \in Sides
  PROVE  Section(k, s) <=> OnSection(k, s)
<1>1. 0 \in Team
  BY TeamFacts DEF PoolInv
<1>2. ASSUME OnSection(k, s) PROVE Section(k, s)
  BY <1>1, <1>2 DEF OnSection, Section
<1>3. ASSUME Section(k, s) PROVE OnSection(k, s)
  <2>1. PICK k2 \in Nodes, s2 \in Sides : OnSection(k2, s2)
    BY <1>3, NotCalling DEF PoolInv, GraphOK
  <2>2. Section(k2, s2)
    BY <1>1, <2>1 DEF OnSection, Section
  <2>3. k2 = k /\ s2 = s
    BY <1>3, <2>2, SectionUnique DEF OneSection
  <2> QED
    BY <2>1, <2>3
<1> QED
  BY <1>2, <1>3

(* The section that the caller is on after a step is the one to look at.   *)
LEMMA OnlySection ==
  ASSUME NEW k \in Nodes, NEW s \in Sides, Section(k, s)', PartsOK(k, s)'
  PROVE  SectionsOK'
<1>1. ASSUME NEW k2 \in Nodes, NEW s2 \in Sides, Section(k2, s2)' PROVE PartsOK(k2, s2)'
  <2>1. k2 = k /\ s2 = s
    BY <1>1, SectionUniqueNext DEF OneSection
  <2> QED
    BY <2>1
<1>2. CallOK'
  BY DEF CallOK, Section, At, Meets, Left, Outside, Looking
<1> QED
  BY <1>1, <1>2 DEF SectionsOK

(* What others have computed is as it was.                                 *)
LEMMA PartsSame ==
  ASSUME NEW k \in Nodes, NEW s \in Sides, PartsOK(k, s),
         UNCHANGED <<want, abort, current_chunk, chunk, done>>,
         \/ \A t \in Team : Past(t)' <=> Past(t)
         \/ s = "front" /\ abort = k
  PROVE  PartsOK(k, s)'
<1>1. Team' = Team /\ \A j : PartsOf(j)' = PartsOf(j)
  BY DEF Team, PartsOf, NChunk
<1>2. Around(k, s)'
  BY <1>1 DEF PartsOK, Around
<1>3. CASE s = "front" /\ abort = k
  <2>1. Plain(k)' /\ Prepared(k)'
    BY <1>3 DEF PartsOK, Plain, Prepared
  <2> QED
    BY <1>2, <1>3, <2>1 DEF PartsOK
<1>4. CASE s = "front" /\ abort # k /\ \A t \in Team : Past(t)' <=> Past(t)
  <2>1. {t \in Team : Past(t)}' = {t \in Team : Past(t)}
    BY <1>1, <1>4
  <2>2. Plain(k)'
    BY <1>4, <2>1 DEF PartsOK, Plain
  <2>3. Prepared(k)'
    BY <1>1, <1>4 DEF PartsOK, Prepared
  <2> QED
    BY <1>2, <1>4, <2>2, <2>3 DEF PartsOK
<1>5. CASE s # "front" /\ \A t \in Team : Past(t)' <=> Past(t)
  <2>1. Taken(k)'
    BY <1>1, <1>5 DEF PartsOK, Taken, NChunk
  <2> QED
    BY <1>2, <1>5, <2>1 DEF PartsOK
<1> QED
  BY <1>3, <1>4, <1>5

(* A step that neither the caller nor the parts notice.                    *)
LEMMA Unnoticed ==
  ASSUME SectionsOK, UNCHANGED <<want, n_graph, n_barrier_passed, abort, current_chunk, chunk, done>>,
         pc'[0] = pc[0], goal'[0] = goal[0], node'[0] = node[0], bar'[0] = bar[0],
         \A t \in Team : Past(t)' <=> Past(t)
  PROVE  SectionsOK'
<1>1. \A k \in Nodes, s \in Sides : Section(k, s)' => Section(k, s)
  BY DEF Section, At, Towards, Meets
<1>2. \A k \in Nodes, s \in Sides : Section(k, s)' => PartsOK(k, s)'
  BY <1>1, PartsSame DEF SectionsOK
<1>3. Left(0)' <=> Left(0)
  BY DEF Left
<1>4. \A j : PartsOf(j)' = PartsOf(j)
  BY DEF PartsOf, NChunk
<1>5. Whole' <=> Whole
  BY <1>4 DEF Whole
<1>6. CallOK'
  BY <1>3, <1>5 DEF SectionsOK, CallOK
<1> QED
  BY <1>2, <1>6 DEF SectionsOK

(* A thread in the graph knows how many threads compute it.                *)
LEMMA NthStep ==
  ASSUME PoolInv, NthOK, SteadyNext
  PROVE  NthOK'
<1> USE DEF planVars, barVars, workVars, seenVars
<1>1. pc \in [Threads -> Places] /\ nth \in [Threads -> 0 .. N] /\ Team \subseteq Threads
  BY TeamFacts DEF PoolInv, TypeOK
<1> DEFINE Inner == (Working \ {"start"}) \cup {"spin"}
<1>2. CASE Calls \/ Kickoff \/ Join
  <2>1. UNCHANGED <<want, nth>>
    BY <1>2 DEF Calls, Kickoff, Pause, Resume, Compute, Free, Kick, Publish, Wake, Join
  <2>2. \A t \in Threads : pc'[t] \in Inner => pc[t] = pc'[t]
    <3>1. ASSUME NEW place \in CallerOnly \cup {"start"}, Broadcast(place)
          PROVE  \A t \in Threads : pc'[t] \in Inner => pc[t] = pc'[t]
      BY <3>1 DEF Broadcast, CallerOnly, Working
    <3>2. CASE Compute \/ Kick \/ Publish \/ Join
      BY <1>1, <3>2 DEF Compute, Kick, Publish, Join, Goto, Working
    <3> QED
      BY <1>2, <3>1, <3>2 DEF Calls, Kickoff, Pause, Resume, Free, Wake, CallerOnly
  <2> QED
    BY <1>1, <2>1, <2>2 DEF NthOK, Team
<1>3. ASSUME NEW w \in Workers, Look(w) \/ WakeSpuriously(w) PROVE NthOK'
  <2>1. UNCHANGED <<want, nth>>
    BY <1>3 DEF Look, CheckPause, SleepPaused, CheckStop, PollGraph, PollActive, PollEnds,
       CheckLocked, WakeSpuriously
  <2>2. \A t \in Threads : pc'[t] \in Inner => pc[t] = pc'[t]
    BY <1>1, <1>3 DEF Look, CheckPause, SleepPaused, CheckStop, PollGraph, PollActive, PollEnds,
       CheckLocked, WakeSpuriously, Goto, Working
  <2> QED
    BY <1>1, <2>1, <2>2 DEF NthOK, Team
<1>4. ASSUME NEW t \in Threads, Work(t) PROVE NthOK'
  <2>1. want' = want
    BY <1>4 DEF Work, Start, Node, Forward, MulMat, NextChunk, OnlyChunk, NoChunk, Barrier,
       EnterBarrier, Arrive, ResetBarrier, ReleaseBarrier, LeaveBarrier
  <2>2. \A u \in Threads \ {t} : pc'[u] = pc[u] /\ nth'[u] = nth[u]
    BY <1>1, <1>4 DEF Work, Start, Node, Forward, MulMat, NextChunk, OnlyChunk, NoChunk, Leave,
       Barrier, EnterBarrier, Arrive, ResetBarrier, ReleaseBarrier, LeaveBarrier, Goto
  <2>3. CASE Start(t)
    <3>1. nth'[t] = want
      BY <1>1, <2>3, InSection DEF Start, Working
    <3> QED
      BY <1>1, <2>1, <2>2, <3>1 DEF NthOK, Team
  <2>4. CASE ~ Start(t)
    <3>1. nth' = nth /\ pc[t] \in Inner
      BY <1>4, <2>4 DEF Work, Node, Forward, MulMat, NextChunk, OnlyChunk, NoChunk, Barrier,
         EnterBarrier, Arrive, ResetBarrier, ReleaseBarrier, LeaveBarrier, Working
    <3> QED
      BY <1>1, <2>1, <2>2, <3>1 DEF NthOK, Team
  <2> QED
    BY <2>3, <2>4
<1> QED
  BY <1>2, <1>3, <1>4, Zenon DEF SteadyNext

-----------------------------------------------------------------------------
(* Between graphs the parts of the last one stay, until a graph is asked   *)
(* for.                                                                    *)
LEMMA CallParts ==
  ASSUME PoolInv, SectionsOK, Calls \/ Kick \/ Join
  PROVE  SectionsOK'
<1> USE DEF planVars, barVars, workVars, seenVars
<1>1. 0 \in Threads /\ pc \in [Threads -> Places] /\ pc[0] \in {"idle", "kick", "join"}
  BY TeamFacts DEF PoolInv, TypeOK, Calls, Pause, Resume, Compute, Free, Kick, Join
<1>2. pc'[0] \in {"idle", "kick", "publish", "join", "freed"}
      /\ (pc'[0] \in {"idle", "publish"} => pc[0] = IF pc'[0] = "idle" THEN "idle" ELSE "kick")
      /\ (pc'[0] = "kick" => Compute)
  BY <1>1 DEF Calls, Pause, Resume, Compute, Free, Kick, Join, Goto, Broadcast
<1>3. \A k \in Nodes, s \in Sides : ~ Section(k, s)'
  BY <1>2 DEF Section, At, Meets
<1>4. ~ Left(0)'
  BY <1>2 DEF Left
<1>5. CASE Compute
  <2>1. pc'[0] = "kick" /\ abort' = -1 /\ \A j \in Nodes : done'[j] = {}
    BY <1>1, <1>5 DEF Compute, Goto
  <2>2. CallOK'
    BY <1>4, <2>1 DEF CallOK
  <2> QED
    BY <1>3, <2>2 DEF SectionsOK
<1>6. CASE ~ Compute
  <2>1. UNCHANGED <<want, n_graph, abort, done>>
    BY <1>6 DEF Calls, Pause, Resume, Free, Kick, Join
  <2>2. Whole' <=> Whole
    <3>1. \A j : PartsOf(j)' = PartsOf(j)
      BY <2>1 DEF PartsOf, NChunk
    <3> QED
      BY <2>1, <3>1 DEF Whole
  <2>3. CallOK'
    BY <1>2, <1>4, <1>6, <2>1, <2>2 DEF CallOK, SectionsOK
  <2> QED
    BY <1>3, <2>3 DEF SectionsOK
<1> QED
  BY <1>5, <1>6

(* The graph starts with nothing computed and nobody past its first node.  *)
LEMMA PublishParts ==
  ASSUME PoolInv, SectionsOK, Publish
  PROVE  SectionsOK'
<1> USE DEF planVars, barVars, workVars, seenVars
<1>1. 0 \in Threads /\ pc \in [Threads -> Places] /\ Team \subseteq Threads
  BY TeamFacts DEF PoolInv, TypeOK
<1>2. pc[0] = "publish" /\ pc'[0] = "wake" /\ \A u \in Threads \ {0} : pc'[u] = pc[u]
  BY <1>1 DEF Publish, Goto
<1>3. UNCHANGED <<want, n_barrier_passed, bar, goal, abort, done>>
  BY DEF Publish
<1>4. abort' = -1 /\ \A j \in Nodes : done'[j] = {}
  BY <1>2, <1>3 DEF SectionsOK, CallOK
<1>5. ASSUME NEW t \in Team' PROVE ~ Past(t)'
  <2>1. t \in Team
    BY <1>3 DEF Team
  <2>2. t # 0 => Outside(t)
    BY <1>2, <2>1, CallerOut
  <2> QED
    BY <1>1, <1>2, <1>3, <2>1, <2>2 DEF Past, Meets, Outside, Left, Looking
<1>6. 0 \in Nodes /\ \A j \in Nodes : ~ (j < 0)
  BY PoolAssumption DEF Nodes
<1>7. Section(0, "front")'
  BY <1>2 DEF Section, At
<1>8. PartsOK(0, "front")'
  <2>1. Around(0, "front")'
    BY <1>4, <1>6 DEF Around
  <2>2. Plain(0)' /\ Prepared(0)'
    BY <1>4, <1>5, <1>6 DEF Plain, Prepared
  <2> QED
    BY <2>1, <2>2 DEF PartsOK
<1> QED
  BY <1>6, <1>7, <1>8, OnlySection DEF Sides

LEMMA WakeParts ==
  ASSUME PoolInv, SectionsOK, Wake
  PROVE  SectionsOK'
<1> USE DEF planVars, barVars, workVars, seenVars
<1>1. 0 \in Threads /\ pc \in [Threads -> Places] /\ Team \subseteq Threads
  BY TeamFacts DEF PoolInv, TypeOK
<1>2. pc[0] = "wake" /\ pc'[0] = "start" /\ Broadcast("start")
      /\ UNCHANGED <<want, n_barrier_passed, bar, goal, node, abort, current_chunk, chunk, done>>
  BY <1>1 DEF Wake, Broadcast
<1>3. PICK k \in Nodes, s \in Sides : OnSection(k, s)
  BY <1>2 DEF PoolInv, GraphOK, Calling, Left
<1>4. Section(k, s)
  BY <1>3, SectionOfAll
<1>5. k = 0 /\ s = "front"
  BY <1>2, <1>4 DEF Section, At, Meets
<1>6. Section(k, s)'
  BY <1>2, <1>5 DEF Section, At
<1>7. \A t \in Team : Past(t)' <=> Past(t)
  BY <1>1, <1>2 DEF Past, Meets, Broadcast
<1>8. PartsOK(k, s)'
  BY <1>2, <1>4, <1>7, PartsSame DEF SectionsOK
<1> QED
  BY <1>6, <1>8, OnlySection

LEMMA LookParts ==
  ASSUME PoolInv, SectionsOK, NEW w \in Workers, Look(w) \/ WakeSpuriously(w)
  PROVE  SectionsOK'
<1> USE DEF planVars, barVars, workVars, seenVars
<1>1. w \in Threads /\ w # 0 /\ 0 \in Threads /\ Team \subseteq Threads /\ pc \in [Threads -> Places]
  <2>1. w \in Threads /\ w # 0
    BY PoolAssumption DEF Workers, Threads
  <2> QED
    BY <2>1, TeamFacts DEF PoolInv, TypeOK
<1>2. UNCHANGED <<want, n_graph, n_barrier_passed, abort, current_chunk, chunk, done, goal, node, bar>>
  BY DEF Look, CheckPause, SleepPaused, CheckStop, PollGraph, PollActive, PollEnds, CheckLocked,
     WakeSpuriously
<1>3. \A u \in Threads : pc'[u] = pc[u] \/ {pc[u], pc'[u]} \subseteq Looking \cup {"start"}
  BY <1>1 DEF Look, CheckPause, SleepPaused, CheckStop, PollGraph, PollActive, PollEnds, CheckLocked,
     WakeSpuriously, Goto, Looking
<1>4. pc'[0] = pc[0]
  BY <1>1 DEF Look, CheckPause, SleepPaused, CheckStop, PollGraph, PollActive, PollEnds, CheckLocked,
     WakeSpuriously, Goto
<1>5. \A t \in Team : Past(t)' <=> Past(t)
  BY <1>1, <1>2, <1>3 DEF Past, Meets, Looking
<1> QED
  BY <1>2, <1>4, <1>5, Unnoticed

-----------------------------------------------------------------------------
(* In the barrier nothing is computed.                                     *)
LEMMA MeetParts ==
  ASSUME PoolInv, SectionsOK, NEW t \in Threads,
         (EnterBarrier(t) /\ want # 1) \/ Arrive(t) \/ ResetBarrier(t)
  PROVE  SectionsOK'
<1> USE DEF planVars, barVars, workVars, seenVars
<1>1. 0 \in Threads /\ pc \in [Threads -> Places] /\ Team \subseteq Threads
      /\ bar \in [Threads -> [n : 0 .. N, passed : Nat]]
  BY TeamFacts DEF PoolInv, TypeOK
<1>2. pc[t] \in {"enter", "arrive", "last"}
  BY DEF EnterBarrier, Arrive, ResetBarrier
<1>3. t \in Team /\ n_threads_cur = want
  BY <1>2, InSection DEF Working
<1>4. PICK k \in Nodes, s \in Sides : OnSection(k, s)
  BY <1>2, InSection DEF Working
<1>5. Section(k, s)
  BY <1>4, SectionOfAll
<1>6. UNCHANGED <<want, n_graph, n_barrier_passed, abort, current_chunk, chunk, done, goal, node,
                  last_graph>>
      /\ \A u \in Threads \ {t} : pc'[u] = pc[u] /\ bar'[u] = bar[u]
  BY <1>1 DEF EnterBarrier, Arrive, ResetBarrier, Goto
<1>7. Past(t)'
  <2>1. CASE EnterBarrier(t) /\ want # 1
    BY <1>1, <1>3, <2>1 DEF EnterBarrier, Goto, Past
  <2>2. CASE Arrive(t)
    BY <1>1, <1>3, <2>2 DEF Arrive, Goto, Past, Meets, PoolInv, PlaceOK
  <2>3. CASE ResetBarrier(t)
    BY <1>1, <2>3 DEF ResetBarrier, Goto, Past
  <2> QED
    BY <2>1, <2>2, <2>3
<1>8. \A u \in Team : Past(u)' <=> Past(u)
  <2>1. Past(t)
    BY <1>2 DEF Past
  <2>2. ASSUME NEW u \in Team, u # t PROVE Past(u)' <=> Past(u)
    BY <1>1, <1>6, <2>2 DEF Past, Meets
  <2> QED
    BY <1>7, <2>1, <2>2
<1>9. PartsOK(k, s)'
  BY <1>5, <1>6, <1>8, PartsSame DEF SectionsOK
<1>10. Section(k, s)'
  <2>1. CASE t = 0
    <3>1. Towards(0, k, s)
      BY <1>2, <1>5, <2>1 DEF Section, At, Meets
    <3> QED
      BY <1>5, <1>6, <1>7, <2>1, <3>1 DEF Section, At, Past, Towards, Meets
  <2>2. CASE t # 0
    BY <1>1, <1>5, <1>6, <2>2 DEF Section, At, Towards, Meets
  <2> QED
    BY <2>1, <2>2
<1> QED
  BY <1>9, <1>10, OnlySection

(* All have done their parts of a section: it is complete.                 *)
LEMMA Completed ==
  ASSUME PoolInv, NEW k \in Nodes, NEW s \in Sides, PartsOK(k, s), s = "chunks" => k \in MulMats,
         \A t \in Team : Past(t)
  PROVE  IF s = "front" /\ (k \in MulMats \/ abort = k) THEN done[k] = {} ELSE done[k] = PartsOf(k)
<1>1. want \in Nat /\ want >= 1 /\ done[k] \in SUBSET Nat /\ current_chunk \in Nat
      /\ NChunk(want) \in Nat
  BY TeamFacts, NodesAreNat DEF PoolInv, TypeOK
<1>2. CASE s = "front"
  <2>1. {t \in Team : Past(t)} = Team
    OBVIOUS
  <2> QED
    BY <1>2, <2>1 DEF PartsOK, Plain, Prepared, PartsOf, Team
<1>3. CASE s = "chunks"
  <2>1. 0 \in Team /\ Taken(k)
    BY <1>3, TeamFacts DEF PoolInv, PartsOK
  <2>2. current_chunk >= NChunk(want)
    BY <2>1 DEF Taken
  <2>3. ASSUME NEW p \in Nat, p < NChunk(want) PROVE p \in done[k]
    <3>1. p < current_chunk
      BY <1>1, <2>2, <2>3
    <3> QED
      BY <2>1, <2>3, <3>1 DEF Taken
  <2>4. \A p \in done[k] : p \in Nat /\ p < NChunk(want)
    BY <1>1, <2>1 DEF Taken
  <2>5. \A p : p \in 0 .. NChunk(want) - 1 <=> p \in Nat /\ p < NChunk(want)
    BY <1>1
  <2>6. done[k] = 0 .. NChunk(want) - 1
    BY <2>3, <2>4, <2>5
  <2> QED
    BY <1>3, <2>6 DEF PartsOf
<1> QED
  BY <1>2, <1>3 DEF Sides

(* Behind a barrier that all have reached: the caller is on the next       *)
(* section, or at the end, and nobody has done anything yet.               *)
LEMMA Advance ==
  ASSUME PoolInv, SectionsOK, NEW k \in Nodes, NEW s \in Sides, Section(k, s),
         \A t \in Team : Past(t), \A t \in Team : ~ Past(t)',
         UNCHANGED <<want, abort, current_chunk, chunk, done>>,
         Final(k, s) => pc'[0] = "idle" \/ Left(0)',
         ~ Final(k, s) => /\ Section(NextNode(k, s), NextSide(k, s))'
                          /\ NextNode(k, s) \in Nodes /\ NextSide(k, s) \in Sides
  PROVE  SectionsOK'
<1>1. PartsOK(k, s) /\ (s = "chunks" => k \in MulMats) /\ Around(k, s)
  BY DEF SectionsOK, Section, PartsOK
<1>2. IF s = "front" /\ (k \in MulMats \/ abort = k) THEN done[k] = {} ELSE done[k] = PartsOf(k)
  BY <1>1, Completed
<1>3. Team' = Team /\ \A j : PartsOf(j)' = PartsOf(j)
  BY DEF Team, PartsOf, NChunk
<1>4. NNodes \in Nat /\ \A j \in Nodes : j \in Nat /\ j < NNodes
  BY NodesAreNat
<1>5. abort \in Int /\ want \in Nat /\ want >= 1
  BY PoolAssumption, TeamFacts DEF PoolInv, TypeOK
<1>6. CASE Final(k, s)
  <2>1. ASSUME NEW j \in Nodes
        PROVE  done[j] = IF abort < 0 \/ j < abort THEN PartsOf(j) ELSE {}
    <3>1. CASE s = "front" /\ abort = k
      <4>1. done[k] = {} /\ ~ (abort < 0)
        BY <1>2, <1>4, <3>1
      <4>2. (j < k => done[j] = PartsOf(j)) /\ (j > k => done[j] = {}) /\ (j < k \/ j = k \/ j > k)
        BY <1>1, <1>4, <2>1 DEF Around
      <4> QED
        BY <1>4, <2>1, <3>1, <4>1, <4>2
    <3>2. CASE ~ (s = "front" /\ abort = k)
      <4>1. ~ (s = "front" /\ k \in MulMats) /\ k + 1 >= NNodes
        BY <1>6, <3>2 DEF Final
      <4>2. done[k] = PartsOf(k) /\ j <= k /\ (abort = -1 \/ abort = k + 1)
        BY <1>1, <1>2, <1>4, <2>1, <3>2, <4>1 DEF Around
      <4> QED
        BY <1>1, <1>4, <2>1, <4>2 DEF Around
    <3> QED
      BY <3>1, <3>2
  <2>2. Whole'
    BY <1>3, <2>1 DEF Whole
  <2>3. CallOK'
    BY <1>6, <2>2 DEF CallOK, Left
  <2>4. \A k2 \in Nodes, s2 \in Sides : ~ Section(k2, s2)'
    BY <1>6 DEF Section, At, Meets, Left
  <2> QED
    BY <2>3, <2>4 DEF SectionsOK
<1>7. CASE ~ Final(k, s) /\ s = "front" /\ k \in MulMats
  <2>1. NextNode(k, s) = k /\ NextSide(k, s) = "chunks" /\ abort # k
    BY <1>7 DEF Final, NextNode, NextSide
  <2>2. abort = -1 /\ done[k] = {} /\ Prepared(k)
    BY <1>1, <1>2, <1>7, <2>1 DEF Around, PartsOK
  <2>3. \A t \in Team : chunk[t] = t
    BY <1>7, <2>1, <2>2 DEF Prepared
  <2>4. current_chunk = want
    BY <1>7, <2>1, <2>2, TeamFacts DEF Prepared, PoolInv
  <2>5. Around(k, "chunks")'
    BY <1>1, <1>3, <2>2 DEF Around
  <2>6. ASSUME NEW p \in Nat, p < want PROVE p \in Team
    BY <1>5, <2>6 DEF Team
  <2>7. \A t \in Team : t < want
    BY <1>5 DEF Team
  <2>8. Taken(k)'
    <3>1. current_chunk' >= want'
      BY <1>5, <2>4
    <3>2. \A p \in done'[k] : p < current_chunk' /\ p < NChunk(want)'
      BY <2>2
    <3>3. \A t \in Team' :
            IF Past(t)' THEN current_chunk' >= NChunk(want)'
            ELSE /\ chunk'[t] < current_chunk' /\ chunk'[t] \notin done'[k]
                 /\ \A u \in Team' : u # t /\ ~ Past(u)' => chunk'[u] # chunk'[t]
      BY <1>3, <2>2, <2>3, <2>4, <2>7
    <3>4. \A p \in Nat : p < NChunk(want)' /\ p < current_chunk' =>
            p \in done'[k] \/ \E t \in Team' : ~ Past(t)' /\ chunk'[t] = p
      BY <1>3, <2>3, <2>4, <2>6
    <3> QED
      BY <3>1, <3>2, <3>3, <3>4 DEF Taken
  <2>9. PartsOK(k, "chunks")'
    BY <2>5, <2>8 DEF PartsOK
  <2> QED
    BY <1>7, <2>1, <2>9, OnlySection
<1>8. CASE ~ Final(k, s) /\ ~ (s = "front" /\ k \in MulMats)
  <2>1. NextNode(k, s) = k + 1 /\ NextSide(k, s) = "front" /\ ~ (s = "front" /\ abort = k)
        /\ k + 1 \in Nodes
    BY <1>8 DEF Final, NextNode, NextSide
  <2>2. abort = -1 \/ abort = k + 1
    BY <1>1, <2>1 DEF Around
  <2>3. done[k] = PartsOf(k) /\ done[k + 1] = {}
    BY <1>1, <1>2, <1>4, <1>8, <2>1 DEF Around
  <2>4. ASSUME NEW j \in Nodes
        PROVE  (j < k + 1 => done[j] = PartsOf(j)) /\ (j > k + 1 => done[j] = {})
    BY <1>1, <1>4, <2>3, <2>4 DEF Around
  <2>5. Around(k + 1, "front")'
    BY <1>3, <2>2, <2>4 DEF Around
  <2>6. Plain(k + 1)' /\ Prepared(k + 1)'
    BY <1>3, <2>3 DEF Plain, Prepared
  <2>7. PartsOK(k + 1, "front")'
    BY <2>5, <2>6 DEF PartsOK
  <2> QED
    BY <1>8, <2>1, <2>7, OnlySection
<1> QED
  BY <1>6, <1>7, <1>8

(* The caller behind the barrier of a section, let out or gone on.         *)
LEMMA CallerAhead ==
  ASSUME NEW k \in Nodes, NEW s \in Sides, Towards(0, k, s), UNCHANGED <<abort, goal, node>>,
         \/ pc'[0] = IF goal[0] # "end" THEN goal[0] ELSE "idle"
         \/ pc'[0] = "spin" /\ bar'[0].passed # n_barrier_passed'
  PROVE  /\ Final(k, s) => pc'[0] = "idle" \/ Left(0)'
         /\ ~ Final(k, s) => /\ Section(NextNode(k, s), NextSide(k, s))'
                             /\ NextNode(k, s) \in Nodes /\ NextSide(k, s) \in Sides
<1>1. CASE Final(k, s)
  BY <1>1, Onward DEF Left
<1>2. CASE ~ Final(k, s)
  <2> DEFINE k2 == NextNode(k, s)
  <2> DEFINE s2 == NextSide(k, s)
  <2>1. k2 \in Nodes /\ s2 \in Sides /\ (s2 = "chunks" => k2 \in MulMats)
        /\ node[0] = k2 /\ goal[0] = Entry(s2)
    BY <1>2, Onward
  <2>2. k2' = k2 /\ s2' = s2
    BY DEF NextNode, NextSide
  <2> HIDE DEF k2, s2
  <2>3. Section(k2, s2)'
    BY <2>1, <2>2 DEF Section, At, Entry, Sides
  <2> QED
    BY <1>2, <2>1, <2>3 DEF k2, s2
<1> QED
  BY <1>1, <1>2

LEMMA AloneParts ==
  ASSUME PoolInv, SectionsOK, NEW t \in Threads, EnterBarrier(t), want = 1
  PROVE  SectionsOK'
<1> USE DEF planVars, workVars, seenVars
<1>1. pc \in [Threads -> Places] /\ goal \in [Threads -> {"chunks", "node", "end"}]
  BY DEF PoolInv, TypeOK
<1>2. pc[t] = "enter" /\ t \in Team /\ n_threads_cur = 1 /\ t \in Nat
  BY InSection, TeamFacts DEF Working, EnterBarrier, PoolInv
<1>3. t = 0 /\ Team = {0}
  BY <1>2, TeamFacts DEF Team, PoolInv
<1>4. PICK k \in Nodes, s \in Sides : OnSection(k, s)
  BY <1>2, InSection DEF Working
<1>5. Section(k, s) /\ Towards(0, k, s)
  BY <1>2, <1>3, <1>4, SectionOfAll DEF OnSection, At, Outside, Left, Looking
<1>6. UNCHANGED <<want, abort, current_chunk, chunk, done, goal, node>>
  BY DEF EnterBarrier
<1>7. pc'[0] = IF goal[0] # "end" THEN goal[0] ELSE "idle"
  BY <1>1, <1>2, <1>3 DEF EnterBarrier, Goto, Exit
<1>8. \A u \in Team : Past(u) /\ ~ Past(u)'
  BY <1>1, <1>2, <1>3, <1>7 DEF Past, Meets
<1> QED
  BY <1>5, <1>6, <1>7, <1>8, Advance, CallerAhead

LEMMA ReleaseParts ==
  ASSUME PoolInv, SectionsOK, NEW t \in Threads, ReleaseBarrier(t)
  PROVE  SectionsOK'
<1> USE DEF planVars, workVars, seenVars
<1>1. pc \in [Threads -> Places] /\ goal \in [Threads -> {"chunks", "node", "end"}]
      /\ n_barrier_passed \in Nat /\ Team \subseteq Threads /\ 0 \in Team
  BY TeamFacts DEF PoolInv, TypeOK
<1>2. pc[t] = "release" /\ t \in Team
  BY InSection DEF Working, ReleaseBarrier
<1>3. PICK k \in Nodes, s \in Sides : OnSection(k, s)
  BY <1>2, InSection DEF Working
<1>4. \A u \in Team : u # t => Meets(u)
  BY <1>2 DEF PoolInv, BarrierOK, Completes, Meets
<1>5. \A u \in Team : Past(u)
  BY <1>2, <1>4 DEF Past
<1>6. Section(k, s) /\ Towards(0, k, s)
  BY <1>1, <1>3, <1>5, SectionOfAll DEF OnSection, At, Past, Outside, Left, Looking, Meets
<1>7. UNCHANGED <<want, abort, current_chunk, chunk, done, goal, node, bar>>
      /\ n_barrier_passed' = n_barrier_passed + 1
  BY DEF ReleaseBarrier
<1>8. pc'[t] = (IF goal[t] # "end" THEN goal[t] ELSE IF t = 0 THEN "idle" ELSE "top")
      /\ \A u \in Threads \ {t} : pc'[u] = pc[u]
  BY <1>1 DEF ReleaseBarrier, Goto, Exit
<1>9. \A u \in Team : u # t => pc'[u] = "spin" /\ bar'[u].passed # n_barrier_passed'
  BY <1>1, <1>4, <1>7, <1>8 DEF Meets
<1>10. \A u \in Team : ~ Past(u)'
  BY <1>1, <1>2, <1>8, <1>9 DEF Past, Meets
<1>11. \/ pc'[0] = IF goal[0] # "end" THEN goal[0] ELSE "idle"
       \/ pc'[0] = "spin" /\ bar'[0].passed # n_barrier_passed'
  BY <1>1, <1>8, <1>9
<1> QED
  BY <1>5, <1>6, <1>7, <1>10, <1>11, Advance, CallerAhead

LEMMA LeaveParts ==
  ASSUME PoolInv, SectionsOK, NEW t \in Threads, LeaveBarrier(t)
  PROVE  SectionsOK'
<1> USE DEF planVars, barVars, workVars, seenVars
<1>1. pc \in [Threads -> Places] /\ goal \in [Threads -> {"chunks", "node", "end"}]
      /\ Team \subseteq Threads /\ 0 \in Team
  BY TeamFacts DEF PoolInv, TypeOK
<1>2. pc[t] = "spin" /\ bar[t].passed # n_barrier_passed
      /\ pc'[t] = (IF goal[t] # "end" THEN goal[t] ELSE IF t = 0 THEN "idle" ELSE "top")
      /\ \A u \in Threads \ {t} : pc'[u] = pc[u]
  BY <1>1 DEF LeaveBarrier, Goto, Exit
<1>3. UNCHANGED <<want, n_graph, n_barrier_passed, abort, current_chunk, chunk, done, goal, node, bar>>
  BY DEF LeaveBarrier
<1>4. \A u \in Team : Past(u)' <=> Past(u)
  BY <1>1, <1>2, <1>3 DEF Past, Meets
<1>5. CASE t # 0
  BY <1>1, <1>2, <1>3, <1>4, <1>5, Unnoticed
<1>6. CASE t = 0 /\ goal[0] = "end"
  <2>1. Left(0) /\ pc'[0] = "idle"
    BY <1>2, <1>6 DEF Left
  <2>2. Whole'
    <3>1. Whole /\ \A j : PartsOf(j)' = PartsOf(j)
      BY <1>3, <2>1 DEF SectionsOK, CallOK, PartsOf, NChunk
    <3> QED
      BY <1>3, <3>1 DEF Whole
  <2>3. CallOK' /\ \A k \in Nodes, s \in Sides : ~ Section(k, s)'
    BY <2>1, <2>2 DEF CallOK, Section, At, Meets
  <2> QED
    BY <2>3 DEF SectionsOK
<1>7. CASE t = 0 /\ goal[0] # "end"
  <2>1. PICK k \in Nodes, s \in Sides : OnSection(k, s)
    BY <1>2, <1>7 DEF PoolInv, GraphOK, Calling, Left
  <2>2. Section(k, s)
    BY <2>1, SectionOfAll
  <2>3. node[0] = k /\ goal[0] = Entry(s)
    BY <1>2, <1>7, <2>2 DEF Section, At, Meets, Entry
  <2>4. Section(k, s)'
    BY <1>2, <1>3, <1>7, <2>2, <2>3 DEF Section, At, Entry, Sides
  <2>5. PartsOK(k, s)'
    BY <1>3, <1>4, <2>2, PartsSame DEF SectionsOK
  <2> QED
    BY <2>4, <2>5, OnlySection
<1> QED
  BY <1>5, <1>6, <1>7

-----------------------------------------------------------------------------
(* A thread that works on its section: the others and the caller's section *)
(* stay.                                                                   *)
LEMMA OperateFrame ==
  ASSUME PoolInv, NEW t \in Threads, NEW k \in Nodes, NEW s \in Sides, OnSection(k, s), Operate(t)
  PROVE  /\ Section(k, s)' /\ t \in Team /\ Team' = Team /\ want' = want
         /\ ~ Past(t) /\ (Past(t)' <=> pc'[t] = "enter")
         /\ \A u \in Team : u # t => (Past(u)' <=> Past(u))
<1>1. /\ At(t, k, s)' /\ pc'[t] \in {"node", "forward", "chunks", "enter"}
      /\ pc[t] \in {"start", "node", "forward", "chunks"}
      /\ s = "front" => (abort' = k <=> abort = k)
  BY OperateStays, NodesAreNat
<1>2. t \in Team /\ Team \subseteq Threads /\ 0 \in Team
  BY <1>1, InSection, TeamFacts DEF Working, PoolInv
<1>3. /\ \A u \in Threads \ {t} : Still(u) /\ pc'[u] = pc[u]
      /\ UNCHANGED <<want, n_graph, n_barrier_passed, bar>>
  BY OperateStill
<1>4. At(0, k, s)'
  BY <1>1, <1>2, <1>3, StillAt DEF OnSection, Steady
<1>5. Section(k, s)'
  BY <1>4 DEF OnSection, Section
<1>6. ~ Past(t) /\ (Past(t)' <=> pc'[t] = "enter")
  BY <1>1 DEF Past, Meets
<1>7. \A u \in Team : u # t => (Past(u)' <=> Past(u))
  BY <1>2, <1>3 DEF Past, Meets
<1> QED
  BY <1>2, <1>3, <1>5, <1>6, <1>7 DEF Team

(* A step that computes a part of the section, or says that the next node  *)
(* is the end.                                                             *)
LEMMA AroundStays ==
  ASSUME NEW k \in Nodes, NEW s \in Sides, Around(k, s), want' = want,
         \A j \in Nodes : j # k => done'[j] = done[j],
         abort' = abort \/ (abort' = k + 1 /\ (s = "front" => abort # k /\ k \notin MulMats))
  PROVE  Around(k, s)'
<1>1. \A j : PartsOf(j)' = PartsOf(j)
  BY DEF PartsOf, NChunk
<1>2. \A j \in Nodes : (j < k => done'[j] = PartsOf(j)') /\ (j > k => done'[j] = {})
  <2>1. ASSUME NEW j \in Nodes PROVE (j < k => done'[j] = PartsOf(j)') /\ (j > k => done'[j] = {})
    <3>1. j \in Nat /\ k \in Nat
      BY NodesAreNat
    <3>2. j < k \/ j > k => j # k
      BY <3>1
    <3> QED
      BY <1>1, <2>1, <3>2 DEF Around
  <2> QED
    BY <2>1
<1>3. \/ abort' = -1
      \/ s = "front" /\ abort' = k
      \/ abort' = k + 1 /\ ~ (s = "front" /\ k \in MulMats)
  BY DEF Around
<1> QED
  BY <1>2, <1>3 DEF Around

(* Where the parts of a node are.                                          *)
LEMMA PartComputed ==
  ASSUME TypeOK, NEW t \in Threads, NEW p, ComputePart(t, p), node[t] \in Nodes
  PROVE  /\ done'[node[t]] = done[node[t]] \cup {p}
         /\ \A j \in Nodes : j # node[t] => done'[j] = done[j]
         /\ ~ again /\ p \notin done[node[t]] => ~ again'
<1>1. done \in [Nodes -> SUBSET Nat]
  BY DEF TypeOK
<1>2. /\ done'[node[t]] = done[node[t]] \cup {p}
      /\ \A j \in Nodes : j # node[t] => done'[j] = done[j]
  BY <1>1 DEF ComputePart
<1>3. ~ again /\ p \notin done[node[t]] => ~ again'
  BY Zenon DEF ComputePart
<1> QED
  BY <1>2, <1>3

(* The loop head, and a thread that leaves the graph after an abort.       *)
LEMMA HeadParts ==
  ASSUME PoolInv, ~ again, NEW t \in Threads, NEW k \in Nodes, NEW s \in Sides, OnSection(k, s),
         PartsOK(k, s), Start(t) \/ Node(t)
  PROVE  ~ again' /\ PartsOK(k, s)'
<1>1. Operate(t)
  BY DEF Operate
<1>2. ~ again'
  BY Zenon DEF Start, Node
<1>3. UNCHANGED <<want, abort, current_chunk, chunk, done>>
  BY DEF Start, Node, planVars
<1>4. pc'[t] # "enter" \/ (s = "front" /\ abort = k)
  <2>1. CASE Start(t)
    BY <2>1 DEF Start, Goto, PoolInv, TypeOK
  <2>2. CASE Node(t)
    <3>1. pc[t] = "node"
      BY <2>2 DEF Node
    <3> QED
      BY <1>1, <2>2, <3>1, OperateStays DEF Sides
  <2> QED
    BY <2>1, <2>2
<1>5. (\A u \in Team : Past(u)' <=> Past(u)) \/ (s = "front" /\ abort = k)
  BY <1>1, <1>4, OperateFrame
<1> QED
  BY <1>2, <1>3, <1>5, PartsSame

LEMMA ForwardParts ==
  ASSUME PoolInv, ~ again, NEW t \in Threads, NEW k \in Nodes, NEW s \in Sides, OnSection(k, s),
         PartsOK(k, s), Forward(t)
  PROVE  ~ again' /\ PartsOK(k, s)'
<1>1. Operate(t) /\ pc[t] = "forward" /\ node[t] \notin MulMats
  BY DEF Operate, Forward
<1>2. /\ node[t] = k /\ s = "front" /\ abort # k
      /\ abort' = abort \/ (abort' = k + 1 /\ (s = "front" => abort # k /\ k \notin MulMats))
  BY <1>1, OperateStays DEF Sides
<1>3. /\ t \in Team /\ Team' = Team /\ want' = want /\ ~ Past(t)
      /\ \A u \in Team : u # t => (Past(u)' <=> Past(u))
  BY <1>1, OperateFrame
<1>4. Past(t)'
  BY DEF Forward, Leave, Goto, Past, PoolInv, TypeOK
<1>5. done[k] = {u \in Team : Past(u)} /\ Around(k, s)
  BY <1>1, <1>2 DEF PartsOK, Plain
<1>6. /\ done'[k] = done[k] \cup {t} /\ \A j \in Nodes : j # k => done'[j] = done[j]
      /\ t \notin done[k] => ~ again'
  BY <1>2, PartComputed DEF Forward, PoolInv
<1>7. ~ again'
  BY <1>3, <1>5, <1>6
<1>8. Around(k, s)'
  BY <1>2, <1>3, <1>5, <1>6, AroundStays
<1>9. done'[k] = {u \in Team : Past(u)}'
  BY <1>3, <1>4, <1>5, <1>6
<1>10. abort' # k
  BY <1>2, NodesAreNat
<1>11. Plain(k)' /\ Prepared(k)'
  BY <1>1, <1>2, <1>9, <1>10 DEF Plain, Prepared
<1> QED
  BY <1>2, <1>7, <1>8, <1>11 DEF PartsOK

LEMMA MulMatParts ==
  ASSUME PoolInv, NthOK, ~ again, NEW t \in Threads, NEW k \in Nodes, NEW s \in Sides,
         OnSection(k, s), PartsOK(k, s), MulMat(t)
  PROVE  ~ again' /\ PartsOK(k, s)'
<1>1. Operate(t) /\ pc[t] = "forward" /\ node[t] \in MulMats
  BY DEF Operate, MulMat
<1>2. node[t] = k /\ s = "front" /\ abort # k
  BY <1>1, OperateStays DEF Sides
<1>3. /\ t \in Team /\ Team' = Team /\ want' = want /\ ~ Past(t)
      /\ \A u \in Team : u # t => (Past(u)' <=> Past(u))
  BY <1>1, OperateFrame
<1>4. ~ again'
  BY Zenon DEF MulMat
<1>5. UNCHANGED <<abort, done>>
  BY DEF MulMat
<1>6. Around(k, s)'
  BY <1>3, <1>5, AroundStays DEF PartsOK
<1>7. nth[t] = want /\ chunk \in [Threads -> Nat] /\ Team \subseteq Threads
  BY <1>1, <1>3, TeamFacts DEF NthOK, Working, PoolInv, TypeOK
<1>8. /\ chunk'[t] = t /\ \A u \in Threads : u # t => chunk'[u] = chunk[u]
      /\ current_chunk' = IF t = 0 THEN want ELSE current_chunk
  BY <1>7 DEF MulMat
<1>9. \A u \in Team' : Past(u)' => chunk'[u] = u /\ (u = 0 => current_chunk' = want')
  BY <1>1, <1>2, <1>3, <1>7, <1>8 DEF PartsOK, Prepared
<1>10. Prepared(k)'
  BY <1>1, <1>2, <1>5, <1>9 DEF PartsOK, Prepared
<1>11. Plain(k)'
  BY <1>1, <1>2 DEF Plain
<1> QED
  BY <1>2, <1>4, <1>6, <1>10, <1>11 DEF PartsOK

(* The counter gives a chunk to one thread only.                           *)
LEMMA NextChunkParts ==
  ASSUME PoolInv, NthOK, ~ again, NEW t \in Threads, NEW k \in Nodes, NEW s \in Sides,
         OnSection(k, s), PartsOK(k, s), NextChunk(t)
  PROVE  ~ again' /\ PartsOK(k, s)'
<1>1. Operate(t) /\ pc[t] = "chunks"
  BY DEF Operate, NextChunk
<1>2. node[t] = k /\ s = "chunks"
  BY <1>1, OperateStays DEF Sides
<1>3. /\ t \in Team /\ Team' = Team /\ want' = want /\ ~ Past(t)
      /\ \A u \in Team : u # t => (Past(u)' <=> Past(u))
  BY <1>1, OperateFrame
<1>4. /\ chunk \in [Threads -> Nat] /\ Team \subseteq Threads /\ current_chunk \in Nat
      /\ want \in Nat /\ NChunk(want) \in Nat /\ done[k] \in SUBSET Nat
  BY TeamFacts, NodesAreNat DEF PoolInv, TypeOK
<1>5. nth[t] = want
  BY <1>1, <1>3 DEF NthOK, Working
<1>6. /\ chunk[t] < NChunk(want) /\ abort' = abort /\ pc' = pc
      /\ chunk'[t] = current_chunk /\ \A u \in Threads : u # t => chunk'[u] = chunk[u]
      /\ current_chunk' = current_chunk + 1
  BY <1>4, <1>5 DEF NextChunk
<1>7. Taken(k) /\ Around(k, s)
  BY <1>2 DEF PartsOK
<1>8. /\ chunk[t] < current_chunk /\ chunk[t] \notin done[k]
      /\ \A u \in Team : u # t /\ ~ Past(u) => chunk[u] # chunk[t]
  BY <1>3, <1>7 DEF Taken
<1>9. /\ done'[k] = done[k] \cup {chunk[t]} /\ \A j \in Nodes : j # k => done'[j] = done[j]
      /\ ~ again'
  BY <1>2, <1>8, PartComputed DEF NextChunk, PoolInv
<1>10. Around(k, s)'
  BY <1>3, <1>6, <1>7, <1>9, AroundStays
<1>11. ~ Past(t)'
  BY <1>1, <1>6 DEF Past, Meets
<1>12. \A u \in Team : chunk[u] \in Nat
  BY <1>4
<1>13. Taken(k)'
  <2>1. current_chunk' >= want' /\ NChunk(want)' = NChunk(want)
    BY <1>3, <1>4, <1>6, <1>7 DEF Taken, NChunk
  <2>2. \A p \in done'[k] : p < current_chunk' /\ p < NChunk(want)
    BY <1>4, <1>6, <1>7, <1>8, <1>9 DEF Taken
  <2>3. ASSUME NEW u \in Team
        PROVE  IF Past(u)' THEN current_chunk' >= NChunk(want)
               ELSE /\ chunk'[u] < current_chunk' /\ chunk'[u] \notin done'[k]
                    /\ \A v \in Team : v # u /\ ~ Past(v)' => chunk'[v] # chunk'[u]
    <3>1. CASE u = t
      <4>1. current_chunk \notin done'[k]
        BY <1>4, <1>7, <1>8, <1>9, <1>12 DEF Taken
      <4>2. ASSUME NEW v \in Team, v # t, ~ Past(v)' PROVE chunk'[v] # current_chunk
        <5>1. ~ Past(v) /\ chunk'[v] = chunk[v]
          BY <1>3, <1>4, <1>6, <4>2
        <5>2. chunk[v] < current_chunk
          BY <1>7, <4>2, <5>1 DEF Taken
        <5> QED
          BY <1>4, <1>12, <5>1, <5>2
      <4> QED
        BY <1>4, <1>6, <1>11, <3>1, <4>1, <4>2
    <3>2. CASE u # t /\ Past(u)
      BY <1>3, <1>4, <1>6, <1>7, <2>3, <3>2 DEF Taken
    <3>3. CASE u # t /\ ~ Past(u)
      <4>1. ~ Past(u)' /\ chunk'[u] = chunk[u] /\ chunk[u] < current_chunk /\ chunk[u] \notin done[k]
            /\ \A v \in Team : v # u /\ ~ Past(v) => chunk[v] # chunk[u]
        BY <1>3, <1>4, <1>6, <1>7, <2>3, <3>3 DEF Taken
      <4>2. chunk[u] # chunk[t] /\ chunk[u] # current_chunk
        BY <1>4, <1>8, <1>12, <3>3, <4>1
      <4> QED
        BY <1>3, <1>4, <1>6, <1>9, <1>12, <4>1, <4>2
    <3> QED
      BY <3>1, <3>2, <3>3
  <2>4. ASSUME NEW p \in Nat, p < NChunk(want), p < current_chunk'
        PROVE  p \in done'[k] \/ \E u \in Team : ~ Past(u)' /\ chunk'[u] = p
    <3>1. CASE p = current_chunk
      BY <1>3, <1>6, <1>11, <3>1
    <3>2. CASE p < current_chunk
      <4>1. p \in done[k] \/ \E u \in Team : ~ Past(u) /\ chunk[u] = p
        BY <1>7, <2>4, <3>2 DEF Taken
      <4>2. ASSUME NEW u \in Team, ~ Past(u), chunk[u] = p
            PROVE  p \in done'[k] \/ \E v \in Team : ~ Past(v)' /\ chunk'[v] = p
        BY <1>3, <1>4, <1>6, <1>9, <4>2
      <4> QED
        BY <1>9, <4>1, <4>2
    <3> QED
      BY <1>4, <1>6, <2>4, <3>1, <3>2
  <2> QED
    BY <1>3, <2>1, <2>2, <2>3, <2>4 DEF Taken
<1> QED
  BY <1>2, <1>9, <1>10, <1>13 DEF PartsOK

(* A thread that leaves a product has no chunk left in its hands.          *)
LEMMA LastChunkParts ==
  ASSUME PoolInv, NthOK, ~ again, NEW t \in Threads, NEW k \in Nodes, NEW s \in Sides,
         OnSection(k, s), PartsOK(k, s), OnlyChunk(t) \/ NoChunk(t)
  PROVE  ~ again' /\ PartsOK(k, s)'
<1>1. Operate(t) /\ pc[t] = "chunks"
  BY DEF Operate, OnlyChunk, NoChunk
<1>2. node[t] = k /\ s = "chunks"
      /\ (abort' = abort \/ (abort' = k + 1 /\ (s = "front" => abort # k /\ k \notin MulMats)))
  BY <1>1, OperateStays DEF Sides
<1>3. /\ t \in Team /\ Team' = Team /\ want' = want /\ ~ Past(t)
      /\ \A u \in Team : u # t => (Past(u)' <=> Past(u))
  BY <1>1, OperateFrame
<1>4. /\ chunk \in [Threads -> Nat] /\ Team \subseteq Threads /\ current_chunk \in Nat
      /\ want \in Nat /\ NChunk(want) \in Nat /\ done[k] \in SUBSET Nat
  BY TeamFacts, NodesAreNat DEF PoolInv, TypeOK
<1>5. nth[t] = want
  BY <1>1, <1>3 DEF NthOK, Working
<1>6. UNCHANGED <<chunk, current_chunk>>
  BY DEF OnlyChunk, NoChunk
<1>7. Past(t)'
  BY DEF OnlyChunk, NoChunk, Leave, Goto, Past, PoolInv, TypeOK
<1>8. Taken(k) /\ Around(k, s)
  BY <1>2 DEF PartsOK
<1>9. /\ chunk[t] < current_chunk /\ chunk[t] \notin done[k] /\ current_chunk >= want
      /\ \A u \in Team : u # t /\ ~ Past(u) => chunk[u] # chunk[t]
  BY <1>3, <1>8 DEF Taken
<1>10. current_chunk >= NChunk(want)
  <2>1. CASE OnlyChunk(t)
    BY <1>4, <1>5, <1>9, <2>1 DEF OnlyChunk
  <2>2. CASE NoChunk(t)
    BY <1>3, <1>4, <1>5, <1>9, <2>2 DEF NoChunk
  <2> QED
    BY <2>1, <2>2
<1>11. /\ ~ again' /\ \A j \in Nodes : j # k => done'[j] = done[j]
       /\ \/ done'[k] = done[k] \cup {chunk[t]} /\ chunk[t] < NChunk(want)
          \/ done'[k] = done[k] /\ chunk[t] >= NChunk(want)
  <2>1. CASE OnlyChunk(t)
    BY <1>2, <1>5, <1>9, <2>1, PartComputed DEF OnlyChunk, PoolInv
  <2>2. CASE NoChunk(t)
    <3>1. again' = again /\ done' = done
      BY <2>2, Zenon DEF NoChunk
    <3> QED
      BY <1>5, <2>2, <3>1 DEF NoChunk
  <2> QED
    BY <2>1, <2>2
<1>12. Around(k, s)'
  BY <1>2, <1>3, <1>8, <1>11, AroundStays
<1>13. \A u \in Team : chunk[u] \in Nat
  BY <1>4
<1>14. Taken(k)'
  <2>1. current_chunk' >= want' /\ NChunk(want)' = NChunk(want)
    BY <1>3, <1>6, <1>9 DEF NChunk
  <2>2. \A p \in done'[k] : p < current_chunk' /\ p < NChunk(want)
    BY <1>6, <1>8, <1>9, <1>11 DEF Taken
  <2>3. ASSUME NEW u \in Team
        PROVE  IF Past(u)' THEN current_chunk' >= NChunk(want)
               ELSE /\ chunk'[u] < current_chunk' /\ chunk'[u] \notin done'[k]
                    /\ \A v \in Team : v # u /\ ~ Past(v)' => chunk'[v] # chunk'[u]
    <3>1. CASE Past(u)'
      BY <1>6, <1>10, <3>1
    <3>2. CASE ~ Past(u)'
      <4>1. u # t /\ ~ Past(u)
        BY <1>3, <1>7, <2>3, <3>2
      <4>2. chunk[u] < current_chunk /\ chunk[u] \notin done[k] /\ chunk[u] # chunk[t]
            /\ \A v \in Team : v # u /\ ~ Past(v) => chunk[v] # chunk[u]
        BY <1>8, <1>9, <2>3, <4>1 DEF Taken
      <4>3. \A v \in Team : v # u /\ ~ Past(v)' => chunk[v] # chunk[u]
        BY <1>3, <1>7, <4>2
      <4> QED
        BY <1>6, <1>11, <3>2, <4>2, <4>3
    <3> QED
      BY <3>1, <3>2
  <2>4. ASSUME NEW p \in Nat, p < NChunk(want), p < current_chunk'
        PROVE  p \in done'[k] \/ \E u \in Team : ~ Past(u)' /\ chunk'[u] = p
    <3>1. p \in done[k] \/ \E u \in Team : ~ Past(u) /\ chunk[u] = p
      BY <1>6, <1>8, <2>4 DEF Taken
    <3>2. ASSUME NEW u \in Team, ~ Past(u), chunk[u] = p
          PROVE  p \in done'[k] \/ \E v \in Team : ~ Past(v)' /\ chunk'[v] = p
      <4>1. CASE u = t
        BY <1>4, <1>11, <1>13, <2>4, <3>2, <4>1
      <4>2. CASE u # t
        BY <1>3, <1>6, <3>2, <4>2
      <4> QED
        BY <4>1, <4>2
    <3> QED
      BY <1>11, <3>1, <3>2
  <2> QED
    BY <1>3, <2>1, <2>2, <2>3, <2>4 DEF Taken
<1> QED
  BY <1>2, <1>11, <1>12, <1>14 DEF PartsOK

LEMMA OperateParts ==
  ASSUME PoolInv, NthOK, ~ again, SectionsOK, NEW t \in Threads, Operate(t)
  PROVE  ~ again' /\ SectionsOK'
<1>1. pc[t] \in {"start", "node", "forward", "chunks"}
  BY DEF Operate, Start, Node, Forward, MulMat, NextChunk, OnlyChunk, NoChunk
<1>2. PICK k \in Nodes, s \in Sides : OnSection(k, s)
  BY <1>1, InSection DEF Working
<1>3. PartsOK(k, s)
  BY <1>2, SectionOfAll DEF SectionsOK
<1>4. ~ again' /\ PartsOK(k, s)'
  BY <1>2, <1>3, HeadParts, ForwardParts, MulMatParts, NextChunkParts, LastChunkParts, Zenon
  DEF Operate
<1>5. Section(k, s)'
  BY <1>2, OperateFrame
<1> QED
  BY <1>4, <1>5, OnlySection

LEMMA PartsStep ==
  ASSUME PartsInv, SteadyNext
  PROVE  NthOK' /\ ~ again' /\ SectionsOK'
<1> USE DEF planVars, barVars, workVars, seenVars
<1>1. PoolInv /\ NthOK /\ ~ again /\ SectionsOK
  BY DEF PartsInv
<1>2. CASE Calls \/ Kickoff \/ Join
  <2>1. again' = again
    BY <1>2, Zenon DEF Calls, Kickoff, Pause, Resume, Compute, Free, Kick, Publish, Wake, Join
  <2>2. SectionsOK'
    BY <1>1, <1>2, CallParts, PublishParts, WakeParts, Zenon DEF Kickoff
  <2> QED
    BY <1>1, <2>1, <2>2, NthStep, Zenon
<1>3. ASSUME NEW w \in Workers, Look(w) \/ WakeSpuriously(w)
      PROVE  NthOK' /\ ~ again' /\ SectionsOK'
  <2>1. again' = again
    BY <1>3, Zenon DEF Look, CheckPause, SleepPaused, CheckStop, PollGraph, PollActive, PollEnds,
       CheckLocked, WakeSpuriously
  <2>2. SectionsOK'
    BY <1>1, <1>3, LookParts, Zenon
  <2> QED
    BY <1>1, <2>1, <2>2, NthStep, Zenon
<1>4. ASSUME NEW t \in Threads, Barrier(t)
      PROVE  NthOK' /\ ~ again' /\ SectionsOK'
  <2>1. again' = again
    BY <1>4, Zenon DEF Barrier, EnterBarrier, Arrive, ResetBarrier, ReleaseBarrier, LeaveBarrier
  <2>2. SectionsOK'
    BY <1>1, <1>4, MeetParts, AloneParts, ReleaseParts, LeaveParts, Zenon DEF Barrier
  <2> QED
    BY <1>1, <2>1, <2>2, NthStep, Zenon
<1>5. ASSUME NEW t \in Threads, Operate(t)
      PROVE  NthOK' /\ ~ again' /\ SectionsOK'
  BY <1>1, <1>5, NthStep, OperateParts, Zenon
<1> QED
  BY <1>2, <1>3, <1>4, <1>5, Zenon DEF SteadyNext, Work, Operate

(* The parts are where the section of the graph says, whatever the number  *)
(* of threads, nodes and chunks (ggml_compute_forward_mul_mat and the loop *)
(* of ggml_graph_compute_thread).                                          *)
THEOREM PartsInvariant == SteadySpec => []PartsInv
<1>1. Init => NthOK /\ ~ again /\ SectionsOK
  <2> SUFFICES ASSUME Init PROVE NthOK /\ ~ again /\ SectionsOK
    OBVIOUS
  <2>1. PoolInv /\ 0 \in Threads
    BY InitPoolInv, TeamFacts DEF PoolInv
  <2>2. pc[0] = "idle" /\ n_graph = 0
    BY <2>1 DEF Init
  <2>3. CallOK /\ \A k \in Nodes, s \in Sides : ~ Section(k, s)
    BY <2>2 DEF CallOK, Left, Section, At, Meets
  <2>4. NthOK
    BY <2>1, TeamFacts DEF Init, NthOK, Working, PoolInv
  <2>5. ~ again
    BY Zenon DEF Init
  <2> QED
    BY <2>3, <2>4, <2>5 DEF SectionsOK
<1>2. PartsInv /\ [SteadyNext]_vars => NthOK' /\ ~ again' /\ SectionsOK'
  <2> SUFFICES ASSUME PartsInv, [SteadyNext]_vars PROVE NthOK' /\ ~ again' /\ SectionsOK'
    OBVIOUS
  <2>1. CASE UNCHANGED vars
    <3>1. NthOK' /\ again' = again
      BY <2>1 DEF PartsInv, NthOK, Team, vars, planVars, barVars, workVars
    <3>2. SectionsOK'
      <4>1. \A t \in Team : Past(t)' <=> Past(t)
        BY <2>1 DEF Past, Meets, vars, barVars
      <4> QED
        BY <2>1, <4>1, Unnoticed DEF PartsInv, vars, planVars, barVars, workVars
    <3> QED
      BY <3>1, <3>2, Zenon DEF PartsInv
  <2> QED
    BY <2>1, PartsStep
<1> QED
  BY <1>1, <1>2, PoolInvariant, PTL DEF SteadySpec, PartsInv

(* No part of a node is computed twice, and a thread at a node finds the   *)
(* nodes before it complete, although threads agree on nothing but         *)
(* current_chunk and the two counters of the barrier.                      *)
THEOREM PartsComputedOnce == SteadySpec => []PartsOnce
<1>1. PartsInv => PartsOnce
  <2> SUFFICES ASSUME PartsInv PROVE PartsOnce
    OBVIOUS
  <2>1. PoolInv /\ SectionsOK /\ ~ again
    BY DEF PartsInv
  <2>2. ASSUME NEW t \in Threads, AtWork(t), NEW j \in 0 .. node[t] - 1 PROVE done[j] = Parts(j)
    <3>1. t \in Team /\ n_threads_cur = want
      BY <2>1, <2>2, InSection DEF AtWork, Working
    <3>2. PICK k \in Nodes, s \in Sides : OnSection(k, s)
      BY <2>1, <2>2, InSection DEF AtWork, Working
    <3>3. node[t] = k
      BY <2>2, <3>1, <3>2 DEF OnSection, At, Outside, Left, Meets, Looking, AtWork
    <3>4. Around(k, s)
      BY <2>1, <3>2, SectionOfAll DEF SectionsOK, PartsOK
    <3>5. j \in Nodes /\ j < k
      BY <2>2, <3>3, NodesAreNat DEF Nodes
    <3> QED
      BY <3>1, <3>4, <3>5 DEF Around, PartsOf, Parts
  <2> QED
    BY <2>1, <2>2 DEF PartsOnce
<1> QED
  BY <1>1, PartsInvariant, PTL

(* What ggml_graph_compute returns is whole: every node, or after an abort *)
(* every node before the one at which all threads stopped.                 *)
THEOREM GraphReturnedWhole == SteadySpec => []ReturnsWhole
<1>1. PartsInv => ReturnsWhole
  <2> SUFFICES ASSUME PartsInv, pc[0] = "idle", n_graph > 0, NEW k \in Nodes
               PROVE  done[k] = IF abort < 0 \/ k < abort THEN Parts(k) ELSE {}
    BY DEF ReturnsWhole
  <2>1. Whole
    BY DEF PartsInv, SectionsOK, CallOK
  <2>2. n_threads_cur = want
    BY DEF PartsInv, PoolInv, PlanOK
  <2> QED
    BY <2>1, <2>2 DEF Whole, PartsOf, Parts
<1> QED
  BY <1>1, PartsInvariant, PTL

-----------------------------------------------------------------------------
(* What the flags say of the caller: the kick-off holds the mutex from     *)
(* setting the number of threads to its broadcast, a pool that stops never *)
(* starts another graph, and one that is paused computes nothing.          *)
FlagsOK ==
  /\ kicking <=> pc[0] \in {"publish", "wake"}
  /\ stop <=> pc[0] \in {"join", "freed"}
  /\ pause => pc[0] \in {"idle", "kick", "publish", "wake"}
  /\ pc[0] \in {"idle", "kick", "publish", "join", "freed"} \/ n_graph > 0

(* Why a worker may rest: the pool is paused, it has seen the last graph   *)
(* or will be woken for it, or the pool stops.                             *)
RestOK(w) ==
  /\ pc[w] = "paused" => pause
  /\ pc[w] = "asleep" => ~ stop /\ (last_graph[w] = n_graph \/ pc[0] = "wake")
  /\ pc[w] = "ended" => stop

WakeInv == FlagsOK /\ \A w \in Workers : RestOK(w)

Resting == {"paused", "asleep", "ended"}

LEMMA CallsWake ==
  ASSUME PoolInv, WakeInv, Calls \/ Kickoff \/ Join
  PROVE  WakeInv'
<1> USE DEF planVars, barVars, workVars, seenVars
<1>1. 0 \in Threads /\ Workers \subseteq Threads \ {0} /\ pc \in [Threads -> Places] /\ n_graph \in Nat
  BY TeamFacts, PoolAssumption DEF PoolInv, TypeOK, Threads, Workers
<1>2. CASE Compute \/ Kick \/ Join
  <2>1. \A w \in Workers : pc'[w] = pc[w]
    BY <1>1, <1>2 DEF Compute, Kick, Join, Goto
  <2>2. UNCHANGED <<last_graph, n_graph, stop, pause>> /\ pc[0] # "wake"
    BY <1>1, <1>2, Zenon DEF Compute, Kick, Join
  <2>3. FlagsOK'
    <3>1. CASE Compute
      <4>1. pc[0] = "idle" /\ pc'[0] = "kick"
        BY <1>1, <3>1 DEF Compute, Goto
      <4> QED
        BY <3>1, <4>1, Zenon DEF Compute, WakeInv, FlagsOK
    <3>2. CASE Kick
      <4>1. pc[0] = "kick" /\ pc'[0] = "publish"
        BY <1>1, <3>2 DEF Kick, Goto
      <4> QED
        BY <3>2, <4>1, Zenon DEF Kick, WakeInv, FlagsOK
    <3>3. CASE Join
      <4>1. pc[0] = "join" /\ pc'[0] = "freed"
        BY <1>1, <3>3 DEF Join, Goto
      <4> QED
        BY <3>3, <4>1, Zenon DEF Join, WakeInv, FlagsOK
    <3> QED
      BY <1>2, <3>1, <3>2, <3>3
  <2> QED
    BY <2>1, <2>2, <2>3, Zenon DEF WakeInv, RestOK
<1>3. CASE Publish
  <2>1. \A w \in Workers : pc'[w] = pc[w]
    BY <1>1, <1>3 DEF Publish, Goto
  <2>2. UNCHANGED <<stop, pause, kicking>> /\ pc[0] = "publish" /\ pc'[0] = "wake"
    BY <1>1, <1>3, Zenon DEF Publish, Goto
  <2>3. n_graph' > 0
    BY <1>1, <1>3 DEF Publish
  <2> QED
    BY <2>1, <2>2, <2>3, Zenon DEF WakeInv, FlagsOK, RestOK
<1>4. CASE Pause \/ Resume \/ Wake \/ Free
  <2>1. PICK place \in {"idle", "start", "join"} : Broadcast(place)
    BY <1>4 DEF Pause, Resume, Wake, Free
  <2>2. \A w \in Workers : pc'[w] \notin {"paused", "asleep"} /\ (pc'[w] = "ended" => pc[w] = "ended")
    BY <1>1, <2>1 DEF Broadcast
  <2>3. pc'[0] = place
    BY <1>1, <2>1 DEF Broadcast
  <2>4. stop => stop'
    BY <1>4, Zenon DEF Pause, Resume, Wake, Free
  <2>5. FlagsOK'
    <3>1. CASE Pause
      <4>1. pc'[0] = "idle"
        BY <1>1, <3>1 DEF Pause, Broadcast
      <4> QED
        BY <3>1, <4>1, Zenon DEF Pause, WakeInv, FlagsOK
    <3>2. CASE Resume
      <4>1. pc'[0] = "idle"
        BY <1>1, <3>2 DEF Resume, Broadcast
      <4> QED
        BY <3>2, <4>1, Zenon DEF Resume, WakeInv, FlagsOK
    <3>3. CASE Wake
      <4>1. pc'[0] = "start"
        BY <1>1, <3>3 DEF Wake, Broadcast
      <4> QED
        BY <3>3, <4>1, Zenon DEF Wake, WakeInv, FlagsOK
    <3>4. CASE Free
      <4>1. pc'[0] = "join"
        BY <1>1, <3>4 DEF Free, Broadcast
      <4> QED
        BY <3>4, <4>1, Zenon DEF Free, WakeInv, FlagsOK
    <3> QED
      BY <1>4, <3>1, <3>2, <3>3, <3>4
  <2> QED
    BY <2>2, <2>4, <2>5, Zenon DEF WakeInv, RestOK
<1> QED
  BY <1>2, <1>3, <1>4, Zenon DEF Calls, Kickoff

LEMMA LookWakes ==
  ASSUME PoolInv, WakeInv, NEW w \in Workers, Look(w) \/ WakeSpuriously(w)
  PROVE  WakeInv'
<1> USE DEF planVars, barVars, workVars, seenVars
<1>1. 0 \in Threads /\ Workers \subseteq Threads \ {0} /\ pc \in [Threads -> Places]
      /\ last_graph \in [Threads -> 0 .. MaxGraphs]
  <2>1. Workers \subseteq Threads \ {0}
    BY PoolAssumption DEF Threads, Workers
  <2> QED
    BY <2>1, TeamFacts DEF PoolInv, TypeOK
<1>2. UNCHANGED <<n_graph, stop, pause, kicking>>
  BY Zenon DEF Look, CheckPause, SleepPaused, CheckStop, PollGraph, PollActive, PollEnds,
     CheckLocked, WakeSpuriously
<1>3. /\ \A u \in Threads \ {w} : pc'[u] = pc[u] /\ last_graph'[u] = last_graph[u]
      /\ pc'[w] \in Resting => SleepPaused(w) \/ CheckStop(w) \/ CheckLocked(w)
  BY <1>1 DEF Look, CheckPause, SleepPaused, CheckStop, PollGraph, PollActive, PollEnds,
     CheckLocked, WakeSpuriously, Goto, Resting
<1>4. FlagsOK'
  BY <1>1, <1>2, <1>3, Zenon DEF WakeInv, FlagsOK
<1>5. RestOK(w)'
  <2>1. CASE SleepPaused(w)
    <3>1. pc'[w] = IF pause THEN "paused" ELSE "top"
      BY <1>1, <2>1 DEF SleepPaused, Goto
    <3> QED
      BY <1>2, <3>1 DEF RestOK
  <2>2. CASE CheckStop(w)
    <3>1. pc'[w] = IF stop THEN "ended" ELSE IF w < n_threads_cur THEN "poll" ELSE "lock"
      BY <1>1, <2>2 DEF CheckStop, Goto
    <3> QED
      BY <1>2, <3>1 DEF RestOK
  <2>3. CASE CheckLocked(w)
    <3>1. \/ pc'[w] = "top"
          \/ ~ stop /\ last_graph'[w] = n_graph /\ pc'[w] \in {"start", "asleep"}
      BY <1>1, <2>3 DEF CheckLocked, Goto
    <3> QED
      BY <1>2, <3>1 DEF RestOK
  <2> QED
    BY <1>3, <2>1, <2>2, <2>3 DEF RestOK, Resting
<1>6. ASSUME NEW u \in Workers, u # w PROVE RestOK(u)'
  BY <1>1, <1>2, <1>3, <1>6, Zenon DEF WakeInv, RestOK
<1> QED
  BY <1>4, <1>5, <1>6, Zenon DEF WakeInv

LEMMA WorkWakes ==
  ASSUME PoolInv, WakeInv, NEW t \in Threads, Work(t)
  PROVE  WakeInv'
<1> USE DEF planVars, barVars, workVars, seenVars
<1>1. 0 \in Threads /\ Workers \subseteq Threads \ {0} /\ pc \in [Threads -> Places]
      /\ goal \in [Threads -> {"chunks", "node", "end"}]
  <2>1. Workers \subseteq Threads \ {0}
    BY PoolAssumption DEF Threads, Workers
  <2> QED
    BY <2>1, TeamFacts DEF PoolInv, TypeOK
<1>2. UNCHANGED <<n_graph, stop, pause, kicking, last_graph>>
  BY Zenon DEF Work, Start, Node, Forward, MulMat, NextChunk, OnlyChunk, NoChunk, Barrier,
     EnterBarrier, Arrive, ResetBarrier, ReleaseBarrier, LeaveBarrier
<1>3. /\ \A u \in Threads \ {t} : pc'[u] = pc[u]
      /\ pc[t] \in Working \cup {"spin"}
      /\ pc'[t] \in Working \cup {"spin", "idle", "top"}
      /\ pc'[t] = "idle" => t = 0
  <2>1. Exit(t) \in {"chunks", "node", "idle", "top"} /\ (Exit(t) = "idle" => t = 0)
    BY <1>1 DEF Exit
  <2> QED
    BY <1>1, <2>1 DEF Work, Start, Node, Forward, MulMat, NextChunk, OnlyChunk, NoChunk, Leave,
       Barrier, EnterBarrier, Arrive, ResetBarrier, ReleaseBarrier, LeaveBarrier, Goto, Working
<1>4. \A w \in Workers : (pc'[w] \in Resting => pc'[w] = pc[w])
  BY <1>1, <1>3 DEF Resting, Working
<1>5. pc'[0] = pc[0] \/ (pc[0] \in Working \cup {"spin"} /\ pc'[0] \in Working \cup {"spin", "idle", "top"})
  BY <1>1, <1>3
<1>6. FlagsOK'
  <2>1. CASE pc'[0] = pc[0]
    BY <1>2, <2>1, Zenon DEF WakeInv, FlagsOK
  <2>2. CASE pc[0] \in Working \cup {"spin"} /\ pc'[0] \in Working \cup {"spin", "idle", "top"}
    <3>1. pc[0] \notin {"idle", "kick", "publish", "wake", "join", "freed"}
      BY <2>2 DEF Working
    <3>2. pc'[0] \notin {"publish", "wake", "join", "freed"}
      BY <2>2 DEF Working
    <3>3. ~ kicking /\ ~ stop /\ ~ pause /\ n_graph > 0
      BY <3>1, Zenon DEF WakeInv, FlagsOK
    <3> QED
      BY <1>2, <3>2, <3>3, Zenon DEF FlagsOK
  <2> QED
    BY <1>5, <2>1, <2>2
<1>7. pc[0] = "wake" => pc'[0] = "wake"
  BY <1>5 DEF Working
<1>8. ASSUME NEW w \in Workers PROVE RestOK(w)'
  BY <1>2, <1>4, <1>7, Zenon DEF WakeInv, RestOK, Resting
<1> QED
  BY <1>6, <1>8, Zenon DEF WakeInv

(* A worker rests for a reason the caller takes away before it waits       *)
(* (ggml_graph_compute_kickoff, ggml_threadpool_free).                     *)
THEOREM WakeInvariant == SteadySpec => []WakeInv
<1>1. Init => WakeInv
  <2> SUFFICES ASSUME Init PROVE WakeInv
    OBVIOUS
  <2>1. 0 \in Threads /\ Workers \subseteq Threads \ {0}
    BY InitPoolInv, TeamFacts DEF PoolInv, Threads, Workers
  <2>2. pc[0] = "idle" /\ \A w \in Workers : pc[w] = "top"
    BY <2>1 DEF Init
  <2>3. ~ kicking /\ ~ stop
    BY Zenon DEF Init
  <2> QED
    BY <2>2, <2>3 DEF WakeInv, FlagsOK, RestOK
<1>2. PoolInv /\ WakeInv /\ [SteadyNext]_vars => WakeInv'
  <2> SUFFICES ASSUME PoolInv, WakeInv, [SteadyNext]_vars PROVE WakeInv'
    OBVIOUS
  <2>1. CASE UNCHANGED vars
    BY <2>1, Zenon DEF WakeInv, FlagsOK, RestOK, vars, planVars, seenVars
  <2> QED
    BY <2>1, CallsWake, LookWakes, WorkWakes, Zenon DEF SteadyNext
<1> QED
  BY <1>1, <1>2, PoolInvariant, PTL DEF SteadySpec

(* Who waits in a barrier is in a graph, whose threads are on one section. *)
LEMMA WaitInSection ==
  ASSUME PoolInv, NEW t \in Threads, Waits(t)
  PROVE  /\ t \in Team /\ n_threads_cur = want
         /\ \E k \in Nodes, s \in Sides : OnSection(k, s)
<1>1. Meets(t)
  BY DEF Waits, Meets
<1>2. t \in Team
  BY <1>1, TeamFacts DEF PoolInv, PlaceOK, Meets, Looking
<1>3. ~ (Calling /\ \A u \in Team : u # 0 => Outside(u) /\ last_graph[u] = n_graph)
  BY <1>1, <1>2 DEF Calling, Outside, Left, Looking, Meets
<1>4. PICK k \in Nodes, s \in Sides : OnSection(k, s)
  BY <1>3 DEF PoolInv, GraphOK
<1>5. At(0, k, s)
  BY <1>4, TeamFacts DEF OnSection, PoolInv
<1>6. pc[0] \notin {"idle", "kick", "join", "freed"}
  BY <1>5 DEF At, Meets
<1> QED
  BY <1>2, <1>4, <1>6 DEF PoolInv, PlanOK

(* The condition variable loses no wake-up: who waits in a barrier never   *)
(* waits for a worker that sleeps, and ggml_threadpool_free joins none     *)
(* that does, for any number of threads, pauses and spurious wake-ups.     *)
THEOREM WakeupsNotLost == SteadySpec => []NoLostWakeup
<1>1. PoolInv /\ WakeInv => NoLostWakeup
  <2> SUFFICES ASSUME PoolInv, WakeInv, NEW w \in Workers
               PROVE  /\ (\E t \in Threads : Waits(t)) /\ pc[0] # "wake" /\ w < n_threads_cur =>
                           pc[w] \notin {"asleep", "paused", "ended"}
                      /\ pc[0] = "join" => pc[w] \notin {"asleep", "paused"}
    BY DEF NoLostWakeup
  <2>1. w \in Threads /\ w # 0
    BY PoolAssumption DEF Threads, Workers
  <2>2. ASSUME NEW t \in Threads, Waits(t), pc[0] # "wake", w < n_threads_cur
        PROVE  pc[w] \notin {"asleep", "paused", "ended"}
    <3>1. PICK k \in Nodes, s \in Sides : OnSection(k, s)
      BY <2>2, WaitInSection
    <3>2. 0 \in Team /\ w \in Team
      BY <2>1, <2>2, WaitInSection, TeamFacts DEF PoolInv
    <3>3. At(0, k, s) /\ At(w, k, s)
      BY <3>1, <3>2 DEF OnSection
    <3>4. pc[0] \notin {"idle", "kick", "publish", "wake", "join", "freed"}
      BY <2>2, <3>3 DEF At, Meets
    <3>5. ~ stop /\ ~ pause
      BY <3>4, Zenon DEF WakeInv, FlagsOK
    <3>6. pc[w] \in Looking => last_graph[w] # n_graph
      BY <2>1, <3>3 DEF At, Meets, Looking
    <3>7. pc[w] = "asleep" => last_graph[w] = n_graph
      BY <2>2 DEF WakeInv, RestOK
    <3> QED
      BY <3>5, <3>6, <3>7 DEF WakeInv, RestOK, Looking
  <2>3. ASSUME pc[0] = "join" PROVE pc[w] \notin {"asleep", "paused"}
    BY <2>3, Zenon DEF WakeInv, FlagsOK, RestOK
  <2> QED
    BY <2>2, <2>3, Zenon
<1> QED
  BY <1>1, PoolInvariant, WakeInvariant, PTL

(* ggml_barrier never holds all the threads of a graph at once.            *)
THEOREM NotAllWait == SteadySpec => []BarrierOpens
<1>1. PoolInv => BarrierOpens
  <2> SUFFICES ASSUME PoolInv, NEW t \in Threads, Waits(t)
               PROVE  \E u \in 0 .. n_threads_cur - 1 : ~ Waits(u)
    BY DEF BarrierOpens
  <2>1. 0 .. n_threads_cur - 1 = Team
    BY WaitInSection DEF Team
  <2>2. CASE \E u \in Team : Completes(u)
    BY <2>1, <2>2 DEF Completes, Waits
  <2>3. CASE n_barrier = Cardinality(Waiting) /\ n_barrier < want
    <3>1. Waiting # Team
      BY <2>3, TeamFacts DEF PoolInv
    <3> QED
      BY <2>1, <3>1 DEF Waiting, Meets, Waits
  <2> QED
    BY <2>2, <2>3 DEF PoolInv, BarrierOK
<1> QED
  BY <1>1, PoolInvariant, PTL

(* Both: nobody in the pool is left to wait for what will not come.        *)
THEOREM NobodyLeftWaiting == SteadySpec => []NobodyStranded
  BY WakeupsNotLost, NotAllWait, PTL DEF NobodyStranded

-----------------------------------------------------------------------------
(* The pool implements GraphRun.                                           *)

LEMMA CutIs ==
  ASSUME NEW k \in Nodes
  PROVE  Cut[k] = PartsOf(k) /\ Run!Nodes = Nodes
<1> QED
  BY DEF Cut, PartsOf, Run!Nodes, Nodes

(* Steps that are not seen.                                                *)
LEMMA Unseen ==
  ASSUME UNCHANGED <<want, done, abort>>, Stage' = Stage
  PROVE  UNCHANGED <<Stage, Cut, done, abort>>
<1>1. Cut' = Cut
  BY DEF Cut, NChunk
<1> QED
  BY <1>1

LEMMA CallRuns ==
  ASSUME PoolInv, Calls \/ Kickoff \/ Join
  PROVE  [Run!Next]_<<Stage, Cut, done, abort>>
<1> USE DEF planVars, barVars, workVars, seenVars
<1>1. 0 \in Threads /\ pc \in [Threads -> Places]
  BY TeamFacts DEF PoolInv, TypeOK
<1>2. want' = want /\ Cut' = Cut
  <2>1. want' = want
    BY Zenon DEF Calls, Kickoff, Pause, Resume, Compute, Free, Kick, Publish, Wake, Join
  <2> QED
    BY <2>1 DEF Cut, NChunk
<1>3. CASE Compute
  <2>1. pc[0] = "idle" /\ pc'[0] = "kick" /\ done' = [k \in Nodes |-> {}] /\ abort' = -1
    BY <1>1, <1>3 DEF Compute, Goto
  <2>2. Stage = "idle" /\ Stage' = "running"
    BY <2>1 DEF Stage
  <2>3. Run!Begin
    BY <1>2, <2>1, <2>2 DEF Run!Begin, Run!Nodes, Nodes
  <2> QED
    BY <2>3 DEF Run!Next
<1>4. CASE Free \/ Join
  <2>1. \/ pc[0] = "idle" /\ pc'[0] = "join"
        \/ pc[0] = "join" /\ pc'[0] = "freed"
    BY <1>1, <1>4 DEF Free, Join, Broadcast, Goto
  <2>2. UNCHANGED <<done, abort>>
    BY <1>4, Zenon DEF Free, Join
  <2>3. \/ Stage = "idle" /\ Stage' = "ending"
        \/ Stage = "ending" /\ Stage' = "ended"
    BY <2>1 DEF Stage
  <2>4. Run!Free
    BY <1>2, <2>2, <2>3 DEF Run!Free
  <2> QED
    BY <2>4 DEF Run!Next
<1>5. CASE Pause \/ Resume \/ Kickoff
  <2>1. \/ pc[0] = "idle" /\ pc'[0] = "idle"
        \/ pc[0] \in {"kick", "publish", "wake"} /\ pc'[0] \in {"publish", "wake", "start"}
    BY <1>1, <1>5 DEF Pause, Resume, Kickoff, Kick, Publish, Wake, Broadcast, Goto
  <2>2. UNCHANGED <<done, abort>>
    BY <1>5, Zenon DEF Pause, Resume, Kickoff, Kick, Publish, Wake
  <2>3. Stage' = Stage
    BY <2>1 DEF Stage
  <2> QED
    BY <1>2, <2>2, <2>3
<1> QED
  BY <1>3, <1>4, <1>5, Zenon DEF Calls

(* Only the caller, behind the final barrier, returns.                     *)
LEMMA BarrierRuns ==
  ASSUME PoolInv, WakeInv, PartsInv', NEW t \in Threads, Barrier(t)
  PROVE  [Run!Next]_<<Stage, Cut, done, abort>>
<1> USE DEF planVars, barVars, workVars, seenVars
<1>1. 0 \in Threads /\ pc \in [Threads -> Places] /\ n_graph \in Nat
  BY TeamFacts, PoolAssumption DEF PoolInv, TypeOK
<1>2. UNCHANGED <<want, n_graph, done, abort>>
  BY Zenon DEF Barrier, EnterBarrier, Arrive, ResetBarrier, ReleaseBarrier, LeaveBarrier
<1>3. \/ pc'[0] = pc[0]
      \/ /\ pc[0] \in {"enter", "arrive", "last", "release", "spin"}
         /\ pc'[0] \in {"arrive", "last", "release", "spin", "chunks", "node", "idle"}
  <2>1. goal \in [Threads -> {"chunks", "node", "end"}]
    BY DEF PoolInv, TypeOK
  <2>2. CASE t = 0
    <3>1. Exit(t) \in {"chunks", "node", "idle"}
      BY <1>1, <2>1, <2>2 DEF Exit
    <3> QED
      BY <1>1, <2>2, <3>1 DEF Barrier, EnterBarrier, Arrive, ResetBarrier, ReleaseBarrier,
         LeaveBarrier, Goto
  <2>3. CASE t # 0
    BY <1>1, <2>3 DEF Barrier, EnterBarrier, Arrive, ResetBarrier, ReleaseBarrier, LeaveBarrier, Goto
  <2> QED
    BY <2>2, <2>3
<1>4. CASE pc'[0] = pc[0] \/ pc'[0] # "idle"
  <2>1. Stage' = Stage
    BY <1>3, <1>4 DEF Stage
  <2> QED
    BY <1>2, <2>1, Unseen
<1>5. CASE pc[0] # "idle" /\ pc'[0] = "idle"
  <2>1. Stage = "running" /\ Stage' = "idle"
    BY <1>3, <1>5 DEF Stage
  <2>2. n_graph > 0
    <3>1. pc[0] \in Working \cup {"spin"}
      BY <1>3, <1>5 DEF Working
    <3> QED
      BY <3>1 DEF Working, WakeInv, FlagsOK
  <2>3. Whole
    <3>1. Whole'
      BY <1>2, <1>5, <2>2 DEF PartsInv, SectionsOK, CallOK
    <3>2. \A j : PartsOf(j)' = PartsOf(j)
      BY <1>2 DEF PartsOf, NChunk
    <3> QED
      BY <1>2, <3>1, <3>2 DEF Whole
  <2>4. \A k \in Nodes : done[k] = IF abort < 0 \/ k < abort THEN Cut[k] ELSE {}
    BY <2>3, CutIs DEF Whole
  <2>5. Cut' = Cut
    BY <1>2 DEF Cut, NChunk
  <2>6. Run!Return
    BY <1>2, <2>1, <2>4, <2>5 DEF Run!Return, Run!Kept, Run!Nodes, Nodes
  <2> QED
    BY <2>6 DEF Run!Next
<1> QED
  BY <1>3, <1>4, <1>5

(* A part is computed by a thread on the section of the graph.             *)
LEMMA OperateRuns ==
  ASSUME PartsInv, ~ again', NEW t \in Threads, Operate(t)
  PROVE  [Run!Next]_<<Stage, Cut, done, abort>>
<1> USE DEF planVars, barVars, workVars, seenVars
<1>1. /\ PoolInv /\ NthOK /\ SectionsOK /\ 0 \in Threads /\ pc \in [Threads -> Places]
      /\ done \in [Nodes -> SUBSET Nat] /\ chunk \in [Threads -> Nat] /\ abort \in -1 .. NNodes
  BY TeamFacts DEF PartsInv, PoolInv, TypeOK
<1>2. pc[t] \in {"start", "node", "forward", "chunks"}
  BY DEF Operate, Start, Node, Forward, MulMat, NextChunk, OnlyChunk, NoChunk
<1>3. PICK k \in Nodes, s \in Sides : OnSection(k, s)
  BY <1>1, <1>2, InSection DEF Working
<1>4. t \in Team /\ want' = want /\ Team \subseteq Threads
  BY <1>1, <1>3, OperateFrame, TeamFacts DEF PoolInv
<1>5. At(t, k, s) /\ At(0, k, s)
  BY <1>1, <1>3, <1>4, TeamFacts DEF OnSection, PoolInv
<1>6. pc[0] \notin {"idle", "join", "freed"} /\ pc'[0] \notin {"idle", "join", "freed"}
  <2>1. pc[0] \notin {"idle", "join", "freed"}
    BY <1>5 DEF At, Meets
  <2>2. pc'[t] \in {"node", "forward", "chunks", "enter"} /\ \A u \in Threads \ {t} : pc'[u] = pc[u]
    BY <1>1, <1>3, NodesAreNat, OperateStays, OperateStill
  <2> QED
    BY <1>1, <2>1, <2>2
<1>7. Stage = "running" /\ Stage' = "running"
  BY <1>6 DEF Stage
<1>8. Cut' = Cut
  BY <1>4 DEF Cut, NChunk
<1>9. CASE Start(t) \/ Node(t) \/ MulMat(t)
  <2>1. UNCHANGED <<done, abort>>
    BY <1>9, Zenon DEF Start, Node, MulMat
  <2> QED
    BY <1>7, <1>8, <2>1
<1>10. CASE NextChunk(t) \/ Forward(t) \/ OnlyChunk(t) \/ NoChunk(t)
  <2>1. node[t] = k /\ (pc[t] = "forward" => s = "front" /\ abort # k)
        /\ (pc[t] = "chunks" => s = "chunks" /\ k \in MulMats)
    BY <1>2, <1>3, <1>5, <1>10 DEF At, Outside, Left, Meets, Looking, NextChunk, Forward, OnlyChunk,
       NoChunk, OnSection, Sides
  <2>2. Around(k, s) /\ k \in Nat
    BY <1>1, <1>3, SectionOfAll, NodesAreNat DEF SectionsOK, PartsOK
  <2>3. Run!Reached(k)
    <3>1. Run!Kept(k)
      BY <1>10, <2>1, <2>2 DEF Around, Run!Kept, NextChunk, Forward, OnlyChunk, NoChunk
    <3>2. \A j \in Nodes : (j < k => done[j] = Cut[j]) /\ (j > k => done[j] = {})
      BY <2>2, CutIs DEF Around
    <3> QED
      BY <3>1, <3>2 DEF Run!Reached, Run!Nodes, Nodes
  <2>4. abort' \in {abort, k + 1}
    BY <1>10, <2>1 DEF NextChunk, Forward, OnlyChunk, NoChunk, Leave
  <2>5. ASSUME NEW p \in PartsOf(k), ComputePart(t, p)
        PROVE  [Run!Next]_<<Stage, Cut, done, abort>>
    <3>1. done' = [done EXCEPT ![k] = done[k] \cup {p}] /\ p \notin done[k]
      <4>1. again' = (again \/ p \in done[k])
        BY <2>1, <2>5, Zenon DEF ComputePart
      <4>2. p \notin done[k]
        BY <4>1, Zenon
      <4> QED
        BY <2>1, <2>5, <4>2 DEF ComputePart
    <3>2. p \in Cut[k] \ done[k]
      BY <2>5, <3>1, CutIs
    <3>3. Run!Part(k, p)
      BY <1>7, <1>8, <2>3, <2>4, <3>1, <3>2 DEF Run!Part
    <3>4. Run!Next
      BY <3>2, <3>3, CutIs DEF Run!Next
    <3> QED
      BY <3>4
  <2>6. CASE Forward(t)
    <3>1. t \in PartsOf(k)
      BY <1>4, <2>1, <2>6 DEF Forward, PartsOf, Team
    <3> QED
      BY <2>5, <2>6, <3>1 DEF Forward
  <2>7. CASE NextChunk(t) \/ OnlyChunk(t)
    <3>1. nth[t] = want /\ chunk[t] \in Nat /\ pc[t] = "chunks" /\ chunk[t] < NChunk(nth[t])
      BY <1>1, <1>4, <2>7 DEF NthOK, NextChunk, OnlyChunk, Working
    <3>2. NChunk(want) \in Int
      BY <1>1, TeamFacts, PoolAssumption DEF NChunk, PoolInv
    <3>3. chunk[t] \in PartsOf(k)
      BY <2>1, <3>1, <3>2 DEF PartsOf
    <3> QED
      BY <2>5, <2>7, <3>3 DEF NextChunk, OnlyChunk
  <2>8. CASE NoChunk(t)
    <3>1. UNCHANGED done
      BY <2>8 DEF NoChunk
    <3>2. CASE abort' = abort
      BY <1>7, <1>8, <3>1, <3>2
    <3>3. CASE abort' = k + 1
      <4>1. Run!End(k)
        BY <1>7, <1>8, <2>3, <3>1, <3>3 DEF Run!End
      <4>2. Run!Next
        BY <4>1, CutIs DEF Run!Next
      <4> QED
        BY <4>2
    <3> QED
      BY <2>4, <3>2, <3>3
  <2> QED
    BY <1>10, <2>6, <2>7, <2>8
<1> QED
  BY <1>9, <1>10 DEF Operate

(* Whatever the number of threads and chunks, ggml_graph_compute computes  *)
(* a graph part by part, no part twice and no node before its predecessors *)
(* are complete, and returns it whole or ended behind one node.            *)
THEOREM PoolImplementsRun == SteadySpec => ImplementsRun
<1>1. Init => Run!Init
  <2> SUFFICES ASSUME Init PROVE Run!Init
    OBVIOUS
  <2>1. pc[0] = "idle" /\ done = [k \in Nodes |-> {}] /\ abort = -1
    BY InitPoolInv, TeamFacts DEF Init, PoolInv
  <2>2. Stage = "idle"
    BY <2>1 DEF Stage
  <2>3. Cut \in [Nodes -> SUBSET Nat]
    <3>1. \A k \in Nodes : 0 .. (IF k \in MulMats THEN NChunk(want) ELSE want) - 1 \subseteq Nat
      BY InitPoolInv, TeamFacts, PoolAssumption DEF PoolInv, NChunk
    <3> QED
      BY <3>1 DEF Cut
  <2> QED
    BY <2>1, <2>2, <2>3 DEF Run!Init, Run!Nodes, Nodes
<1>2. PartsInv /\ PartsInv' /\ WakeInv /\ [SteadyNext]_vars => [Run!Next]_<<Stage, Cut, done, abort>>
  <2> SUFFICES ASSUME PartsInv, PartsInv', WakeInv, [SteadyNext]_vars
               PROVE  [Run!Next]_<<Stage, Cut, done, abort>>
    OBVIOUS
  <2>0. PoolInv /\ ~ again'
    BY Zenon DEF PartsInv
  <2>1. CASE Calls \/ Kickoff \/ Join
    BY <2>0, <2>1, CallRuns
  <2>2. ASSUME NEW w \in Workers, Look(w) \/ WakeSpuriously(w)
        PROVE  [Run!Next]_<<Stage, Cut, done, abort>>
    <3>1. UNCHANGED <<want, done, abort>>
      BY <2>2, Zenon DEF Look, CheckPause, SleepPaused, CheckStop, PollGraph, PollActive, PollEnds,
         CheckLocked, WakeSpuriously, planVars, workVars
    <3>2. pc'[0] = pc[0]
      <4>1. 0 # w
        BY DEF Workers
      <4> QED
        BY <2>0, <2>2, <4>1, TeamFacts DEF Look, CheckPause, SleepPaused, CheckStop, PollGraph,
           PollActive, PollEnds, CheckLocked, WakeSpuriously, Goto, PoolInv, TypeOK
    <3>3. Stage' = Stage
      BY <3>2 DEF Stage
    <3> QED
      BY <3>1, <3>3, Unseen
  <2>3. ASSUME NEW t \in Threads, Work(t)
        PROVE  [Run!Next]_<<Stage, Cut, done, abort>>
    <3>1. Barrier(t) \/ Operate(t)
      BY <2>3, Zenon DEF Work, Operate
    <3> QED
      BY <2>0, <2>3, <3>1, BarrierRuns, OperateRuns
  <2>4. CASE UNCHANGED vars
    <3>1. UNCHANGED <<want, done, abort, pc>>
      BY <2>4 DEF vars, planVars, workVars
    <3>2. Stage' = Stage
      BY <3>1 DEF Stage
    <3> QED
      BY <3>1, <3>2, Unseen
  <2> QED
    BY <2>1, <2>2, <2>3, <2>4, Zenon DEF SteadyNext
<1> QED
  BY <1>1, <1>2, PartsInvariant, WakeInvariant, PTL DEF SteadySpec, ImplementsRun, Run!Spec
=============================================================================
