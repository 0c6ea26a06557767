--------------------------- MODULE HistoryProofs ----------------------------
(***************************************************************************)
(* Proofs about HistoryStore, for any number of instances and entries.     *)
(***************************************************************************)
EXTENDS HistoryStore, SequenceTheorems, TLAPS

(* Without a mishap at most one instance runs, it has every entry, and a   *)
(* save is a save into a file that nobody else has written since.          *)
Undisturbed ==
  ~ mishap =>
    /\ \A i, j \in up : i = j
    /\ saving # {} => empty
    /\ whole
    /\ \A i \in up : processingHistory[i] = AllEntries
    /\ up = {} => file = AllEntries

IInv == TypeOK /\ InOrder /\ Undisturbed

-----------------------------------------------------------------------------
(* Lemmas on histories.                                                    *)

(* A history stays one when more guides have been made.                    *)
LEMMA HistoryGrows ==
  ASSUME NEW n \in Nat, NEW h \in Seq(1 .. n)
  PROVE  h \in Seq(1 .. n + 1)
<1>1. 1 .. n \subseteq 1 .. n + 1
  BY SMT
<1> QED
  BY <1>1, SMT

(* What a new entry in front of a history looks like.                      *)
LEMMA FrontEntry ==
  ASSUME NEW n \in Nat, NEW h \in Seq(1 .. n)
  PROVE  LET g == <<n + 1>> \o h
         IN  /\ g \in Seq(1 .. n + 1)
             /\ Len(g) = Len(h) + 1
             /\ g[1] = n + 1
             /\ \A k \in 2 .. Len(h) + 1 : g[k] = h[k - 1]
<1>1. h \in Seq(1 .. n + 1)
  BY HistoryGrows
<1>2. <<n + 1>> \in Seq(1 .. n + 1) /\ Len(<<n + 1>>) = 1 /\ <<n + 1>>[1] = n + 1
  BY SMT
<1>3. Len(h) \in Nat
  BY SMT
<1> QED
  BY <1>1, <1>2, <1>3, ConcatProperties

(* The new entry is the newest.                                            *)
LEMMA AddedInOrder ==
  ASSUME NEW n \in Nat, NEW h \in Seq(1 .. n), NewestFirst(h)
  PROVE  NewestFirst(<<n + 1>> \o h)
<1> DEFINE g == <<n + 1>> \o h
<1>1. /\ g \in Seq(1 .. n + 1) /\ Len(g) = Len(h) + 1 /\ g[1] = n + 1
      /\ \A k \in 2 .. Len(h) + 1 : g[k] = h[k - 1]
  BY FrontEntry
<1> HIDE DEF g
<1>2. DOMAIN g = 1 .. Len(g) /\ DOMAIN h = 1 .. Len(h) /\ Len(h) \in Nat
  BY <1>1, SMT
<1>3. ASSUME NEW k \in DOMAIN g, NEW l \in DOMAIN g, k < l PROVE g[k] > g[l]
  <2>1. /\ k \in 1 .. Len(h) + 1 /\ l - 1 \in 1 .. Len(h)
        /\ l \in 2 .. Len(h) + 1
    BY <1>1, <1>2, <1>3, SMT
  <2>2. g[l] = h[l - 1]
    BY <1>1, <2>1
  <2>3. h[l - 1] \in 1 .. n
    BY <2>1, SMT
  <2>4. CASE k = 1
    BY <1>1, <2>2, <2>3, <2>4, SMT
  <2>5. CASE k # 1
    <3>1. k \in 2 .. Len(h) + 1 /\ k - 1 \in 1 .. Len(h) /\ k - 1 < l - 1
      BY <1>3, <2>1, <2>5, <1>2, SMT
    <3>2. g[k] = h[k - 1]
      BY <1>1, <3>1
    <3> QED
      BY <3>1, <3>2, <2>1, <2>2, <1>2 DEF NewestFirst
  <2> QED
    BY <2>4, <2>5
<1>4. NewestFirst(g)
  BY <1>3 DEF NewestFirst
<1> QED
  BY <1>4 DEF g

(* All entries and the new one are all entries.                            *)
LEMMA AddedAll ==
  ASSUME NEW n \in Nat
  PROVE  <<n + 1>> \o [k \in 1 .. n |-> n + 1 - k] = [k \in 1 .. n + 1 |-> n + 2 - k]
<1> DEFINE h == [k \in 1 .. n |-> n + 1 - k]
           g == <<n + 1>> \o h
           a == [k \in 1 .. n + 1 |-> n + 2 - k]
<1>1. h \in Seq(1 .. n) /\ Len(h) = n
  BY SMT
<1>2. a \in Seq(1 .. n + 1) /\ Len(a) = n + 1
  BY SMT
<1> HIDE DEF h
<1>3. /\ g \in Seq(1 .. n + 1) /\ Len(g) = n + 1 /\ g[1] = n + 1
      /\ \A k \in 2 .. n + 1 : g[k] = h[k - 1]
  BY <1>1, FrontEntry
<1> HIDE DEF g
<1>4. \A k \in 1 .. n + 1 : g[k] = a[k]
  BY <1>3, SMT DEF h
<1> HIDE DEF a
<1> QED
  BY <1>2, <1>3, <1>4, SeqEqual DEF g, h, a

(* The added history of an instance, in terms of its history.              *)
LEMMA AddedFacts ==
  ASSUME TypeOK, InOrder, NEW i \in Instance
  PROVE  /\ Added(i) \in Seq(1 .. made + 1)
         /\ NewestFirst(Added(i))
         /\ processingHistory[i] = AllEntries =>
              Added(i) = [k \in 1 .. made + 1 |-> made + 2 - k]
<1>1. made \in Nat /\ processingHistory[i] \in Seq(1 .. made)
  BY HistoryAssumption DEF TypeOK, History
<1>2. NewestFirst(processingHistory[i])
  BY DEF InOrder
<1> QED
  BY <1>1, <1>2, FrontEntry, AddedInOrder, AddedAll DEF Added, AllEntries

(* An empty history is of every type, in order, and all there is at first. *)
LEMMA NoEntries ==
  /\ \A n \in Nat : <<>> \in Seq(1 .. n)
  /\ NewestFirst(<<>>)
  /\ made = 0 => AllEntries = <<>>
<1>1. \A n \in Nat : <<>> \in Seq(1 .. n)
  BY SMT
<1>2. NewestFirst(<<>>)
  BY SMT DEF NewestFirst
<1>3. made = 0 => AllEntries = <<>>
  BY SMT DEF AllEntries
<1> QED
  BY <1>1, <1>2, <1>3

-----------------------------------------------------------------------------
(* The invariant holds at first and is kept by every step.                 *)

LEMMA InitIInv == Init => IInv
<1> SUFFICES ASSUME Init PROVE IInv
  OBVIOUS
<1>1. TypeOK
  <2>1. <<>> \in Seq(1 .. made)
    BY NoEntries, 0 \in Nat, Zenon DEF Init
  <2>2. made \in 0 .. MaxEntries
    BY HistoryAssumption, SMT DEF Init
  <2> QED
    BY <2>1, <2>2, Zenon DEF Init, TypeOK, History
<1>2. InOrder
  BY NoEntries DEF Init, InOrder
<1>3. Undisturbed
  BY NoEntries DEF Init, Undisturbed
<1> QED
  BY <1>1, <1>2, <1>3 DEF IInv

LEMMA StartKeeps ==
  ASSUME IInv, NEW i \in Instance, Start(i)
  PROVE  IInv'
<1> USE DEF IInv
<1>1. /\ up' = up \cup {i} /\ made' = made /\ saving' = saving
      /\ file' = file /\ whole' = whole /\ empty' = empty /\ i \notin up
  BY DEF Start
<1>2. PICK h : /\ processingHistory' = [processingHistory EXCEPT ![i] = h]
               /\ h = file \/ h = <<>>
               /\ ~ mishap' => ~ mishap /\ up = {} /\ (h # file => file = <<>> \/ ~ whole)
  BY DEF Start
<1>3. made \in Nat /\ h \in History /\ NewestFirst(h)
  <2>1. made \in Nat
    BY HistoryAssumption, SMT DEF TypeOK
  <2>2. file \in History /\ <<>> \in History
    BY <2>1, NoEntries DEF TypeOK, History
  <2> QED
    BY <1>2, <2>1, <2>2, NoEntries DEF InOrder
<1>4. TypeOK'
  <2>1. mishap' \in BOOLEAN
    BY Zenon DEF Start, TypeOK
  <2> QED
    BY <1>1, <1>2, <1>3, <2>1 DEF TypeOK, History
<1>5. InOrder'
  BY <1>1, <1>2, <1>3 DEF InOrder, TypeOK
<1>6. Undisturbed'
  <2> SUFFICES ASSUME ~ mishap'
               PROVE  /\ \A j, k \in up' : j = k
                      /\ saving' # {} => empty'
                      /\ whole'
                      /\ \A j \in up' : processingHistory'[j] = AllEntries'
                      /\ up' = {} => file' = AllEntries'
    BY DEF Undisturbed
  <2>1. ~ mishap /\ up = {} /\ whole /\ file = AllEntries
    BY <1>2 DEF Undisturbed
  <2>2. saving = {} /\ up' = {i}
    BY <2>1, <1>1 DEF TypeOK
  <2>3. h = file
    BY <1>2, <2>1
  <2>4. AllEntries' = AllEntries /\ processingHistory'[i] = AllEntries
    BY <1>1, <1>2, <2>1, <2>3 DEF AllEntries, TypeOK
  <2> QED
    BY <1>1, <2>1, <2>2, <2>4
<1> QED
  BY <1>4, <1>5, <1>6

LEMMA AddKeeps ==
  ASSUME IInv, NEW i \in Instance, AddToHistory(i) \/ AddUnsaved(i)
  PROVE  IInv'
<1> USE DEF IInv
<1>1. /\ i \in up \ saving /\ made < MaxEntries /\ made' = made + 1
      /\ processingHistory' = [processingHistory EXCEPT ![i] = Added(i)]
      /\ up' = up /\ mishap' = mishap
  BY DEF AddToHistory, AddUnsaved
<1>2. \/ saving' = saving \cup {i} /\ file' = <<>> /\ whole' = TRUE /\ empty' = TRUE
      \/ saving' = saving /\ file' = file /\ whole' = whole /\ empty' = empty
  BY DEF AddToHistory, AddUnsaved
<1>3. /\ Added(i) \in Seq(1 .. made + 1) /\ NewestFirst(Added(i))
      /\ processingHistory[i] = AllEntries =>
           Added(i) = [k \in 1 .. made + 1 |-> made + 2 - k]
  BY AddedFacts
<1>4. made \in Nat /\ made + 1 \in 0 .. MaxEntries /\ made + 1 \in Nat
  BY <1>1, HistoryAssumption, SMT DEF TypeOK
<1>5. \A h \in History : h \in Seq(1 .. made + 1)
  BY <1>4, HistoryGrows DEF History
<1>6. TypeOK'
  <2>1. processingHistory' \in [Instance -> Seq(1 .. made + 1)]
    BY <1>1, <1>3, <1>5 DEF TypeOK
  <2>2. file' \in Seq(1 .. made + 1)
    BY <1>2, <1>4, <1>5, NoEntries DEF TypeOK
  <2>3. /\ up' \subseteq Instance /\ saving' \subseteq up'
    BY <1>1, <1>2 DEF TypeOK
  <2>4. whole' \in BOOLEAN /\ empty' \in BOOLEAN /\ mishap' \in BOOLEAN
    BY <1>1, <1>2, Zenon DEF TypeOK
  <2> QED
    BY <1>1, <1>4, <2>1, <2>2, <2>3, <2>4 DEF TypeOK, History
<1>7. InOrder'
  BY <1>1, <1>2, <1>3, NoEntries DEF InOrder, TypeOK
<1>8. Undisturbed'
  <2> SUFFICES ASSUME ~ mishap'
               PROVE  /\ \A j, k \in up' : j = k
                      /\ saving' # {} => empty'
                      /\ whole'
                      /\ \A j \in up' : processingHistory'[j] = AllEntries'
                      /\ up' = {} => file' = AllEntries'
    BY DEF Undisturbed
  <2>1. /\ ~ mishap /\ up = {i} /\ whole /\ processingHistory[i] = AllEntries
        /\ saving # {} => empty
    BY <1>1 DEF Undisturbed
  <2>3. AllEntries' = [k \in 1 .. made + 1 |-> made + 2 - k]
    <3>1. \A k \in 1 .. made + 1 : made' + 1 - k = made + 2 - k
      BY <1>1, <1>4, SMT
    <3>2. AllEntries' = [k \in 1 .. made' |-> made' + 1 - k]
      BY DEF AllEntries
    <3> QED
      BY <1>1, <3>1, <3>2, Zenon
  <2>4. processingHistory'[i] = AllEntries'
    BY <1>1, <1>3, <2>1, <2>3 DEF TypeOK
  <2>5. whole' /\ (saving' # {} => empty')
    BY <1>2, <2>1, Zenon
  <2> QED
    BY <1>1, <2>1, <2>4, <2>5
<1> QED
  BY <1>6, <1>7, <1>8

LEMMA WriteKeeps ==
  ASSUME IInv, NEW i \in Instance, Write(i) \/ WriteFails(i)
  PROVE  IInv'
<1> USE DEF IInv
<1>1. /\ i \in saving /\ saving' = saving \ {i}
      /\ made' = made /\ up' = up /\ processingHistory' = processingHistory
  BY DEF Write, WriteFails
<1>2. /\ file' = processingHistory[i] \/ file' = <<>>
      /\ whole' \in BOOLEAN /\ empty' \in BOOLEAN /\ mishap' \in BOOLEAN
  BY Zenon DEF Write, WriteFails, TypeOK
<1>3. file' \in History /\ NewestFirst(file')
  <2>1. made \in Nat
    BY HistoryAssumption, SMT DEF TypeOK
  <2>2. <<>> \in History
    BY <2>1, NoEntries DEF History
  <2> QED
    BY <1>2, <2>2, NoEntries DEF TypeOK, InOrder
<1>4. TypeOK'
  BY <1>1, <1>2, <1>3 DEF TypeOK, History
<1>5. InOrder'
  BY <1>1, <1>3 DEF InOrder
<1>6. Undisturbed'
  <2> SUFFICES ASSUME ~ mishap'
               PROVE  /\ \A j, k \in up' : j = k
                      /\ saving' # {} => empty'
                      /\ whole'
                      /\ \A j \in up' : processingHistory'[j] = AllEntries'
                      /\ up' = {} => file' = AllEntries'
    BY DEF Undisturbed
  <2>1. ~ mishap /\ Write(i)
    <3>1. WriteFails(i) => mishap'
      BY SMT DEF WriteFails
    <3>2. Write(i)
      BY <3>1, Zenon
    <3> QED
      BY <3>2, SMT DEF Write
  <2>2. /\ \A j, k \in up : j = k
        /\ empty
        /\ \A j \in up : processingHistory[j] = AllEntries
    BY <1>1, <2>1 DEF Undisturbed
  <2>3. whole'
    BY <2>1, <2>2, Zenon DEF Write
  <2>4. i \in up /\ saving' = {} /\ AllEntries' = AllEntries
    BY <1>1, <2>2 DEF TypeOK, AllEntries
  <2> QED
    BY <1>1, <2>2, <2>3, <2>4
<1> QED
  BY <1>4, <1>5, <1>6

LEMMA StopKeeps ==
  ASSUME IInv, NEW i \in Instance, Stop(i)
  PROVE  IInv'
<1> USE DEF IInv
<1>1. /\ i \in up /\ up' = up \ {i} /\ saving' = saving \ {i}
      /\ processingHistory' = [processingHistory EXCEPT ![i] = <<>>]
      /\ made' = made /\ file' = file /\ whole' = whole /\ empty' = empty
      /\ ~ mishap' => ~ mishap /\ i \notin saving /\ file = processingHistory[i]
  BY DEF Stop
<1>2. <<>> \in History /\ NewestFirst(<<>>)
  <2>1. made \in Nat
    BY HistoryAssumption, SMT DEF TypeOK
  <2> QED
    BY <2>1, NoEntries DEF History
<1>3. TypeOK'
  <2>1. mishap' \in BOOLEAN
    BY Zenon DEF Stop, TypeOK
  <2> QED
    BY <1>1, <1>2, <2>1 DEF TypeOK, History
<1>4. InOrder'
  BY <1>1, <1>2 DEF InOrder, TypeOK
<1>5. Undisturbed'
  <2> SUFFICES ASSUME ~ mishap'
               PROVE  /\ \A j, k \in up' : j = k
                      /\ saving' # {} => empty'
                      /\ whole'
                      /\ \A j \in up' : processingHistory'[j] = AllEntries'
                      /\ up' = {} => file' = AllEntries'
    BY DEF Undisturbed
  <2>1. /\ ~ mishap /\ whole /\ file = AllEntries
        /\ \A j, k \in up : j = k
    BY <1>1 DEF Undisturbed
  <2>2. up' = {} /\ saving' = {} /\ AllEntries' = AllEntries
    BY <1>1, <2>1 DEF TypeOK, AllEntries
  <2> QED
    BY <1>1, <2>1, <2>2
<1> QED
  BY <1>3, <1>4, <1>5

LEMMA NextIInv == IInv /\ [Next]_vars => IInv'
<1> SUFFICES ASSUME IInv, [Next]_vars PROVE IInv'
  OBVIOUS
<1>1. ASSUME NEW i \in Instance,
             \/ Start(i) \/ AddToHistory(i) \/ AddUnsaved(i)
             \/ Write(i) \/ WriteFails(i) \/ Stop(i)
      PROVE  IInv'
  BY <1>1, StartKeeps, AddKeeps, WriteKeeps, StopKeeps
<1>2. CASE UNCHANGED vars
  BY <1>2 DEF vars, IInv, TypeOK, History, InOrder, Undisturbed, AllEntries
<1> QED
  BY <1>1, <1>2 DEF Next

-----------------------------------------------------------------------------
(* What holds of the history, for any number of instances and entries.     *)

(* The inductive invariant of the history file and its instances.          *)
THEOREM HistoryInvariant == Spec => []IInv
<1> QED
  BY InitIInv, NextIInv, PTL DEF Spec

(* Every history, in memory or in the file, holds study guides that were   *)
(* made, and only a running instance can be in the middle of a save.       *)
THEOREM TypeCorrect == Spec => []TypeOK
<1>1. IInv => TypeOK
  BY DEF IInv
<1> QED
  BY <1>1, HistoryInvariant, PTL

(* Whatever fails or crashes, every history is in order, newest first, and *)
(* holds no study guide twice.                                             *)
THEOREM HistoryInOrder == Spec => []InOrder
<1>1. IInv => InOrder
  BY DEF IInv
<1> QED
  BY <1>1, HistoryInvariant, PTL

(* Only the five named events can lose a study guide.                      *)
THEOREM NothingLost == Spec => []KeepsEverything
<1>1. IInv => KeepsEverything
  BY DEF IInv, Undisturbed, KeepsEverything
<1> QED
  BY <1>1, HistoryInvariant, PTL
=============================================================================
