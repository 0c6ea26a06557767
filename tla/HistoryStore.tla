---------------------------- MODULE HistoryStore ----------------------------
(***************************************************************************)
(* history.json: processingHistory of MainWindow, read when the program    *)
(* starts and written whole after every study guide.  The program may run  *)
(* more than once in a directory, may end or crash at any time, and may    *)
(* fail to open the file, which only logs a warning.                       *)
(*                                                                         *)
(* An entry is the number of the study guide, in the order they were made. *)
(***************************************************************************)
EXTENDS Integers, Sequences, SequencesExt

CONSTANTS
  Instance,   \* runs of the program that may overlap
  MaxEntries  \* bound: study guides made

ASSUME HistoryAssumption == MaxEntries \in Nat

VARIABLES
  made,       \* study guides made so far, by any instance
  up,         \* instances that are running
  saving,     \* instances between open and close of saveHistory
  processingHistory,
  file,       \* entries in history.json, when it is whole; an absent file has none
  whole,      \* does it parse?
  empty,      \* is it still as open has truncated it?
  mishap      \* ghost: has one of the events happened that may lose an entry?

vars == <<made, up, saving, processingHistory, file, whole, empty, mishap>>

Init ==
  /\ made = 0 /\ up = {} /\ saving = {}
  /\ processingHistory = [i \in Instance |-> <<>>]
  /\ file = <<>> /\ whole = TRUE /\ empty = TRUE /\ mishap = FALSE

(* Mutant: the file is not loaded.                                         *)
BadStart(i) ==
  /\ i \notin up
  /\ up' = up \cup {i}
  /\ processingHistory' = [processingHistory EXCEPT ![i] = <<>>]
  /\ mishap' = (mishap \/ up # {})
  /\ UNCHANGED <<made, saving, file, whole, empty>>

(* loadHistory.  A file that does not parse yields an empty array, and one *)
(* that cannot be opened leaves the list as it is: empty, at this point.   *)
Start(i) ==
  /\ i \notin up
  /\ up' = up \cup {i}
  /\ \/ /\ processingHistory' =
             [processingHistory EXCEPT ![i] = IF whole THEN file ELSE <<>>]
        /\ mishap' = (mishap \/ up # {})
     \/ /\ processingHistory' = [processingHistory EXCEPT ![i] = <<>>]
        /\ mishap' = (mishap \/ up # {} \/ file # <<>>)
  /\ UNCHANGED <<made, saving, file, whole, empty>>

(* Mutant: the new entry goes to the end.                                  *)
BadAdded(i) == Append(processingHistory[i], made + 1)

Added(i) == <<made + 1>> \o processingHistory[i]

(* addToHistory up to the open of saveHistory, which truncates the file.   *)
AddToHistory(i) ==
  /\ i \in up \ saving /\ made < MaxEntries
  /\ made' = made + 1
  /\ processingHistory' = [processingHistory EXCEPT ![i] = Added(i)]
  /\ saving' = saving \cup {i}
  /\ file' = <<>> /\ whole' = TRUE /\ empty' = TRUE
  /\ UNCHANGED <<up, mishap>>

(* The same when the file cannot be opened: the entry is in memory only.   *)
AddUnsaved(i) ==
  /\ i \in up \ saving /\ made < MaxEntries
  /\ made' = made + 1
  /\ processingHistory' = [processingHistory EXCEPT ![i] = Added(i)]
  /\ UNCHANGED <<up, saving, file, whole, empty, mishap>>

(* The document is written from the start of the file.  What another       *)
(* instance wrote since the open is overwritten, and its tail remains when *)
(* it is the longer one.                                                   *)
Write(i) ==
  /\ i \in saving
  /\ saving' = saving \ {i} /\ empty' = FALSE
  /\ \/ file' = processingHistory[i] /\ whole' = TRUE
     \/ ~ empty /\ file' = <<>> /\ whole' = FALSE
  /\ UNCHANGED <<made, up, processingHistory, mishap>>

(* The disk is full: write fails halfway, and nobody looks at its result.  *)
WriteFails(i) ==
  /\ i \in saving
  /\ saving' = saving \ {i} /\ empty' = FALSE
  /\ file' = <<>> /\ whole' = FALSE
  /\ mishap' = TRUE
  /\ UNCHANGED <<made, up, processingHistory>>

(* Mutant: a save outlives its program.                                    *)
BadStop(i) ==
  /\ i \in up
  /\ up' = up \ {i}
  /\ processingHistory' = [processingHistory EXCEPT ![i] = <<>>]
  /\ mishap' = (mishap \/ i \in saving \/ file # processingHistory[i])
  /\ UNCHANGED <<made, saving, file, whole, empty>>

(* The program ends or crashes; an entry that is not in the file is gone.  *)
Stop(i) ==
  /\ i \in up
  /\ up' = up \ {i} /\ saving' = saving \ {i}
  /\ processingHistory' = [processingHistory EXCEPT ![i] = <<>>]
  /\ mishap' = (mishap \/ i \in saving \/ file # processingHistory[i])
  /\ UNCHANGED <<made, file, whole, empty>>

Next ==
  \E i \in Instance :
    \/ Start(i) \/ AddToHistory(i) \/ AddUnsaved(i)
    \/ Write(i) \/ WriteFails(i) \/ Stop(i)

Spec == Init /\ [][Next]_vars

-----------------------------------------------------------------------------
(* Properties.                                                             *)

History == Seq(1 .. made)

(* Every variable keeps its type: a history holds guides that were made,   *)
(* and only an instance that runs is in a save.                            *)
TypeOK ==
  /\ made \in 0 .. MaxEntries
  /\ up \subseteq Instance /\ saving \subseteq up
  /\ processingHistory \in [Instance -> History] /\ file \in History
  /\ whole \in BOOLEAN /\ empty \in BOOLEAN /\ mishap \in BOOLEAN

AllEntries == [k \in 1 .. made |-> made + 1 - k]

(* Five events can lose an entry: a second instance, a file that cannot be *)
(* read, a write that fails, an end during a save and an end with an entry *)
(* that a failed open has kept out of the file.  Without them the running  *)
(* program has every study guide ever made, and so has the file of a       *)
(* program that does not run: a failed open is made good by the next save. *)
KeepsEverything ==
  ~ mishap =>
    /\ \A i \in up : processingHistory[i] = AllEntries
    /\ up = {} => whole /\ file = AllEntries

NewestFirst(h) == \A k, l \in DOMAIN h : k < l => h[k] > h[l]

(* Whatever happens, a history that is kept or loaded is in order, newest  *)
(* first, and holds no study guide twice: instances that write over each   *)
(* other lose entries and never mix them.                                  *)
InOrder ==
  NewestFirst(file) /\ \A i \in Instance : NewestFirst(processingHistory[i])
=============================================================================
