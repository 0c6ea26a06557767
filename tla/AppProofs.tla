------------------------------ MODULE AppProofs ------------------------------
(***************************************************************************)
(* Proofs about StudyGuideApp, for any texts, any number of pool threads   *)
(* and any number of generations in a session.                             *)
(***************************************************************************)
EXTENDS StudyGuideApp, SequenceTheorems, FiniteSetTheorems, TLAPS

Event == [kind : {"error", "finished"}, job : DOMAIN jobs]

(* TypeOK without the flags.                                               *)
DataOK ==
  /\ page \in {"home", "results"}
  /\ dialogs \in Seq({"notice", "import", "save", "error"})
  /\ cursor \in Nat
  /\ currentInputText \in Texts \cup {""}
  /\ jobs \in Seq(Job) /\ Len(jobs) <= MaxJobs
  /\ watched \in 0 .. Len(jobs) /\ shown \in 0 .. Len(jobs)
  /\ events \in Seq(Event)
  /\ status \in {"ready", "not_ready", "generating", "generated", "failed", "error",
                "exported"}
  /\ history \in Seq([input : Texts, guide : DOMAIN jobs])
  /\ exported \in {Unsaid, resultsText}

FlagsOK ==
  /\ ready \in BOOLEAN /\ open \in BOOLEAN /\ hurried \in BOOLEAN
  /\ isProcessing \in BOOLEAN

(* The text in the window is that of the generation it follows.            *)
Watching ==
  watched # 0 => currentInputText \in Texts /\ jobs[watched].text = currentInputText

(* Only the end of the generation the window follows is posted, once.      *)
Reported ==
  /\ \A k \in DOMAIN events : events[k].kind = "finished" =>
       events[k].job = watched /\ jobs[watched].stage = "done"
  /\ \A k, l \in DOMAIN events :
       events[k].kind = "finished" /\ events[l].kind = "finished" => k = l

Busy(j) == jobs[j].stage \in {"queued", "decoding"}

(* With a user who waits, a generation that has not answered is the one    *)
(* the window follows, and an error that is posted is the next event.      *)
Patient ==
  ~ hurried =>
    /\ \A j \in DOMAIN jobs : Busy(j) => j = watched /\ isProcessing
    /\ \A k \in DOMAIN events : events[k].kind = "error" =>
         k = 1 /\ isProcessing /\ events[k].job = watched /\ ~ Busy(watched)
    /\ isProcessing => cursor = 1
    /\ ~ isProcessing => cursor = 0
    /\ ~ open => ~ isProcessing

IInv ==
  /\ DataOK /\ FlagsOK /\ Watching /\ Reported
  /\ HistoryPairs /\ StatusIsTrue /\ Patient

-----------------------------------------------------------------------------
(* Steps that touch dialogs, the status bar and the clipboard only.        *)

Aside ==
  UNCHANGED <<ready, open, page, isProcessing, cursor, currentInputText, watched,
              jobs, events, shown, history, hurried>>

LEMMA AsideKeeps ==
  ASSUME IInv, Aside,
         dialogs' \in Seq({"notice", "import", "save", "error"}),
         exported' \in {Unsaid, resultsText},
         status' \in {"ready", "not_ready", "generating", "generated", "failed",
                      "error", "exported"},
         StatusIsTrue'
  PROVE  IInv'
<1>1. DataOK'
  BY DEF IInv, DataOK, Aside, Event, resultsText
<1>2. FlagsOK'
  BY DEF IInv, FlagsOK, Aside
<1>3. Watching' /\ Reported' /\ HistoryPairs'
  BY DEF IInv, Watching, Reported, HistoryPairs, Aside
<1>4. Patient'
  BY DEF IInv, Patient, Busy, Aside
<1> QED
  BY <1>1, <1>2, <1>3, <1>4 DEF IInv

LEMMA OneDialog ==
  ASSUME NEW d \in {"notice", "import", "save", "error"}
  PROVE  <<d>> \in Seq({"notice", "import", "save", "error"})
<1> QED
  OBVIOUS

LEMMA DialogsKeep ==
  ASSUME IInv, \/ \E t \in Texts : Refuse(t)
               \/ OpenDialog
               \/ Copy
  PROVE  IInv'
<1>1. CASE (\E t \in Texts : Refuse(t)) \/ OpenDialog
  <2>1. /\ Aside /\ UNCHANGED <<status, exported>>
        /\ dialogs = <<>> /\ dialogs' \in {<<"notice">>, <<"import">>, <<"save">>}
    BY <1>1 DEF Refuse, OpenDialog, AtWindow, Aside
  <2>2. dialogs' \in Seq({"notice", "import", "save", "error"})
    BY <2>1, OneDialog
  <2>3. status = "generating" => isProcessing
    BY <2>1 DEF IInv, StatusIsTrue, ToSet
  <2>4. StatusIsTrue'
    BY <2>1, <2>3 DEF StatusIsTrue, Aside
  <2> QED
    BY <2>1, <2>2, <2>4, AsideKeeps DEF IInv, DataOK, resultsText
<1>2. CASE Copy
  <2>1. Aside /\ dialogs' = dialogs /\ exported' = resultsText /\ status' = "exported"
    BY <1>2 DEF Copy, Export, Aside
  <2>2. StatusIsTrue'
    BY <2>1 DEF StatusIsTrue
  <2> QED
    BY <2>1, <2>2, AsideKeeps DEF IInv, DataOK, resultsText
<1> QED
  BY <1>1, <1>2

LEMMA FrontProperties ==
  ASSUME NEW S, NEW s \in Seq(S), s # <<>>
  PROVE  /\ Front(s) \in Seq(S) /\ Len(Front(s)) = Len(s) - 1
         /\ \A i \in 1 .. Len(s) - 1 : Front(s)[i] = s[i]
<1> DEFINE n == Len(s) - 1
<1>1. Len(s) \in Nat \ {0} /\ n \in Nat /\ n <= Len(s)
  BY EmptySeq, LenProperties, SMT
<1>2. \A i \in 1 .. n : s[i] \in S
  BY <1>1, ElementOfSeq, SMT
<1>3. SubSeq(s, 1, n) = [i \in 1 .. n |-> s[i]]
  BY <1>1, SMT
<1> HIDE DEF n
<1>4. [i \in 1 .. n |-> s[i]] \in Seq(S) /\ Len([i \in 1 .. n |-> s[i]]) = n
  BY <1>1, <1>2, SMT
<1> QED
  BY <1>3, <1>4 DEF Front, n

(* An answered dialog: one that is not the box of an error leaves that box.*)
LEMMA CloseDialogKeeps ==
  ASSUME IInv, CloseDialog PROVE IInv'
<1> DEFINE Kind == {"notice", "import", "save", "error"}
<1>1. dialogs \in Seq(Kind) /\ dialogs # <<>> /\ Aside
  BY DEF IInv, DataOK, CloseDialog, Aside
<1>2. Len(dialogs) \in Nat /\ Len(dialogs) > 0
  BY <1>1, EmptySeq, SMT
<1>3. /\ Front(dialogs) \in Seq(Kind) /\ Len(Front(dialogs)) = Len(dialogs) - 1
      /\ \A i \in 1 .. Len(dialogs) - 1 : Front(dialogs)[i] = dialogs[i]
  BY <1>1, FrontProperties
<1>4. /\ Append(Front(dialogs), "notice") \in Seq(Kind)
      /\ Len(Append(Front(dialogs), "notice")) = Len(dialogs)
      /\ \A i \in 1 .. Len(dialogs) - 1 :
           Append(Front(dialogs), "notice")[i] = dialogs[i]
  BY <1>2, <1>3, AppendProperties, SMT
<1>5. /\ dialogs' = Front(dialogs) \/ dialogs' = Append(Front(dialogs), "notice")
      /\ \/ status' = "exported" /\ exported' = resultsText
         \/ status' = "error" /\ exported' = exported
         \/ status' = status /\ exported' = exported /\ Last(dialogs) # "error"
  BY DEF CloseDialog, Export
<1>6. dialogs' \in Seq(Kind) /\ \A i \in 1 .. Len(dialogs) - 1 :
        i \in 1 .. Len(dialogs') /\ dialogs'[i] = dialogs[i]
  BY <1>2, <1>3, <1>4, <1>5, SMT
<1>7. StatusIsTrue'
  <2> SUFFICES ASSUME status' = "generating", ~ isProcessing
               PROVE  "error" \in ToSet(dialogs')
    BY <1>1 DEF StatusIsTrue, Aside
  <2>1. status = "generating" /\ Last(dialogs) # "error"
    BY <1>5
  <2>2. "error" \in ToSet(dialogs)
    BY <2>1 DEF IInv, StatusIsTrue
  <2>3. DOMAIN dialogs = 1 .. Len(dialogs) /\ DOMAIN dialogs' = 1 .. Len(dialogs')
    BY <1>1, <1>6, LenProperties
  <2>4. PICK i \in 1 .. Len(dialogs) : dialogs[i] = "error"
    BY <2>2, <2>3 DEF ToSet
  <2>5. i # Len(dialogs)
    BY <2>1, <2>4 DEF Last
  <2>6. i \in 1 .. Len(dialogs) - 1
    BY <1>2, <2>4, <2>5, SMT
  <2> QED
    BY <1>6, <2>3, <2>4, <2>6 DEF ToSet
<1>8. status' \in {"ready", "not_ready", "generating", "generated", "failed", "error",
                   "exported"} /\ exported' \in {Unsaid, resultsText}
  BY <1>5 DEF IInv, DataOK
<1> QED
  BY <1>1, <1>6, <1>7, <1>8, AsideKeeps

LEMMA CloseWindowKeeps ==
  ASSUME IInv, CloseWindow PROVE IInv'
<1>1. /\ UNCHANGED <<ready, page, dialogs, isProcessing, cursor, currentInputText,
                     watched, jobs, events, status, shown, history, exported>>
      /\ open' = FALSE
  BY DEF CloseWindow
<1>2. hurried' \in BOOLEAN /\ (~ hurried' => ~ hurried /\ ~ isProcessing)
  BY DEF CloseWindow, IInv, FlagsOK
<1>3. DataOK'
  BY <1>1 DEF IInv, DataOK, Event, resultsText
<1>4. FlagsOK'
  BY <1>1, <1>2 DEF IInv, FlagsOK
<1>5. Watching' /\ Reported' /\ HistoryPairs'
  BY <1>1 DEF IInv, Watching, Reported, HistoryPairs
<1>6. StatusIsTrue'
  BY <1>1 DEF IInv, StatusIsTrue
<1>7. Patient'
  BY <1>1, <1>2 DEF IInv, Patient, Busy
<1> QED
  BY <1>3, <1>4, <1>5, <1>6, <1>7 DEF IInv

-----------------------------------------------------------------------------
(* The threads of the pool.                                                *)

(* Generation j goes on to the stage st; its text does not change.         *)
Moves(j, st) ==
  /\ jobs' \in Seq(Job) /\ Len(jobs') = Len(jobs) /\ DOMAIN jobs' = DOMAIN jobs
  /\ \A i \in DOMAIN jobs : jobs'[i].text = jobs[i].text
  /\ \A i \in DOMAIN jobs : i # j => jobs'[i] = jobs[i]
  /\ jobs'[j].stage = st

LEMMA ReplacedJob ==
  ASSUME IInv, NEW j \in DOMAIN jobs, NEW r \in Job, r.text = jobs[j].text,
         jobs' = [jobs EXCEPT ![j] = r]
  PROVE  Moves(j, r.stage)
<1>1. jobs \in Seq(Job) /\ DOMAIN jobs = 1 .. Len(jobs)
  BY LenProperties DEF IInv, DataOK
<1>2. jobs' \in Seq(Job) /\ Len(jobs') = Len(jobs)
  BY <1>1, ExceptSeq
<1>3. DOMAIN jobs' = DOMAIN jobs
  BY <1>1, <1>2, LenProperties
<1>4. \A i \in DOMAIN jobs : jobs'[i] = IF i = j THEN r ELSE jobs[i]
  BY <1>1, ExceptSeq
<1> QED
  BY <1>2, <1>3, <1>4 DEF Moves

(* What every step of a thread keeps, whatever it posts.                   *)
LEMMA WorkerKeeps ==
  ASSUME IInv, UNCHANGED <<windowVars, ready>>, NEW j \in DOMAIN jobs, NEW st,
         Moves(j, st), events' \in Seq(Event)
  PROVE  /\ DataOK' /\ FlagsOK' /\ Watching' /\ HistoryPairs' /\ StatusIsTrue'
<1> USE DEF windowVars
<1>1. DOMAIN jobs = 1 .. Len(jobs) /\ Len(jobs) \in Nat
  BY LenProperties DEF IInv, DataOK
<1>2. DataOK'
  BY DEF IInv, DataOK, Event, Moves, resultsText
<1>3. FlagsOK'
  BY DEF IInv, FlagsOK
<1>4. Watching'
  <2>1. watched # 0 => watched \in DOMAIN jobs
    <3>1. watched \in 0 .. Len(jobs)
      BY DEF IInv, DataOK
    <3> QED
      BY <1>1, <3>1, SMT
  <2> QED
    BY <2>1 DEF IInv, Watching, Moves
<1>5. HistoryPairs'
  <2>1. \A h \in DOMAIN history : history[h].guide \in DOMAIN jobs
    <3>1. \A h \in 1 .. Len(history) : history[h] \in [input : Texts, guide : DOMAIN jobs]
      BY ElementOfSeq DEF IInv, DataOK
    <3>2. DOMAIN history = 1 .. Len(history)
      BY LenProperties DEF IInv, DataOK
    <3> QED
      BY <3>1, <3>2
  <2> QED
    BY <2>1 DEF IInv, HistoryPairs, Moves
<1>6. StatusIsTrue'
  BY DEF IInv, StatusIsTrue
<1> QED
  BY <1>2, <1>3, <1>4, <1>5, <1>6

LEMMA EventType ==
  ASSUME IInv
  PROVE  /\ events \in Seq(Event) /\ DOMAIN events = 1 .. Len(events)
         /\ Len(events) \in Nat
         /\ \A k \in DOMAIN events :
              events[k].kind \in {"error", "finished"} /\ events[k].job \in DOMAIN jobs
<1>1. /\ events \in Seq(Event) /\ DOMAIN events = 1 .. Len(events)
      /\ Len(events) \in Nat
  BY LenProperties DEF IInv, DataOK
<1>2. \A k \in 1 .. Len(events) : events[k] \in Event
  BY <1>1, ElementOfSeq
<1> QED
  BY <1>1, <1>2 DEF Event

LEMMA Posted ==
  ASSUME IInv, NEW e \in Event
  PROVE  /\ Append(events, e) \in Seq(Event)
         /\ \A k \in DOMAIN Append(events, e) :
              \/ k \in DOMAIN events /\ Append(events, e)[k] = events[k]
              \/ k = Len(events) + 1 /\ Append(events, e)[k] = e
<1> DEFINE q == Append(events, e)
<1>1. /\ q \in Seq(Event) /\ Len(q) = Len(events) + 1
      /\ \A i \in 1 .. Len(events) : q[i] = events[i]
      /\ q[Len(events) + 1] = e
  BY EventType, AppendProperties
<1>2. DOMAIN q = 1 .. Len(q)
  BY <1>1, LenProperties
<1> HIDE DEF q
<1>3. \A k \in DOMAIN q : k \in DOMAIN events \/ k = Len(events) + 1
  BY <1>1, <1>2, EventType, SMT
<1>4. \A k \in DOMAIN q :
        \/ k \in DOMAIN events /\ q[k] = events[k]
        \/ k = Len(events) + 1 /\ q[k] = e
  <2>1. \A k \in DOMAIN events : q[k] = events[k]
    BY <1>1, EventType
  <2> QED
    BY <1>1, <1>3, <2>1, Zenon
<1> QED
  BY <1>1, <1>4 DEF q

LEMMA JobType ==
  ASSUME IInv, NEW j \in DOMAIN jobs
  PROVE  /\ jobs[j] \in Job /\ DOMAIN jobs = 1 .. Len(jobs) /\ Len(jobs) \in Nat
         /\ \A s \in {"queued", "decoding", "leaving", "done"} :
              /\ [jobs[j] EXCEPT !.stage = s] \in Job
              /\ [jobs[j] EXCEPT !.stage = s].text = jobs[j].text
              /\ [jobs[j] EXCEPT !.stage = s].stage = s
<1>1. jobs \in Seq(Job)
  BY DEF IInv, DataOK
<1>2. jobs[j] \in Job /\ DOMAIN jobs = 1 .. Len(jobs) /\ Len(jobs) \in Nat
  BY <1>1, LenProperties, ElementOfSeq
<1> QED
  BY <1>2 DEF Job

LEMMA WorkerStartsKeeps ==
  ASSUME IInv, NEW j \in DOMAIN jobs, WorkerStarts(j) PROVE IInv'
<1>1. /\ jobs' = [jobs EXCEPT ![j] = [jobs[j] EXCEPT !.stage = "decoding"]]
      /\ UNCHANGED <<windowVars, ready, events>> /\ jobs[j].stage = "queued"
  BY DEF WorkerStarts
<1>2. Moves(j, "decoding")
  BY <1>1, JobType, ReplacedJob
<1>3. events' \in Seq(Event)
  BY <1>1 DEF IInv, DataOK
<1>4. DataOK' /\ FlagsOK' /\ Watching' /\ HistoryPairs' /\ StatusIsTrue'
  BY <1>1, <1>2, <1>3, WorkerKeeps
<1>5. /\ UNCHANGED <<watched, isProcessing, hurried, cursor, open, events>>
  BY <1>1 DEF windowVars
<1>6. \A k \in DOMAIN events : events[k].job \in DOMAIN jobs
  BY EventType
<1>7. Reported'
  BY <1>1, <1>2, <1>5, <1>6 DEF IInv, Reported, Moves
<1>8. Patient'
  BY <1>1, <1>2, <1>5, <1>6 DEF IInv, Patient, Busy, Moves
<1> QED
  BY <1>4, <1>7, <1>8 DEF IInv

LEMMA WorkerEndsKeeps ==
  ASSUME IInv, NEW j \in DOMAIN jobs, WorkerEnds(j) PROVE IInv'
<1>1. PICK a \in Answers :
        /\ jobs' = [jobs EXCEPT ![j].stage = "leaving", ![j].answer = a]
        /\ events' = IF a = "error" /\ open
                     THEN Append(events, [kind |-> "error", job |-> j]) ELSE events
  BY DEF WorkerEnds
<1>2. UNCHANGED <<windowVars, ready>> /\ jobs[j].stage = "decoding"
  BY DEF WorkerEnds
<1>3. Moves(j, "leaving")
  <2> DEFINE r == [[jobs[j] EXCEPT !.stage = "leaving"] EXCEPT !.answer = a]
  <2>1. a \in {"text", "nothing", "error"}
    BY <1>1 DEF Answers, Processor!Answers
  <2>2. r \in Job /\ r.text = jobs[j].text /\ r.stage = "leaving"
    BY <2>1, JobType DEF Job
  <2>3. jobs' = [jobs EXCEPT ![j] = r]
    BY <1>1, JobType DEF Job
  <2> HIDE DEF r
  <2> QED
    BY <2>2, <2>3, ReplacedJob
<1>4. events \in Seq(Event) /\ DOMAIN events = 1 .. Len(events) /\ Len(events) \in Nat
  BY LenProperties DEF IInv, DataOK
<1>5. [kind |-> "error", job |-> j] \in Event
  BY DEF Event
<1>6. events' \in Seq(Event)
  BY <1>1, <1>4, <1>5, AppendProperties
<1>7. DataOK' /\ FlagsOK' /\ Watching' /\ HistoryPairs' /\ StatusIsTrue'
  BY <1>2, <1>3, <1>6, WorkerKeeps
<1>8. UNCHANGED <<watched, isProcessing, hurried, cursor, open>>
  BY <1>2 DEF windowVars
<1>9. /\ events' = events \/ events' = Append(events, [kind |-> "error", job |-> j])
      /\ Len(events') \in Nat /\ DOMAIN events' = 1 .. Len(events')
  BY <1>1, <1>6, LenProperties
<1>10. \A k \in DOMAIN events' :
         \/ k \in DOMAIN events /\ events'[k] = events[k]
         \/ k = Len(events) + 1 /\ events'[k] = [kind |-> "error", job |-> j]
  BY <1>5, <1>9, Posted
<1>11. \A k \in DOMAIN events : events[k].job \in DOMAIN jobs
  BY EventType
<1>12. Reported'
  <2>1. \A k \in DOMAIN events' : events'[k].kind = "finished" =>
          k \in DOMAIN events /\ events[k].kind = "finished" /\ events'[k] = events[k]
    BY <1>10
  <2> QED
    BY <1>2, <1>3, <1>8, <1>11, <2>1 DEF IInv, Reported, Moves
<1>13. Patient'
  <2> SUFFICES ASSUME ~ hurried PROVE Patient'
    BY <1>8 DEF Patient
  <2>1. j = watched /\ isProcessing /\ Busy(watched)
    BY <1>2 DEF IInv, Patient, Busy
  <2>2. DOMAIN events = {}
    <3>1. \A k \in DOMAIN events : events[k].kind \in {"error", "finished"}
      BY EventType
    <3>2. \A k \in DOMAIN events : FALSE
      BY <1>2, <2>1, <3>1 DEF IInv, Patient, Reported
    <3> QED
      BY <3>2
  <2>3. Len(events) = 0
    BY <1>4, <2>2, SMT
  <2>4. \A k \in DOMAIN events' : k = 1 /\ events'[k].job = watched
    BY <1>10, <2>1, <2>2, <2>3
  <2>5. ~ Busy(watched)' /\ \A i \in DOMAIN jobs' : ~ Busy(i)'
    BY <1>3, <1>8, <2>1 DEF IInv, Patient, Busy, Moves
  <2> QED
    BY <1>8, <2>1, <2>4, <2>5 DEF IInv, Patient
<1> QED
  BY <1>7, <1>12, <1>13 DEF IInv

LEMMA WorkerReportsKeeps ==
  ASSUME IInv, NEW j \in DOMAIN jobs, WorkerReports(j) PROVE IInv'
<1>1. /\ jobs' = [jobs EXCEPT ![j] = [jobs[j] EXCEPT !.stage = "done"]]
      /\ UNCHANGED <<windowVars, ready>> /\ jobs[j].stage = "leaving"
      /\ \/ events' = events
         \/ watched = j /\ events' = Append(events, [kind |-> "finished", job |-> j])
  BY DEF WorkerReports
<1>2. Moves(j, "done")
  BY <1>1, JobType, ReplacedJob
<1>3. events \in Seq(Event) /\ DOMAIN events = 1 .. Len(events) /\ Len(events) \in Nat
  BY LenProperties DEF IInv, DataOK
<1>4. [kind |-> "finished", job |-> j] \in Event
  BY DEF Event
<1>5. events' \in Seq(Event)
  BY <1>1, <1>3, <1>4, AppendProperties
<1>6. DataOK' /\ FlagsOK' /\ Watching' /\ HistoryPairs' /\ StatusIsTrue'
  BY <1>1, <1>2, <1>5, WorkerKeeps
<1>7. UNCHANGED <<watched, isProcessing, hurried, cursor, open>>
  BY <1>1 DEF windowVars
<1>8. \A k \in DOMAIN events' :
         \/ k \in DOMAIN events /\ events'[k] = events[k]
         \/ k = Len(events) + 1 /\ watched = j
            /\ events'[k] = [kind |-> "finished", job |-> j]
  BY <1>1, <1>4, Posted
<1>9. \A k \in DOMAIN events : events[k].job \in DOMAIN jobs
  BY EventType
<1>10. Reported'
  <2>1. watched = j => \A k \in DOMAIN events : events[k].kind # "finished"
    BY <1>1 DEF IInv, Reported
  <2>2. ASSUME NEW k \in DOMAIN events', events'[k].kind = "finished"
        PROVE  events'[k].job = watched /\ jobs'[watched].stage = "done"
    BY <1>1, <1>2, <1>8, <1>9, <2>2 DEF IInv, Reported, Moves
  <2>3. ASSUME NEW k \in DOMAIN events', NEW l \in DOMAIN events',
               events'[k].kind = "finished", events'[l].kind = "finished"
        PROVE  k = l
    BY <1>8, <2>1, <2>3 DEF IInv, Reported
  <2> QED
    BY <1>7, <2>2, <2>3 DEF Reported
<1>11. Patient'
  <2>1. \A i \in DOMAIN jobs : Busy(i)' => Busy(i)
    BY <1>2 DEF Busy, Moves
  <2>2. DOMAIN jobs' = DOMAIN jobs
    BY <1>2 DEF Moves
  <2>3. \A k \in DOMAIN events' : events'[k].kind = "error" =>
          k \in DOMAIN events /\ events'[k] = events[k]
    BY <1>8
  <2> QED
    BY <1>7, <1>9, <2>1, <2>2, <2>3 DEF IInv, Patient
<1> QED
  BY <1>6, <1>10, <1>11 DEF IInv

-----------------------------------------------------------------------------
(* The event loop.                                                         *)

LEMMA Taken ==
  ASSUME IInv, events # <<>>
  PROVE  /\ Head(events) = events[1] /\ 1 \in DOMAIN events
         /\ Tail(events) \in Seq(Event)
         /\ \A k \in DOMAIN Tail(events) :
              /\ k \in Nat /\ k + 1 # 1 /\ k + 1 \in DOMAIN events
              /\ Tail(events)[k] = events[k + 1]
<1> DEFINE q == Tail(events)
<1>1. /\ q \in Seq(Event) /\ Len(q) = Len(events) - 1
      /\ \A i \in 1 .. Len(q) : q[i] = events[i + 1]
  BY EventType, HeadTailProperties
<1>2. Len(events) \in Nat \ {0} /\ Head(events) = events[1]
  BY EventType, EmptySeq
<1>3. DOMAIN q = 1 .. Len(q)
  BY <1>1, LenProperties
<1> HIDE DEF q
<1>4. \A k \in DOMAIN q : k \in Nat /\ k + 1 # 1 /\ k + 1 \in 1 .. Len(events)
  BY <1>1, <1>2, <1>3, SMT
<1>5. 1 \in 1 .. Len(events)
  BY <1>2, SMT
<1> QED
  BY <1>1, <1>2, <1>3, <1>4, <1>5, EventType DEF q

(* Both handlers take the event that comes first; what is left of an error *)
(* or of the end of a generation is as it was.                             *)
LEMMA HandlerKeeps ==
  ASSUME IInv, events # <<>>, events' = Tail(events),
         Head(events).kind \in {"error", "finished"},
         UNCHANGED <<ready, open, currentInputText, watched, jobs, hurried>>,
         cursor' = Restored(cursor), isProcessing' = FALSE
  PROVE  FlagsOK' /\ Watching' /\ Reported' /\ Patient' /\ cursor' \in Nat
<1>1. FlagsOK'
  BY DEF IInv, FlagsOK
<1>2. Watching'
  BY DEF IInv, Watching
<1>3. Reported'
  <2>1. ASSUME NEW k \in DOMAIN events', events'[k].kind = "finished"
        PROVE  events'[k].job = watched /\ jobs[watched].stage = "done"
    BY <2>1, Taken DEF IInv, Reported
  <2>2. ASSUME NEW k \in DOMAIN events', NEW l \in DOMAIN events',
               events'[k].kind = "finished", events'[l].kind = "finished"
        PROVE  k = l
    <3>1. k + 1 = l + 1 /\ k \in Nat /\ l \in Nat
      BY <2>2, Taken DEF IInv, Reported
    <3> QED
      BY <3>1, SMT
  <2> QED
    BY <2>1, <2>2 DEF Reported
<1>4. Patient'
  <2> SUFFICES ASSUME ~ hurried PROVE Patient'
    BY DEF Patient
  <2>1. events[1].kind \in {"error", "finished"} /\ 1 \in DOMAIN events
    BY Taken
  <2>2. ~ Busy(watched)
    BY <2>1 DEF IInv, Patient, Reported, Busy
  <2>3. \A j \in DOMAIN jobs : ~ Busy(j)
    BY <2>2 DEF IInv, Patient
  <2>4. \A k \in DOMAIN events' : events'[k].kind # "error"
    BY Taken DEF IInv, Patient
  <2>5. cursor' = 0
    <3>1. cursor \in {0, 1}
      BY DEF IInv, Patient, FlagsOK
    <3> QED
      BY <3>1, SMT DEF Restored
  <2> QED
    BY <2>3, <2>4, <2>5 DEF Patient, Busy
<1>5. cursor' \in Nat
  <2>1. cursor \in Nat
    BY DEF IInv, DataOK
  <2> QED
    BY <2>1, SMT DEF Restored
<1> QED
  BY <1>1, <1>2, <1>3, <1>4, <1>5

LEMMA HandleLLMErrorKeeps ==
  ASSUME IInv, HandleLLMError PROVE IInv'
<1>1. /\ events # <<>> /\ events' = Tail(events) /\ Head(events).kind = "error"
      /\ cursor' = Restored(cursor) /\ isProcessing' = FALSE
      /\ dialogs' = Append(dialogs, "error")
      /\ UNCHANGED <<ready, open, page, currentInputText, watched, jobs, status, shown,
                     history, exported, hurried>>
  BY DEF HandleLLMError
<1>2. FlagsOK' /\ Watching' /\ Reported' /\ Patient' /\ cursor' \in Nat
  BY <1>1, HandlerKeeps
<1>3. events' \in Seq(Event)
  BY <1>1, Taken
<1>4. /\ dialogs' \in Seq({"notice", "import", "save", "error"})
      /\ Len(dialogs) + 1 \in DOMAIN dialogs' /\ dialogs'[Len(dialogs) + 1] = "error"
  <2>1. dialogs \in Seq({"notice", "import", "save", "error"})
    BY DEF IInv, DataOK
  <2>2. /\ dialogs' \in Seq({"notice", "import", "save", "error"})
        /\ Len(dialogs') = Len(dialogs) + 1 /\ dialogs'[Len(dialogs) + 1] = "error"
    BY <1>1, <2>1, AppendProperties
  <2>3. DOMAIN dialogs' = 1 .. Len(dialogs') /\ Len(dialogs) \in Nat
    BY <2>1, <2>2, LenProperties
  <2> QED
    BY <2>2, <2>3, SMT
<1>5. DataOK'
  BY <1>1, <1>2, <1>3, <1>4 DEF IInv, DataOK, Event, resultsText
<1>6. HistoryPairs'
  BY <1>1 DEF IInv, HistoryPairs
<1>7. StatusIsTrue'
  BY <1>4 DEF StatusIsTrue, ToSet
<1> QED
  BY <1>2, <1>5, <1>6, <1>7 DEF IInv

LEMMA FinishedKeeps ==
  ASSUME IInv, Finished PROVE IInv'
<1>1. /\ events # <<>> /\ events' = Tail(events) /\ Head(events).kind = "finished"
      /\ cursor' = Restored(cursor) /\ isProcessing' = FALSE
      /\ UNCHANGED <<ready, open, dialogs, currentInputText, watched, jobs, exported,
                     hurried>>
      /\ Succeed \/ Fail
  BY DEF Finished
<1>2. FlagsOK' /\ Watching' /\ Reported' /\ Patient' /\ cursor' \in Nat
  BY <1>1, HandlerKeeps
<1>3. events' \in Seq(Event)
  BY <1>1, Taken
<1>4. watched \in DOMAIN jobs
  BY <1>1, Taken, EventType DEF IInv, Reported
<1>5. currentInputText \in Texts /\ jobs[watched].text = currentInputText
  <2>1. watched # 0
    BY <1>4, JobType, SMT
  <2> QED
    BY <2>1 DEF IInv, Watching
<1> DEFINE entry == [input |-> currentInputText, guide |-> watched]
           Entry == [input : Texts, guide : DOMAIN jobs]
<1>6. /\ history' = history \/ history' = <<entry>> \o history
      /\ shown' \in {shown, watched} /\ status' \in {"generated", "failed"}
      /\ page' \in {page, "results"}
  BY <1>1 DEF Succeed, Fail
<1>7. entry \in Entry /\ history \in Seq(Entry)
  BY <1>4, <1>5 DEF IInv, DataOK
<1>8. history' \in Seq(Entry) /\ \A h \in DOMAIN history' :
        history'[h] = entry \/ \E k \in DOMAIN history : history'[h] = history[k]
  <2> HIDE DEF entry, Entry
  <2>1. CASE history' = history
    BY <1>7, <2>1
  <2>2. CASE history' = <<entry>> \o history
    <3>1. <<entry>> \in Seq(Entry) /\ Len(<<entry>>) = 1 /\ <<entry>>[1] = entry
      BY <1>7
    <3>2. /\ history' \in Seq(Entry) /\ Len(history') = 1 + Len(history)
          /\ \A i \in 1 .. 1 + Len(history) :
               history'[i] = IF i <= 1 THEN <<entry>>[i] ELSE history[i - 1]
      BY <1>7, <2>2, <3>1, ConcatProperties
    <3>3. /\ DOMAIN history' = 1 .. Len(history') /\ Len(history) \in Nat
          /\ DOMAIN history = 1 .. Len(history)
      BY <1>7, <3>2, LenProperties
    <3>4. ASSUME NEW h \in DOMAIN history', h # 1
          PROVE  h - 1 \in DOMAIN history /\ history'[h] = history[h - 1]
      BY <3>2, <3>3, <3>4, SMT
    <3>5. 1 \in 1 .. 1 + Len(history)
      BY <3>3, SMT
    <3>6. history'[1] = entry
      BY <3>1, <3>2, <3>5
    <3> QED
      BY <3>2, <3>4, <3>6
  <2> QED
    BY <1>6, <2>1, <2>2
<1>9. HistoryPairs'
  BY <1>1, <1>5, <1>8 DEF IInv, HistoryPairs
<1>10. shown' \in 0 .. Len(jobs)
  <2>1. shown \in 0 .. Len(jobs) /\ watched \in 0 .. Len(jobs)
    BY DEF IInv, DataOK
  <2> QED
    BY <1>6, <2>1
<1>11. DataOK'
  BY <1>1, <1>2, <1>3, <1>6, <1>8, <1>10 DEF IInv, DataOK, Event, resultsText
<1>12. StatusIsTrue'
  BY <1>6 DEF StatusIsTrue
<1> QED
  BY <1>2, <1>9, <1>11, <1>12 DEF IInv

-----------------------------------------------------------------------------
(* A click that starts a generation.                                       *)

LEMMA RemoveAtProperties ==
  ASSUME NEW S, NEW s \in Seq(S), NEW i \in 1 .. Len(s)
  PROVE  /\ RemoveAt(s, i) \in Seq(S)
         /\ \A k \in DOMAIN RemoveAt(s, i) :
              \E l \in 1 .. Len(s) : l # i /\ RemoveAt(s, i)[k] = s[l]
<1> DEFINE n == Len(s)
           a == [k \in 1 .. i - 1 |-> s[k]]
           b == [k \in 1 .. n - i |-> s[i + k]]
<1>1. n \in Nat /\ i \in 1 .. n /\ \A k \in 1 .. n : s[k] \in S
  BY LenProperties, ElementOfSeq
<1>2. SubSeq(s, 1, i - 1) = a
  BY <1>1, SMT
<1>3. SubSeq(s, i + 1, n) = b
  BY <1>1, SMT
<1> HIDE DEF n
<1>4. a \in Seq(S) /\ Len(a) = i - 1 /\ \A k \in 1 .. i - 1 : a[k] = s[k]
  BY <1>1, SMT
<1>5. b \in Seq(S) /\ Len(b) = n - i /\ \A k \in 1 .. n - i : b[k] = s[i + k]
  BY <1>1, SMT
<1> HIDE DEF a, b
<1>6. /\ a \o b \in Seq(S) /\ Len(a \o b) = Len(a) + Len(b)
      /\ \A k \in 1 .. Len(a) + Len(b) :
           (a \o b)[k] = IF k <= Len(a) THEN a[k] ELSE b[k - Len(a)]
  BY <1>4, <1>5, ConcatProperties
<1>7. DOMAIN (a \o b) = 1 .. Len(a) + Len(b)
  BY <1>6, LenProperties
<1>8. ASSUME NEW k \in DOMAIN (a \o b)
      PROVE  \E l \in 1 .. n : l # i /\ (a \o b)[k] = s[l]
  <2>1. CASE k <= i - 1
    <3>1. k \in 1 .. n /\ k # i /\ (a \o b)[k] = s[k]
      BY <1>1, <1>4, <1>5, <1>6, <1>7, <2>1, SMT
    <3> QED
      BY <3>1
  <2>2. CASE ~ (k <= i - 1)
    <3>1. /\ i + (k - (i - 1)) \in 1 .. n /\ i + (k - (i - 1)) # i
          /\ k - (i - 1) \in 1 .. n - i
          /\ ~ (k <= Len(a)) /\ k \in 1 .. Len(a) + Len(b)
      BY <1>1, <1>4, <1>5, <1>7, <2>2, SMT
    <3>2. (a \o b)[k] = s[i + (k - (i - 1))]
      BY <1>4, <1>5, <1>6, <3>1
    <3> QED
      BY <3>1, <3>2
  <2> QED
    BY <2>1, <2>2
<1>9. RemoveAt(s, i) = a \o b
  BY <1>2, <1>3 DEF RemoveAt, n
<1> QED
  BY <1>6, <1>8, <1>9 DEF n

(* After setFuture no end of an earlier generation is posted any more.     *)
LEMMA Unposted ==
  ASSUME IInv
  PROVE  /\ Unwatched(events) \in Seq(Event)
         /\ \A k \in DOMAIN Unwatched(events) :
              /\ Unwatched(events)[k].kind # "finished"
              /\ \E l \in DOMAIN events : Unwatched(events)[k] = events[l]
<1> DEFINE K == {k \in DOMAIN events : events[k].kind = "finished"}
<1>1. CASE K = {}
  <2>1. Unwatched(events) = events
    BY <1>1 DEF Unwatched
  <2> QED
    BY <1>1, <2>1, EventType
<1>2. CASE K # {}
  <2> DEFINE c == CHOOSE k \in K : TRUE
  <2>1. c \in DOMAIN events /\ events[c].kind = "finished"
    BY <1>2
  <2>2. Unwatched(events) = RemoveAt(events, c)
    BY <1>2 DEF Unwatched
  <2> HIDE DEF c, K
  <2>3. c \in 1 .. Len(events) /\ DOMAIN events = 1 .. Len(events) /\ events \in Seq(Event)
    BY <2>1, EventType
  <2>4. /\ RemoveAt(events, c) \in Seq(Event)
        /\ \A k \in DOMAIN RemoveAt(events, c) :
             \E l \in 1 .. Len(events) : l # c /\ RemoveAt(events, c)[k] = events[l]
    BY <2>3, RemoveAtProperties
  <2>5. \A l \in DOMAIN events : l # c => events[l].kind # "finished"
    BY <2>1 DEF IInv, Reported
  <2> QED
    BY <2>2, <2>3, <2>4, <2>5
<1> QED
  BY <1>1, <1>2

LEMMA MoreJobs ==
  ASSUME NEW m \in Nat, NEW n \in Nat, m <= n
  PROVE  /\ Seq([kind : {"error", "finished"}, job : 1 .. m])
              \subseteq Seq([kind : {"error", "finished"}, job : 1 .. n])
         /\ Seq([input : Texts, guide : 1 .. m]) \subseteq Seq([input : Texts, guide : 1 .. n])
<1> DEFINE E(k) == [kind : {"error", "finished"}, job : 1 .. k]
           H(k) == [input : Texts, guide : 1 .. k]
<1>1. 1 .. m \subseteq 1 .. n
  BY SMT
<1>2. E(m) \subseteq E(n) /\ H(m) \subseteq H(n)
  BY <1>1
<1> HIDE DEF E, H
<1>3. ASSUME NEW S, NEW T, S \subseteq T PROVE Seq(S) \subseteq Seq(T)
  BY <1>3, SMT
<1>4. Seq(E(m)) \subseteq Seq(E(n)) /\ Seq(H(m)) \subseteq Seq(H(n))
  BY <1>2, <1>3
<1> QED
  BY <1>4 DEF E, H

LEMMA AnalyzeKeeps ==
  ASSUME IInv, NEW t \in Texts, Analyze(t) PROVE IInv'
<1> DEFINE new == [text |-> t, stage |-> "queued", answer |-> "none"]
<1>1. /\ dialogs = <<>> /\ open /\ Len(jobs) < MaxJobs
      /\ currentInputText' = t /\ status' = "generating" /\ isProcessing' = TRUE
      /\ cursor' = cursor + 1 /\ jobs' = Append(jobs, new) /\ watched' = Len(jobs')
      /\ events' = Unwatched(events)
      /\ UNCHANGED <<ready, open, page, dialogs, shown, history, exported>>
  BY DEF Analyze, AtWindow
<1>2. hurried' \in BOOLEAN /\ (~ hurried' => ~ hurried /\ ~ isProcessing)
  BY DEF Analyze, IInv, FlagsOK
<1>3. new \in Job /\ jobs \in Seq(Job)
  BY DEF Job, IInv, DataOK
<1>4. /\ jobs' \in Seq(Job) /\ Len(jobs') = Len(jobs) + 1
      /\ \A i \in 1 .. Len(jobs) : jobs'[i] = jobs[i]
      /\ jobs'[Len(jobs) + 1] = new
  <2> HIDE DEF new
  <2> QED
    BY <1>1, <1>3, AppendProperties
<1>5. /\ DOMAIN jobs = 1 .. Len(jobs) /\ DOMAIN jobs' = 1 .. Len(jobs')
      /\ Len(jobs) \in Nat
  BY <1>3, <1>4, LenProperties
<1>6. /\ Len(jobs) <= Len(jobs') /\ Len(jobs') \in Nat /\ Len(jobs') \in DOMAIN jobs'
      /\ DOMAIN jobs \subseteq DOMAIN jobs' /\ Len(jobs') <= MaxJobs
      /\ watched' # 0
  BY <1>1, <1>4, <1>5, AppAssumption, SMT
<1>7. events' \in Seq(Event')
  <2>1. events' \in Seq(Event)
    BY <1>1, Unposted
  <2> QED
    BY <1>5, <1>6, <2>1, MoreJobs, Zenon DEF Event
<1>8. history' \in Seq([input : Texts, guide : DOMAIN jobs'])
  <2>1. history \in Seq([input : Texts, guide : DOMAIN jobs])
    BY DEF IInv, DataOK
  <2> QED
    BY <1>1, <1>5, <1>6, <2>1, MoreJobs, Zenon
<1>9. watched' \in 0 .. Len(jobs') /\ shown' \in 0 .. Len(jobs') /\ cursor' \in Nat
  <2>1. shown \in 0 .. Len(jobs) /\ cursor \in Nat
    BY DEF IInv, DataOK
  <2> QED
    BY <1>1, <1>6, <2>1, SMT
<1>10. DataOK'
  <2>1. /\ page \in {"home", "results"}
        /\ dialogs \in Seq({"notice", "import", "save", "error"})
        /\ exported \in {Unsaid, resultsText}
    BY DEF IInv, DataOK
  <2> QED
    BY <1>1, <1>4, <1>6, <1>7, <1>8, <1>9, <2>1 DEF DataOK, resultsText
<1>11. FlagsOK'
  BY <1>1, <1>2 DEF IInv, FlagsOK
<1>12. Watching'
  BY <1>1, <1>4 DEF Watching
<1>13. Reported'
  BY <1>1, Unposted DEF Reported
<1>14. HistoryPairs'
  <2>1. \A h \in DOMAIN history : history[h].guide \in 1 .. Len(jobs)
    <3>1. history \in Seq([input : Texts, guide : DOMAIN jobs])
      BY DEF IInv, DataOK
    <3>2. \A h \in 1 .. Len(history) : history[h] \in [input : Texts, guide : DOMAIN jobs]
      BY <3>1, ElementOfSeq
    <3>3. DOMAIN history = 1 .. Len(history)
      BY <3>1, LenProperties
    <3> QED
      BY <1>5, <3>2, <3>3
  <2> QED
    BY <1>1, <1>4, <2>1 DEF IInv, HistoryPairs
<1>15. StatusIsTrue'
  BY <1>1 DEF StatusIsTrue
<1>16. Patient'
  <2> SUFFICES ASSUME ~ hurried' PROVE Patient'
    BY DEF Patient
  <2>1. ~ hurried /\ ~ isProcessing
    BY <1>2
  <2>2. cursor' = 1
    BY <1>1, <2>1 DEF IInv, Patient
  <2>3. \A k \in DOMAIN events' : events'[k].kind # "error"
    BY <1>1, <2>1, Unposted DEF IInv, Patient
  <2>4. ASSUME NEW j \in DOMAIN jobs', Busy(j)' PROVE j = watched'
    <3>1. j # Len(jobs) + 1 => j \in 1 .. Len(jobs)
      BY <1>4, <1>5, SMT
    <3>2. j \in DOMAIN jobs => ~ Busy(j)
      BY <2>1 DEF IInv, Patient
    <3> QED
      BY <1>1, <1>4, <1>5, <2>4, <3>1, <3>2 DEF Busy
  <2> QED
    BY <1>1, <2>2, <2>3, <2>4 DEF Patient
<1> QED
  BY <1>10, <1>11, <1>12, <1>13, <1>14, <1>15, <1>16 DEF IInv

-----------------------------------------------------------------------------
(* The invariant.                                                          *)

LEMMA InitIInv == Init => IInv
<1> SUFFICES ASSUME Init PROVE IInv
  OBVIOUS
<1>1. /\ ready \in BOOLEAN /\ open = TRUE /\ page = "home" /\ dialogs = <<>>
      /\ isProcessing = FALSE /\ cursor = 0 /\ currentInputText = "" /\ watched = 0
      /\ jobs = <<>> /\ events = <<>> /\ shown = 0 /\ history = <<>>
      /\ exported = Unsaid /\ hurried = FALSE
      /\ status \in {"ready", "not_ready"}
  BY Zenon DEF Init
<1>2. /\ Len(<<>>) = 0 /\ DOMAIN <<>> = {} /\ \A S : <<>> \in Seq(S)
  BY EmptySeq, SMT
<1>3. 0 \in 0 .. 0 /\ 0 \in Nat /\ 0 <= MaxJobs
  BY AppAssumption, SMT
<1>4. DataOK
  BY <1>1, <1>2, <1>3, Zenon DEF DataOK
<1>5. FlagsOK
  BY <1>1 DEF FlagsOK
<1>6. Watching /\ Reported /\ HistoryPairs /\ StatusIsTrue
  BY <1>1, <1>2 DEF Watching, Reported, HistoryPairs, StatusIsTrue
<1>7. Patient
  BY <1>1, <1>2 DEF Patient
<1> QED
  BY <1>4, <1>5, <1>6, <1>7 DEF IInv

LEMMA StutterKeeps == ASSUME IInv, UNCHANGED vars PROVE IInv'
<1> USE DEF vars, windowVars
<1>1. DataOK' /\ FlagsOK'
  BY DEF IInv, DataOK, FlagsOK, Event, resultsText
<1>2. Watching' /\ Reported' /\ HistoryPairs' /\ StatusIsTrue'
  BY DEF IInv, Watching, Reported, HistoryPairs, StatusIsTrue
<1>3. Patient'
  BY DEF IInv, Patient, Busy
<1> QED
  BY <1>1, <1>2, <1>3 DEF IInv

LEMMA NextIInv == IInv /\ [Next]_vars => IInv'
<1> SUFFICES ASSUME IInv, [Next]_vars PROVE IInv'
  OBVIOUS
<1>1. CASE User
  BY <1>1, DialogsKeep, AnalyzeKeeps, CloseDialogKeeps, CloseWindowKeeps, Zenon DEF User
<1>2. CASE EventLoop
  BY <1>2, HandleLLMErrorKeeps, FinishedKeeps, Zenon DEF EventLoop
<1>3. ASSUME NEW j \in DOMAIN jobs, Worker(j) PROVE IInv'
  BY <1>3, WorkerStartsKeeps, WorkerEndsKeeps, WorkerReportsKeeps, Zenon DEF Worker
<1>4. CASE UNCHANGED vars
  BY <1>4, StutterKeeps
<1> QED
  BY <1>1, <1>2, <1>3, <1>4, Zenon DEF Next

LEMMA Invariance == Spec => []IInv
<1> QED
  BY InitIInv, NextIInv, PTL DEF Spec

-----------------------------------------------------------------------------
(* What holds of the window and its threads.                               *)

(* Every variable of the window, its threads and its events keeps its type;*)
(* a handler of the finished signal always finds the generation it reads.  *)
THEOREM TypeCorrect == Spec => []TypeOK
<1>1. IInv => TypeOK
  BY Zenon DEF IInv, DataOK, FlagsOK, TypeOK, Event
<1> QED
  BY <1>1, Invariance, PTL

(* Whatever the user clicks and whenever, a guide is filed in the history  *)
(* with the text it was made from.                                         *)
THEOREM GuidesFiledRight == Spec => []HistoryPairs
<1>1. IInv => HistoryPairs
  BY DEF IInv
<1> QED
  BY <1>1, Invariance, PTL

(* "Generating" is never left in the status bar.                           *)
THEOREM StatusTrue == Spec => []StatusIsTrue
<1>1. IInv => StatusIsTrue
  BY DEF IInv
<1> QED
  BY <1>1, Invariance, PTL

(* With a user who waits for the end of a generation no two threads decode *)
(* on the one context, however many threads the pool has.                  *)
THEOREM OneThreadDecodes == Spec => []OneDecoder
<1>1. IInv => OneDecoder
  <2> SUFFICES ASSUME IInv, ~ hurried PROVE Cardinality(Decoding) <= 1
    BY DEF OneDecoder
  <2>1. Decoding \subseteq {watched}
    BY DEF Decoding, IInv, Patient, Busy
  <2>2. Cardinality({watched}) = 1 /\ IsFiniteSet({watched})
    BY FS_Singleton
  <2>3. Cardinality(Decoding) <= Cardinality({watched})
    BY <2>1, <2>2, FS_Subset
  <2> QED
    BY <2>2, <2>3
<1> QED
  BY <1>1, Invariance, PTL

(* With such a user no thread decodes once the window, and the context     *)
(* with it, is gone.                                                       *)
THEOREM NoDecodingAfterClose == Spec => []NoUseAfterFree
<1>1. IInv => NoUseAfterFree
  BY DEF IInv, Patient, Busy, Decoding, NoUseAfterFree
<1> QED
  BY <1>1, Invariance, PTL

(* With such a user the busy flag and the cursor tell the truth.           *)
THEOREM IndicatorTrue == Spec => []IndicatorWhileDecoding
<1>1. IInv => IndicatorWhileDecoding
  <2> SUFFICES ASSUME IInv, ~ hurried
               PROVE  /\ Decoding # {} => isProcessing
                      /\ isProcessing => cursor = 1
                      /\ ~ isProcessing => cursor = 0
    BY DEF IndicatorWhileDecoding
  <2> QED
    BY DEF IInv, Patient, Busy, Decoding
<1> QED
  BY <1>1, Invariance, PTL

-----------------------------------------------------------------------------
(* The end of a generation is heard.                                       *)

Answered == \A j \in DOMAIN jobs : jobs[j].stage \in {"leaving", "done"} => jobs[j].answer # "none"

(* Once the generation the window follows is over, its end is posted or    *)
(* has been handled.                                                       *)
Handled == ~ isProcessing /\ (jobs[watched].answer = "text" => shown = watched)
Heard == open /\ watched # 0 /\ jobs[watched].stage = "done" => EndIsPosted \/ Handled

HeardInv == Answered /\ Heard /\ (isProcessing => watched # 0)

LEMMA WatchedIsJob == IInv => watched = 0 \/ watched \in DOMAIN jobs
<1> SUFFICES ASSUME IInv PROVE watched = 0 \/ watched \in DOMAIN jobs
  OBVIOUS
<1>1. watched \in 0 .. Len(jobs) /\ DOMAIN jobs = 1 .. Len(jobs) /\ Len(jobs) \in Nat
  BY LenProperties DEF IInv, DataOK
<1> QED
  BY <1>1, SMT

(* A step of a thread that does not end the generation the window follows. *)
LEMMA WorkerHeard ==
  ASSUME IInv, HeardInv, NEW j \in DOMAIN jobs, Worker(j) PROVE HeardInv'
<1>1. UNCHANGED <<open, watched, isProcessing, shown>>
  BY DEF Worker, WorkerStarts, WorkerEnds, WorkerReports, windowVars
<1>2. jobs \in Seq(Job) /\ DOMAIN jobs = 1 .. Len(jobs) /\ jobs[j] \in Job
  BY JobType DEF IInv, DataOK
<1>3. PICK r \in Job : jobs' = [jobs EXCEPT ![j] = r] /\
        \/ r.stage = "decoding"
        \/ r.stage = "leaving" /\ r.answer # "none"
        \/ r.stage = "done" /\ r.answer = jobs[j].answer /\ jobs[j].stage = "leaving"
  <2>1. CASE WorkerStarts(j)
    BY <1>2, <2>1, JobType DEF WorkerStarts, Job
  <2>2. CASE WorkerEnds(j)
    <3>1. PICK a \in {"text", "nothing", "error"} :
            jobs' = [jobs EXCEPT ![j].stage = "leaving", ![j].answer = a]
      BY <2>2 DEF WorkerEnds, Answers, Processor!Answers
    <3>2. jobs' = [jobs EXCEPT ![j] = [jobs[j] EXCEPT !.stage = "leaving", !.answer = a]]
      BY <1>2, <3>1 DEF Job
    <3>3. [jobs[j] EXCEPT !.stage = "leaving", !.answer = a] \in Job
      BY <1>2 DEF Job
    <3> QED
      BY <1>2, <3>2, <3>3 DEF Job
  <2>3. CASE WorkerReports(j)
    BY <1>2, <2>3, JobType DEF WorkerReports, Job
  <2> QED
    BY <2>1, <2>2, <2>3 DEF Worker
<1>4. DOMAIN jobs' = DOMAIN jobs /\ jobs'[j] = r /\ \A i \in DOMAIN jobs : i # j => jobs'[i] = jobs[i]
  BY <1>2, <1>3
<1>5. Answered'
  BY <1>3, <1>4 DEF HeardInv, Answered
<1>6. EndIsPosted => EndIsPosted'
  <2>1. CASE events' = events
    BY <2>1 DEF EndIsPosted
  <2>2. ASSUME NEW e \in Event, events' = Append(events, e) PROVE EndIsPosted => EndIsPosted'
    <3>1. /\ Len(events') = Len(events) + 1
          /\ \A i \in 1 .. Len(events) : events'[i] = events[i]
          /\ events' \in Seq(Event)
      BY <2>2, EventType, AppendProperties
    <3>2. DOMAIN events' = 1 .. Len(events') /\ DOMAIN events \subseteq DOMAIN events'
      BY <3>1, EventType, LenProperties
    <3> QED
      BY <3>1, <3>2, EventType DEF EndIsPosted
  <2>3. /\ [kind |-> "error", job |-> j] \in Event
        /\ [kind |-> "finished", job |-> j] \in Event
    BY DEF Event
  <2> QED
    BY <2>1, <2>2, <2>3 DEF Worker, WorkerStarts, WorkerEnds, WorkerReports
<1>7. Heard'
  <2> SUFFICES ASSUME open, watched # 0, jobs'[watched].stage = "done"
               PROVE  EndIsPosted' \/ Handled'
    BY <1>1 DEF Heard
  <2>1. watched \in DOMAIN jobs
    BY WatchedIsJob
  <2>2. CASE watched # j
    <3>1. EndIsPosted \/ Handled
      BY <1>4, <2>1, <2>2 DEF HeardInv, Heard
    <3> QED
      BY <1>1, <1>4, <1>6, <2>1, <2>2, <3>1 DEF Handled
  <2>3. CASE watched = j
    <3>1. WorkerReports(j)
      BY <1>2, <1>4, <2>3 DEF Worker, WorkerStarts, WorkerEnds, WorkerReports, Job
    <3>2. events' = Append(events, [kind |-> "finished", job |-> j])
      BY <2>3, <3>1 DEF WorkerReports
    <3>3. [kind |-> "finished", job |-> j] \in Event
      BY DEF Event
    <3>4. /\ Len(events') = Len(events) + 1 /\ events' \in Seq(Event)
          /\ events'[Len(events) + 1] = [kind |-> "finished", job |-> j]
      BY <3>2, <3>3, EventType, AppendProperties
    <3>5. Len(events) + 1 \in DOMAIN events'
      <4>1. DOMAIN events' = 1 .. Len(events')
        BY <3>4, LenProperties
      <4> QED
        BY <3>4, <4>1, EventType, SMT
    <3> QED
      BY <3>4, <3>5 DEF EndIsPosted
  <2> QED
    BY <2>2, <2>3
<1> QED
  BY <1>1, <1>5, <1>7 DEF HeardInv

LEMMA HandlersHeard ==
  ASSUME IInv, HeardInv, EventLoop PROVE HeardInv'
<1>1. /\ events # <<>> /\ events' = Tail(events) /\ isProcessing' = FALSE
      /\ UNCHANGED <<open, watched, jobs>>
  BY DEF EventLoop, HandleLLMError, Finished
<1>2. Answered'
  BY <1>1 DEF HeardInv, Answered
<1>3. CASE HandleLLMError
  <2>1. Head(events).kind = "error" /\ shown' = shown
    BY <1>3 DEF HandleLLMError
  <2>2. ASSUME NEW k \in DOMAIN events, events[k].kind = "finished"
        PROVE  k - 1 \in DOMAIN Tail(events) /\ Tail(events)[k - 1] = events[k]
    <3>1. k # 1
      BY <1>1, <2>1, <2>2, Taken
    <3>2. /\ Tail(events) \in Seq(Event) /\ Len(Tail(events)) = Len(events) - 1
          /\ \A i \in 1 .. Len(Tail(events)) : Tail(events)[i] = events[i + 1]
      BY <1>1, EventType, HeadTailProperties
    <3>3. DOMAIN Tail(events) = 1 .. Len(Tail(events))
      BY <3>2, LenProperties
    <3>4. k - 1 \in 1 .. Len(Tail(events)) /\ (k - 1) + 1 = k
      BY <3>1, <3>2, EventType, SMT
    <3> QED
      BY <3>2, <3>3, <3>4
  <2>3. EndIsPosted => EndIsPosted'
    BY <1>1, <2>2 DEF EndIsPosted
  <2>4. Handled => Handled'
    BY <1>1, <2>1 DEF Handled
  <2> QED
    BY <1>1, <1>2, <2>3, <2>4 DEF HeardInv, Heard
<1>4. CASE Finished
  <2>1. Handled'
    BY <1>1, <1>4 DEF Finished, Succeed, Fail, Handled
  <2> QED
    BY <1>1, <1>2, <2>1 DEF HeardInv, Heard
<1> QED
  BY <1>3, <1>4 DEF EventLoop

LEMMA AnalyzeHeard ==
  ASSUME IInv, HeardInv, NEW t \in Texts, Analyze(t) PROVE HeardInv'
<1> DEFINE new == [text |-> t, stage |-> "queued", answer |-> "none"]
<1>1. jobs' = Append(jobs, new) /\ watched' = Len(jobs')
  BY DEF Analyze
<1>2. new \in Job /\ jobs \in Seq(Job)
  BY DEF Job, IInv, DataOK
<1>3. /\ jobs' \in Seq(Job) /\ Len(jobs') = Len(jobs) + 1
      /\ \A i \in 1 .. Len(jobs) : jobs'[i] = jobs[i]
      /\ jobs'[Len(jobs) + 1] = new
  <2> HIDE DEF new
  <2> QED
    BY <1>1, <1>2, AppendProperties
<1>4. /\ DOMAIN jobs = 1 .. Len(jobs) /\ DOMAIN jobs' = 1 .. Len(jobs') /\ Len(jobs) \in Nat
  BY <1>2, <1>3, LenProperties
<1>5. watched' # 0 /\ \A i \in DOMAIN jobs' : i \in DOMAIN jobs \/ i = Len(jobs) + 1
  BY <1>1, <1>3, <1>4, SMT
<1>6. Answered'
  BY <1>3, <1>4, <1>5 DEF HeardInv, Answered
<1>7. Heard'
  BY <1>1, <1>3 DEF Heard
<1> QED
  BY <1>5, <1>6, <1>7 DEF HeardInv

LEMMA HeardInvariant == Spec => []HeardInv
<1>1. Init => HeardInv
  <2> SUFFICES ASSUME Init PROVE HeardInv
    OBVIOUS
  <2>1. jobs = <<>> /\ watched = 0 /\ isProcessing = FALSE
    BY Zenon DEF Init
  <2> QED
    BY <2>1 DEF HeardInv, Answered, Heard
<1>2. IInv /\ HeardInv /\ [Next]_vars => HeardInv'
  <2> SUFFICES ASSUME IInv, HeardInv, [Next]_vars PROVE HeardInv'
    OBVIOUS
  <2>1. CASE UNCHANGED <<jobs, watched, events, isProcessing, shown>> /\ (open' => open)
    BY <2>1 DEF HeardInv, Answered, Heard, Handled, EndIsPosted
  <2>2. CASE User
    <3>1. CASE (\E t \in Texts : Refuse(t)) \/ OpenDialog \/ Copy \/ CloseDialog \/ CloseWindow
      <4>1. UNCHANGED <<jobs, watched, events, isProcessing, shown>>
        BY <3>1, Zenon DEF Refuse, OpenDialog, Copy, CloseDialog, CloseWindow
      <4>2. open' => open
        BY <3>1, Zenon DEF Refuse, OpenDialog, Copy, CloseDialog, CloseWindow
      <4> QED
        BY <2>1, <4>1, <4>2
    <3> QED
      BY <2>2, <3>1, AnalyzeHeard, Zenon DEF User
  <2>3. CASE UNCHANGED vars
    <3>1. UNCHANGED <<jobs, watched, events, isProcessing, shown>> /\ (open' => open)
      BY <2>3, Zenon DEF vars, windowVars
    <3> QED
      BY <2>1, <3>1
  <2> QED
    BY <2>2, <2>3, HandlersHeard, WorkerHeard, Zenon DEF Next
<1> QED
  BY <1>1, <1>2, Invariance, PTL DEF Spec

(* The window is never left busy by a generation that is over: whatever is *)
(* clicked while others run, its end is posted and waits to be handled.    *)
THEOREM EndNotForgotten == Spec => []EndIsHeard
<1>1. HeardInv => EndIsHeard
  BY DEF HeardInv, Heard, Handled, EndIsHeard
<1> QED
  BY <1>1, HeardInvariant, PTL

(* The lambda that handles finished reads the answer of the generation     *)
(* that has ended, and never waits for one.                                *)
THEOREM ResultIsReady == Spec => []AnswerIsThere
<1>1. IInv /\ HeardInv => AnswerIsThere
  <2> SUFFICES ASSUME IInv, HeardInv, NEW k \in DOMAIN events, events[k].kind = "finished"
               PROVE  events[k].job = watched /\ jobs[watched].answer # "none"
    BY DEF AnswerIsThere
  <2>1. events[k].job = watched /\ jobs[watched].stage = "done" /\ watched \in DOMAIN jobs
    BY EventType DEF IInv, Reported
  <2> QED
    BY <2>1 DEF HeardInv, Answered
<1> QED
  BY <1>1, Invariance, HeardInvariant, PTL

(* The guide of the generation the window follows is shown, or the signal  *)
(* that shows it is still to be handled.                                   *)
THEOREM GuideNotLost == Spec => []GuideOnItsWay
<1>1. HeardInv => GuideOnItsWay
  BY DEF HeardInv, Heard, Handled, GuideOnItsWay
<1> QED
  BY <1>1, HeardInvariant, PTL

(* Both: for any number of threads and generations nothing is forgotten.   *)
THEOREM NothingIsForgotten == Spec => []NothingForgotten
  BY EndNotForgotten, GuideNotLost, PTL DEF NothingForgotten

-----------------------------------------------------------------------------
(* The window implements StudySession.                                     *)

SeenVars == <<open, Asked, Awaited, shown, history>>

LEMMA AskedIs ==
  ASSUME IInv
  PROVE  /\ Asked \in Seq(Texts) /\ Len(Asked) = Len(jobs) /\ Len(jobs) \in Nat
         /\ DOMAIN jobs = 1 .. Len(jobs) /\ \A j \in DOMAIN jobs : Asked[j] = jobs[j].text
<1>1. jobs \in Seq(Job) /\ Len(jobs) \in Nat /\ DOMAIN jobs = 1 .. Len(jobs)
  BY LenProperties DEF IInv, DataOK
<1>2. \A j \in 1 .. Len(jobs) : jobs[j].text \in Texts
  <2>1. \A j \in 1 .. Len(jobs) : jobs[j] \in Job
    BY <1>1, ElementOfSeq
  <2> QED
    BY <2>1 DEF Job
<1> DEFINE n == Len(jobs)
<1>3. Asked = [j \in 1 .. n |-> jobs[j].text]
  BY <1>1 DEF Asked
<1> HIDE DEF n
<1>4. n \in Nat /\ \A j \in 1 .. n : jobs[j].text \in Texts
  BY <1>1, <1>2 DEF n
<1>5. [j \in 1 .. n |-> jobs[j].text] \in Seq(Texts) /\ Len([j \in 1 .. n |-> jobs[j].text]) = n
  BY <1>4, SMT
<1> QED
  BY <1>1, <1>3, <1>5 DEF n

LEMMA AskedGrows ==
  ASSUME IInv, NEW t \in Texts, Analyze(t)
  PROVE  Asked' = Append(Asked, t) /\ Awaited' = Len(Asked) + 1
<1>1. IInv'
  BY AnalyzeKeeps
<1>2. /\ Asked \in Seq(Texts) /\ Len(Asked) = Len(jobs) /\ Len(jobs) \in Nat
      /\ DOMAIN jobs = 1 .. Len(jobs) /\ \A j \in DOMAIN jobs : Asked[j] = jobs[j].text
  BY AskedIs
<1>3. /\ Asked' \in Seq(Texts) /\ Len(Asked') = Len(jobs')
      /\ DOMAIN jobs' = 1 .. Len(jobs') /\ \A j \in DOMAIN jobs' : Asked'[j] = jobs'[j].text
  <2>1. (IInv => /\ Asked \in Seq(Texts) /\ Len(Asked) = Len(jobs)
                 /\ DOMAIN jobs = 1 .. Len(jobs) /\ \A j \in DOMAIN jobs : Asked[j] = jobs[j].text)'
    BY AskedIs, PTL
  <2> QED
    BY <1>1, <2>1
<1> DEFINE new == [text |-> t, stage |-> "queued", answer |-> "none"]
<1>4. jobs' = Append(jobs, new) /\ watched' = Len(jobs') /\ new \in Job /\ jobs \in Seq(Job)
  BY DEF Analyze, Job, IInv, DataOK
<1>5. new.text = t /\ new.stage = "queued"
  OBVIOUS
<1> HIDE DEF new
<1>6. /\ Len(jobs') = Len(jobs) + 1 /\ jobs'[Len(jobs) + 1] = new
      /\ \A i \in 1 .. Len(jobs) : jobs'[i] = jobs[i]
  BY <1>4, AppendProperties
<1> DEFINE q == Append(Asked, t)
<1>7. /\ q \in Seq(Texts) /\ Len(q) = Len(Asked) + 1 /\ q[Len(Asked) + 1] = t
      /\ \A i \in 1 .. Len(Asked) : q[i] = Asked[i]
  BY <1>2, AppendProperties
<1> HIDE DEF q
<1>8. \A i \in 1 .. Len(Asked') : Asked'[i] = q[i]
  <2>1. ASSUME NEW i \in 1 .. Len(jobs) + 1 PROVE Asked'[i] = q[i]
    <3>1. i \in 1 .. Len(jobs) \/ i = Len(jobs) + 1
      BY <1>2, SMT
    <3> QED
      BY <1>2, <1>3, <1>5, <1>6, <1>7, <2>1, <3>1
  <2> QED
    BY <1>3, <1>6, <2>1
<1>9. Asked' = q
  BY <1>2, <1>3, <1>6, <1>7, <1>8, SeqEqual
<1>10. Awaited' = Len(Asked) + 1
  <2>1. watched' = Len(jobs) + 1 /\ watched' # 0 /\ jobs'[watched'].stage # "done"
    BY <1>2, <1>4, <1>5, <1>6
  <2> QED
    BY <1>2, <2>1 DEF Awaited
<1> QED
  BY <1>9, <1>10 DEF q

LEMMA AskedStays ==
  ASSUME IInv, DOMAIN jobs' = DOMAIN jobs, \A i \in DOMAIN jobs : jobs'[i].text = jobs[i].text
  PROVE  Asked' = Asked
<1> QED
  BY DEF Asked

(* A step of a thread is not seen; when the window is closed the end of the*)
(* generation it followed may be lost.                                     *)
LEMMA WorkerSeen ==
  ASSUME IInv, NEW j \in DOMAIN jobs, Worker(j)
  PROVE  [Session!Next]_SeenVars
<1>1. UNCHANGED <<open, watched, shown, history>>
  BY DEF Worker, WorkerStarts, WorkerEnds, WorkerReports, windowVars
<1>2. jobs \in Seq(Job) /\ DOMAIN jobs = 1 .. Len(jobs) /\ jobs[j] \in Job /\ Len(jobs) \in Nat
  BY JobType DEF IInv, DataOK
<1>3. PICK r \in Job : jobs' = [jobs EXCEPT ![j] = r] /\ r.text = jobs[j].text /\
        (r.stage = "done" => WorkerReports(j))
  <2>1. CASE WorkerStarts(j)
    BY <1>2, <2>1, JobType DEF WorkerStarts, Job
  <2>2. CASE WorkerEnds(j)
    <3>1. PICK a \in {"text", "nothing", "error"} :
            jobs' = [jobs EXCEPT ![j].stage = "leaving", ![j].answer = a]
      BY <2>2 DEF WorkerEnds, Answers, Processor!Answers
    <3>2. jobs' = [jobs EXCEPT ![j] = [jobs[j] EXCEPT !.stage = "leaving", !.answer = a]]
      BY <1>2, <3>1 DEF Job
    <3>3. [jobs[j] EXCEPT !.stage = "leaving", !.answer = a] \in Job
      BY <1>2 DEF Job
    <3> QED
      BY <1>2, <3>2, <3>3 DEF Job
  <2>3. CASE WorkerReports(j)
    BY <1>2, <2>3, JobType DEF WorkerReports, Job
  <2> QED
    BY <2>1, <2>2, <2>3 DEF Worker
<1>4. DOMAIN jobs' = DOMAIN jobs /\ jobs'[j] = r /\ \A i \in DOMAIN jobs : i # j => jobs'[i] = jobs[i]
  BY <1>2, <1>3
<1>5. Asked' = Asked
  BY <1>3, <1>4, AskedStays
<1>6. jobs[j].stage # "done"
  BY DEF Worker, WorkerStarts, WorkerEnds, WorkerReports
<1>7. \A k \in DOMAIN events : k \in DOMAIN events' /\ events'[k] = events[k]
  <2>1. ASSUME NEW e \in Event, events' = Append(events, e)
        PROVE  \A k \in DOMAIN events : k \in DOMAIN events' /\ events'[k] = events[k]
    <3>1. /\ Len(events') = Len(events) + 1
          /\ \A i \in 1 .. Len(events) : events'[i] = events[i]
          /\ events' \in Seq(Event)
      BY <2>1, EventType, AppendProperties
    <3>2. DOMAIN events' = 1 .. Len(events') /\ DOMAIN events \subseteq DOMAIN events'
      BY <3>1, EventType, LenProperties
    <3> QED
      BY <3>1, <3>2, EventType
  <2>2. /\ [kind |-> "error", job |-> j] \in Event
        /\ [kind |-> "finished", job |-> j] \in Event
    BY DEF Event
  <2> QED
    BY <2>1, <2>2 DEF Worker, WorkerStarts, WorkerEnds, WorkerReports
<1>8. EndIsPosted => EndIsPosted'
  BY <1>7 DEF EndIsPosted
<1>9. watched = 0 \/ watched \in DOMAIN jobs
  BY WatchedIsJob
<1>10. CASE watched # j
  <2>1. ~ EndIsPosted => ~ EndIsPosted'
    <3>1. \A k \in DOMAIN events' : k \in DOMAIN events \/ events'[k].kind = "error"
      <4>1. events' = events \/ events' = Append(events, [kind |-> "error", job |-> j])
        BY <1>10 DEF Worker, WorkerStarts, WorkerEnds, WorkerReports
      <4>2. [kind |-> "error", job |-> j] \in Event
        BY DEF Event
      <4> QED
        BY <4>1, <4>2, Posted
    <3> QED
      BY <1>7, <3>1 DEF EndIsPosted
  <2>2. watched # 0 => jobs'[watched] = jobs[watched]
    BY <1>4, <1>9, <1>10
  <2>3. Awaited' = Awaited
    BY <1>1, <1>8, <2>1, <2>2 DEF Awaited
  <2> QED
    BY <1>1, <1>5, <2>3 DEF SeenVars
<1>11. CASE watched = j
  <2>1. watched # 0
    BY <1>2, <1>11, SMT
  <2>2. Awaited = watched
    BY <1>6, <1>11, <2>1 DEF Awaited
  <2>3. CASE Awaited' = watched
    BY <1>1, <1>5, <2>2, <2>3 DEF SeenVars
  <2>4. CASE Awaited' = 0
    <3>1. Session!GiveUp
      BY <1>1, <1>5, <2>1, <2>2, <2>4 DEF Session!GiveUp
    <3> QED
      BY <3>1 DEF Session!Next
  <2> QED
    BY <1>1, <2>3, <2>4 DEF Awaited
<1> QED
  BY <1>10, <1>11

(* Only the end of the generation the window follows is seen.              *)
LEMMA HandlersSeen ==
  ASSUME IInv, EventLoop
  PROVE  [Session!Next]_SeenVars
<1>1. /\ events # <<>> /\ events' = Tail(events) /\ UNCHANGED <<open, watched, jobs>> /\ open
  BY DEF EventLoop, HandleLLMError, Finished
<1>2. Asked' = Asked
  BY <1>1 DEF Asked
<1>3. CASE HandleLLMError
  <2>1. Head(events).kind = "error" /\ UNCHANGED <<shown, history>>
    BY <1>3 DEF HandleLLMError
  <2>2. ASSUME NEW k \in DOMAIN events, events[k].kind = "finished"
        PROVE  k - 1 \in DOMAIN Tail(events) /\ Tail(events)[k - 1] = events[k]
    <3>1. k # 1
      BY <1>1, <2>1, <2>2, Taken
    <3>2. /\ Tail(events) \in Seq(Event) /\ Len(Tail(events)) = Len(events) - 1
          /\ \A i \in 1 .. Len(Tail(events)) : Tail(events)[i] = events[i + 1]
      BY <1>1, EventType, HeadTailProperties
    <3>3. DOMAIN Tail(events) = 1 .. Len(Tail(events))
      BY <3>2, LenProperties
    <3>4. k - 1 \in 1 .. Len(Tail(events)) /\ (k - 1) + 1 = k
      BY <3>1, <3>2, EventType, SMT
    <3> QED
      BY <3>2, <3>3, <3>4
  <2>3. EndIsPosted => EndIsPosted'
    BY <1>1, <2>2 DEF EndIsPosted
  <2>4. EndIsPosted' => EndIsPosted
    BY <1>1, Taken DEF EndIsPosted
  <2>5. Awaited' = Awaited
    BY <1>1, <2>3, <2>4 DEF Awaited
  <2> QED
    BY <1>1, <1>2, <2>1, <2>5 DEF SeenVars
<1>4. CASE Finished
  <2>1. Head(events).kind = "finished" /\ 1 \in DOMAIN events /\ events[1].kind = "finished"
    BY <1>1, <1>4, Taken DEF Finished
  <2>2. /\ events[1].job = watched /\ jobs[watched].stage = "done" /\ watched \in DOMAIN jobs
        /\ watched # 0
    BY <2>1, EventType, WatchedIsJob, JobType, SMT DEF IInv, Reported
  <2>3. EndIsPosted
    BY <2>1 DEF EndIsPosted
  <2>4. ~ EndIsPosted'
    <3>1. \A k \in DOMAIN Tail(events) : Tail(events)[k].kind # "finished"
      BY <1>1, <2>1, Taken DEF IInv, Reported
    <3> QED
      BY <1>1, <3>1 DEF EndIsPosted
  <2>5. Awaited = watched /\ Awaited' = 0
    BY <1>1, <2>2, <2>3, <2>4 DEF Awaited
  <2>6. currentInputText = Asked[watched]
    BY <2>2, AskedIs DEF IInv, Watching
  <2>7. CASE Fail
    <3>1. Session!GiveUp
      BY <1>1, <1>2, <2>2, <2>5, <2>7 DEF Fail, Session!GiveUp
    <3> QED
      BY <3>1 DEF Session!Next
  <2>8. CASE Succeed
    <3>1. Session!Deliver
      BY <1>1, <1>2, <2>2, <2>5, <2>6, <2>8 DEF Succeed, Session!Deliver
    <3> QED
      BY <3>1 DEF Session!Next
  <2> QED
    BY <1>4, <2>7, <2>8 DEF Finished
<1> QED
  BY <1>3, <1>4 DEF EventLoop

LEMMA UserSeen ==
  ASSUME IInv, User
  PROVE  [Session!Next]_SeenVars
<1>1. ASSUME NEW t \in Texts, Analyze(t) PROVE [Session!Next]_SeenVars
  <2>1. t \in Valid /\ open /\ Len(jobs) < MaxJobs /\ UNCHANGED <<open, shown, history>>
    BY <1>1 DEF Analyze, AtWindow
  <2>2. Asked' = Append(Asked, t) /\ Awaited' = Len(Asked) + 1 /\ Len(Asked) = Len(jobs)
    BY <1>1, AskedGrows, AskedIs
  <2>3. Session!Ask(t)
    BY <2>1, <2>2 DEF Session!Ask
  <2> QED
    BY <2>1, <2>3 DEF Session!Next
<1>2. CASE (\E t \in Texts : Refuse(t)) \/ OpenDialog \/ Copy \/ CloseDialog
  <2>1. UNCHANGED <<open, jobs, watched, events, shown, history>>
    BY <1>2, Zenon DEF Refuse, OpenDialog, Copy, CloseDialog
  <2>2. Asked' = Asked /\ Awaited' = Awaited
    BY <2>1 DEF Asked, Awaited, EndIsPosted
  <2> QED
    BY <2>1, <2>2 DEF SeenVars
<1>3. CASE CloseWindow
  <2>1. open /\ open' = FALSE /\ UNCHANGED <<jobs, watched, events, shown, history>>
    BY <1>3, Zenon DEF CloseWindow, AtWindow
  <2>2. Asked' = Asked /\ Awaited' = Awaited
    BY <2>1 DEF Asked, Awaited, EndIsPosted
  <2>3. Session!Close
    BY <2>1, <2>2, Zenon DEF Session!Close
  <2> QED
    BY <2>3, Zenon DEF Session!Next
<1> QED
  BY <1>1, <1>2, <1>3, Zenon DEF User

(* Whatever the user clicks and whenever threads and events run, a guide   *)
(* is shown and filed once, with its text, and only that of the last click.*)
THEOREM AppImplementsSession == Spec => ImplementsSession
<1>1. Init => Session!Init
  <2> SUFFICES ASSUME Init PROVE Session!Init
    OBVIOUS
  <2>1. open = TRUE /\ shown = 0 /\ history = <<>> /\ jobs = <<>> /\ watched = 0
    BY Zenon DEF Init
  <2>2. Awaited = 0
    BY <2>1 DEF Awaited
  <2>3. Asked = <<>>
    <3>1. Asked \in Seq(Texts) /\ Len(Asked) = Len(jobs)
      BY InitIInv, AskedIs
    <3> QED
      BY <2>1, <3>1, EmptySeq
  <2> QED
    BY <2>1, <2>2, <2>3 DEF Session!Init
<1>2. IInv /\ [Next]_vars => [Session!Next]_SeenVars
  <2> SUFFICES ASSUME IInv, [Next]_vars PROVE [Session!Next]_SeenVars
    OBVIOUS
  <2>1. CASE UNCHANGED vars
    <3>1. UNCHANGED <<open, jobs, watched, events, shown, history>>
      BY <2>1, Zenon DEF vars, windowVars
    <3>2. Asked' = Asked /\ Awaited' = Awaited
      BY <3>1 DEF Asked, Awaited, EndIsPosted
    <3> QED
      BY <3>1, <3>2 DEF SeenVars
  <2> QED
    BY <2>1, UserSeen, HandlersSeen, WorkerSeen, Zenon DEF Next
<1> QED
  BY <1>1, <1>2, Invariance, PTL DEF Spec, ImplementsSession, Session!Spec, Session!vars, SeenVars
=============================================================================
