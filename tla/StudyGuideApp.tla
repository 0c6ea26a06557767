--------------------------- MODULE StudyGuideApp ----------------------------
(***************************************************************************)
(* The main window, the threads that generate for it, and the event queue  *)
(* between them.  MainWindow runs in the event loop of the GUI thread;     *)
(* QtConcurrent::run puts a generation into the global thread pool; what   *)
(* the generation has to say comes back as posted events: the error signal *)
(* of LLMProcessor and the finished signal of m_studyGuideWatcher.  A      *)
(* modal dialog runs an event loop of its own, so that events are handled  *)
(* while a handler waits for the user to close it.                         *)
(*                                                                         *)
(* The editor of the home page holds what the user left there: any text    *)
(* when "Let's go" is clicked.  The chosen type of material is read by     *)
(* nobody: the job is a study guide.                                       *)
(***************************************************************************)
EXTENDS Integers, Sequences, SequencesExt, FiniteSets

CONSTANTS
  Texts,     \* texts in the editor
  Valid,     \* those with 1 to 1000 words
  PoolSize,  \* threads of the pool
  MaxJobs    \* bound: generations started in a session

ASSUME AppAssumption ==
  /\ Valid \subseteq Texts
  /\ PoolSize \in Nat \ {0} /\ MaxJobs \in Nat

VARIABLES
  ready,             \* did initialize succeed?
  open,              \* the window is there, and so is the LLMProcessor
  page,              \* of the stacked widget
  dialogs,           \* modal dialogs, the newest last
  isProcessing,
  cursor,            \* depth of the stack of override cursors
  currentInputText,
  watched,           \* the generation m_studyGuideWatcher follows, or 0
  jobs,              \* the generations of the session
  events,            \* events posted to the GUI thread
  status,            \* message of the status bar
  shown,             \* the guide on the results page, or 0
  history,           \* processingHistory, without what was loaded
  exported,          \* last text copied or saved: Unsaid or a text
  hurried            \* ghost: has the user clicked or closed during a generation?

Processor == INSTANCE TextCall WITH stage <- "idle", answer <- "none"

windowVars == <<open, page, dialogs, isProcessing, cursor, currentInputText,
                watched, status, shown, history, exported, hurried>>
vars == <<windowVars, ready, jobs, events>>

(* The text a user can copy or save is that of resultsText, a widget that  *)
(* is on no page.  Only a click on the history page writes it, and nothing *)
(* leads to that page.                                                     *)
resultsText == 0
Unsaid == -1

Running == {j \in DOMAIN jobs : jobs[j].stage \in {"decoding", "leaving"}}
Decoding == {j \in DOMAIN jobs : jobs[j].stage = "decoding"}

(* Mutant: it fails on an empty stack.                                     *)
BadRestored(c) == c - 1

(* restoreOverrideCursor does nothing on an empty stack.                   *)
Restored(c) == IF c > 0 THEN c - 1 ELSE 0

Init ==
  /\ ready \in BOOLEAN /\ open = TRUE /\ page = "home" /\ dialogs = <<>>
  /\ isProcessing = FALSE /\ cursor = 0 /\ currentInputText = "" /\ watched = 0
  /\ jobs = <<>> /\ events = <<>> /\ shown = 0 /\ history = <<>>
  /\ status = IF ready THEN "ready" ELSE "not_ready"
  /\ exported = Unsaid /\ hurried = FALSE

-----------------------------------------------------------------------------
(* The user, whom an open dialog keeps from the window.                    *)

AtWindow == open /\ dialogs = <<>>

(* onAnalyzeTextClicked on a text that validateInputText refuses.          *)
Refuse(t) ==
  /\ AtWindow /\ page = "home" /\ t \notin Valid
  /\ dialogs' = <<"notice">>
  /\ UNCHANGED <<ready, open, page, isProcessing, cursor, currentInputText, watched,
                 jobs, events, status, shown, history, exported, hurried>>

(* Mutant: what was posted stays.                                          *)
BadUnwatched(es) == es

(* What setFuture leaves of the posted events: the one that reports the    *)
(* end of the generation watched so far is dropped, if it is still there.  *)
Unwatched(es) ==
  LET K == {k \in DOMAIN es : es[k].kind = "finished"}
  IN  IF K = {} THEN es ELSE RemoveAt(es, CHOOSE k \in K : TRUE)

(* Mutant: the window is not marked busy.                                  *)
BadAnalyze(t) ==
  /\ AtWindow /\ page = "home" /\ t \in Valid /\ Len(jobs) < MaxJobs
  /\ currentInputText' = t
  /\ status' = "generating" /\ cursor' = cursor + 1
  /\ jobs' = Append(jobs, [text |-> t, stage |-> "queued", answer |-> "none"])
  /\ watched' = Len(jobs')
  /\ events' = Unwatched(events)
  /\ hurried' = (hurried \/ isProcessing)
  /\ UNCHANGED <<ready, open, page, dialogs, isProcessing, shown, history, exported>>

(* onAnalyzeTextClicked.                                                   *)
Analyze(t) ==
  /\ AtWindow /\ page = "home" /\ t \in Valid /\ Len(jobs) < MaxJobs
  /\ currentInputText' = t
  /\ status' = "generating" /\ isProcessing' = TRUE /\ cursor' = cursor + 1
  /\ jobs' = Append(jobs, [text |-> t, stage |-> "queued", answer |-> "none"])
  /\ watched' = Len(jobs')
  /\ events' = Unwatched(events)
  /\ hurried' = (hurried \/ isProcessing)
  /\ UNCHANGED <<ready, open, page, dialogs, shown, history, exported>>

(* The file dialogs of Import and Download, and the box of About.          *)
OpenDialog ==
  /\ AtWindow /\ dialogs' \in {<<"import">>, <<"save">>, <<"notice">>}
  /\ UNCHANGED <<ready, open, page, isProcessing, cursor, currentInputText, watched,
                 jobs, events, status, shown, history, exported, hurried>>

(* An export puts its own message into the status bar, for three seconds.  *)
Export == exported' = resultsText /\ status' = "exported"

(* onCopyClicked.                                                          *)
Copy ==
  /\ AtWindow /\ Export
  /\ UNCHANGED <<ready, open, page, dialogs, isProcessing, cursor, currentInputText,
                 watched, jobs, events, shown, history, hurried>>

(* The newest dialog is answered and the handler that opened it goes on:   *)
(* handleLLMError sets the status only now, a chosen file is read into the *)
(* editor or written, and one that cannot be opened is another dialog.     *)
CloseDialog ==
  /\ dialogs # <<>>
  /\ \/ /\ dialogs' = Front(dialogs)
        /\ status' = IF Last(dialogs) = "error" THEN "error" ELSE status
        /\ UNCHANGED exported
     \/ /\ Last(dialogs) = "save" /\ dialogs' = Front(dialogs) /\ Export
     \/ /\ Last(dialogs) \in {"import", "save"}
        /\ dialogs' = Append(Front(dialogs), "notice")
        /\ UNCHANGED <<status, exported>>
  /\ UNCHANGED <<ready, open, page, isProcessing, cursor, currentInputText, watched,
                 jobs, events, shown, history, hurried>>

(* exec returns, and ~MainWindow deletes the LLMProcessor with its context.*)
(* The pool is not told; its threads are waited for only afterwards.       *)
CloseWindow ==
  /\ AtWindow
  /\ open' = FALSE
  /\ hurried' = (hurried \/ isProcessing)
  /\ UNCHANGED <<ready, page, dialogs, isProcessing, cursor, currentInputText, watched,
                 jobs, events, status, shown, history, exported>>

-----------------------------------------------------------------------------
(* The threads of the pool.                                                *)

(* A free thread takes the oldest generation that waits.                   *)
WorkerStarts(j) ==
  /\ jobs[j].stage = "queued" /\ \A i \in 1 .. j - 1 : jobs[i].stage # "queued"
  /\ Cardinality(Running) < PoolSize
  /\ jobs' = [jobs EXCEPT ![j].stage = "decoding"]
  /\ UNCHANGED <<windowVars, ready, events>>

(* What generateStudyGuide returns: a text, nothing, or nothing after an   *)
(* error signal.  To the window the sentence that there is no guide is a   *)
(* text like any other.                                                    *)
Answers == Processor!Answers

(* Mutant: an error is signalled and decoding goes on.                     *)
BadWorkerEnds(j) ==
  /\ jobs[j].stage = "decoding" /\ jobs[j].answer = "none"
  /\ jobs' = [jobs EXCEPT ![j].answer = "error"]
  /\ events' = Append(events, [kind |-> "error", job |-> j])
  /\ UNCHANGED <<windowVars, ready>>

(* processText has its answer and is done with the context.                *)
WorkerEnds(j) ==
  /\ jobs[j].stage = "decoding"
  /\ \E a \in Answers :
       /\ jobs' = [jobs EXCEPT ![j].stage = "leaving", ![j].answer = a]
       /\ events' = IF a = "error" /\ open
                    THEN Append(events, [kind |-> "error", job |-> j]) ELSE events
  /\ UNCHANGED <<windowVars, ready>>

(* Mutant: only a text is reported.                                        *)
BadWorkerReports(j) ==
  /\ jobs[j].stage = "leaving"
  /\ jobs' = [jobs EXCEPT ![j].stage = "done"]
  /\ events' = IF watched = j /\ open /\ jobs[j].answer = "text"
               THEN Append(events, [kind |-> "finished", job |-> j]) ELSE events
  /\ UNCHANGED <<windowVars, ready>>

(* Mutant: every end is handled, not only that of the watched generation.  *)
BadReportsAll(j) ==
  /\ jobs[j].stage = "leaving"
  /\ jobs' = [jobs EXCEPT ![j].stage = "done"]
  /\ events' = IF open THEN Append(events, [kind |-> "finished", job |-> j]) ELSE events
  /\ UNCHANGED <<windowVars, ready>>

(* The future is finished, and its watcher, if it still has one, hears it. *)
WorkerReports(j) ==
  /\ jobs[j].stage = "leaving"
  /\ jobs' = [jobs EXCEPT ![j].stage = "done"]
  /\ events' = IF watched = j /\ open
               THEN Append(events, [kind |-> "finished", job |-> j]) ELSE events
  /\ UNCHANGED <<windowVars, ready>>

-----------------------------------------------------------------------------
(* The event loop, that of a dialog included.                              *)

(* Mutant: the cursor is left to the finished signal.                      *)
BadHandleLLMError ==
  /\ open /\ events # <<>> /\ Head(events).kind = "error"
  /\ events' = Tail(events)
  /\ isProcessing' = FALSE /\ dialogs' = Append(dialogs, "error")
  /\ UNCHANGED <<ready, open, page, cursor, currentInputText, watched, jobs, status,
                 shown, history, exported, hurried>>

(* handleLLMError, up to the box it opens.                                 *)
HandleLLMError ==
  /\ open /\ events # <<>> /\ Head(events).kind = "error"
  /\ events' = Tail(events)
  /\ cursor' = Restored(cursor) /\ isProcessing' = FALSE
  /\ dialogs' = Append(dialogs, "error")
  /\ UNCHANGED <<ready, open, page, currentInputText, watched, jobs, status, shown,
                 history, exported, hurried>>

(* Mutant: the results page is not set.                                    *)
BadSucceed ==
  /\ jobs[watched].answer = "text"
  /\ page' = "results" /\ status' = "generated"
  /\ history' = <<[input |-> currentInputText, guide |-> watched]>> \o history
  /\ UNCHANGED shown

Succeed ==
  /\ jobs[watched].answer = "text"
  /\ shown' = watched /\ page' = "results" /\ status' = "generated"
  /\ history' = <<[input |-> currentInputText, guide |-> watched]>> \o history

(* Mutant: the status bar is forgotten.                                    *)
BadFail ==
  /\ jobs[watched].answer \in {"nothing", "error"}
  /\ UNCHANGED <<status, shown, page, history>>

Fail ==
  /\ jobs[watched].answer \in {"nothing", "error"}
  /\ status' = "failed"
  /\ UNCHANGED <<shown, page, history>>

(* The lambda connected to finished.                                       *)
Finished ==
  /\ open /\ events # <<>> /\ Head(events).kind = "finished"
  /\ events' = Tail(events)
  /\ Succeed \/ Fail
  /\ cursor' = Restored(cursor) /\ isProcessing' = FALSE
  /\ UNCHANGED <<ready, open, dialogs, currentInputText, watched, jobs, exported, hurried>>

-----------------------------------------------------------------------------
User ==
  \/ \E t \in Texts : Refuse(t)
  \/ \E t \in Texts : Analyze(t)
  \/ OpenDialog \/ Copy \/ CloseDialog \/ CloseWindow

Worker(j) == WorkerStarts(j) \/ WorkerEnds(j) \/ WorkerReports(j)
EventLoop == HandleLLMError \/ Finished

Next ==
  \/ User \/ EventLoop
  \/ \E j \in DOMAIN jobs : Worker(j)

(* The pool runs its threads and the event loop handles what is posted;    *)
(* nothing makes the user act.                                             *)
Spec ==
  /\ Init /\ [][Next]_vars
  /\ WF_vars(EventLoop) /\ WF_vars(\E j \in DOMAIN jobs : Worker(j))

-----------------------------------------------------------------------------
(* Properties.  They are claimed of a user who waits for the end of a      *)
(* generation where they mention hurried, and of every user elsewhere.     *)

Job == [text : Texts, stage : {"queued", "decoding", "leaving", "done"},
        answer : {"none", "text", "nothing", "error"}]

(* Every variable keeps its type: a posted event, the watcher and the page *)
(* name generations that were started.                                     *)
TypeOK ==
  /\ ready \in BOOLEAN /\ open \in BOOLEAN /\ hurried \in BOOLEAN
  /\ page \in {"home", "results"}
  /\ dialogs \in Seq({"notice", "import", "save", "error"})
  /\ isProcessing \in BOOLEAN /\ cursor \in Nat
  /\ currentInputText \in Texts \cup {""}
  /\ jobs \in Seq(Job) /\ Len(jobs) <= MaxJobs
  /\ watched \in 0 .. Len(jobs) /\ shown \in 0 .. Len(jobs)
  /\ events \in Seq([kind : {"error", "finished"}, job : DOMAIN jobs])
  /\ status \in {"ready", "not_ready", "generating", "generated", "failed", "error",
                "exported"}
  /\ history \in Seq([input : Texts, guide : DOMAIN jobs])
  /\ exported \in {Unsaid, resultsText}

(* A context of llama.cpp is not for two threads at once.  Nothing locks   *)
(* it: it is the user's waiting until the window is idle that keeps a      *)
(* second processText away from it.                                        *)
OneDecoder == ~ hurried => Cardinality(Decoding) <= 1

(* No thread decodes after the window, and the context with it, is gone.   *)
NoUseAfterFree == ~ hurried /\ ~ open => Decoding = {}

(* A guide is filed with the text it was made from, though the text is     *)
(* kept in the window and the answer in the future: a click that starts    *)
(* another generation replaces both, whatever was under way.               *)
HistoryPairs ==
  \A h \in DOMAIN history : jobs[history[h].guide].text = history[h].input

(* While the generation of the last click runs the window says so, by its  *)
(* flag and its cursor; the cursor is back once it is idle, though an      *)
(* error that is followed by finished restores it twice.                   *)
IndicatorWhileDecoding ==
  ~ hurried /\ open =>
    /\ Decoding # {} => isProcessing
    /\ cursor = IF isProcessing THEN 1 ELSE 0

(* The status bar says "Generating" only during a generation or under the  *)
(* box of an error.                                                        *)
StatusIsTrue ==
  status = "generating" => isProcessing \/ "error" \in ToSet(dialogs)

EndIsPosted == \E k \in DOMAIN events : events[k].kind = "finished"

(* A busy window is never forgotten: the generation it follows is under    *)
(* way or its end is posted, although a click changes the generation that  *)
(* is followed while others run and have posted theirs.                    *)
EndIsHeard ==
  isProcessing /\ open => watched # 0 /\ (jobs[watched].stage # "done" \/ EndIsPosted)

(* The lambda asks its watcher for the result, not the signal: whichever   *)
(* end is posted, that generation is the watched one and has its answer,   *)
(* so that result neither blocks the GUI thread nor is of another text.    *)
AnswerIsThere ==
  \A k \in DOMAIN events :
    events[k].kind = "finished" =>
      events[k].job = watched /\ jobs[watched].answer # "none"

(* The guide of the generation that is followed is on the results page as  *)
(* soon as no end of it is posted any more.                                *)
GuideOnItsWay ==
  open /\ watched # 0 /\ jobs[watched].stage = "done" /\ jobs[watched].answer = "text" =>
    shown = watched \/ EndIsPosted

(* Whatever is clicked while generations end, neither the end of the one   *)
(* the window follows nor its guide is forgotten.                          *)
NothingForgotten == EndIsHeard /\ GuideOnItsWay

(* A session as the user sees it: the guide of the last click, and of no   *)
(* other, is shown and filed once with its text, unless it fails or the    *)
(* window is closed before (StudySession).                                 *)
Asked == [j \in DOMAIN jobs |-> jobs[j].text]
Awaited == IF watched # 0 /\ (jobs[watched].stage # "done" \/ EndIsPosted) THEN watched ELSE 0
Session == INSTANCE StudySession WITH asked <- Asked, awaited <- Awaited, filed <- history
ImplementsSession == Session!Spec

(* A generation never leaves the window busy for ever.                     *)
GenerationEnds == isProcessing ~> ~ isProcessing \/ ~ open

(* A guide that is made reaches the results page, unless another click     *)
(* supersedes it or the window is closed.                                  *)
GuideIsShown ==
  \A j \in 1 .. MaxJobs :
    j \in DOMAIN jobs /\ jobs[j].stage = "done" /\ jobs[j].answer = "text"
      ~> shown = j \/ watched # j \/ ~ open

-----------------------------------------------------------------------------
(* What documents say and the code does not do.                            *)

(* README: view and save your generated study materials.  What is copied   *)
(* or saved on the results page is the guide it shows.                     *)
ExportsWhatIsShown == [][page = "results" /\ exported' # exported => exported' = shown]_vars
=============================================================================
