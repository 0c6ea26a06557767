# TextMaster AI: a TLA+ verification project

TextMaster AI is a Qt desktop program that turns a text into a study guide with
a TinyLlama model, run in the process by a vendored llama.cpp. This directory
models the parts of it that carry state: the KV cache of llama.cpp with its
defragmentation, the `llama_decode` that drives it, the thread pool that
computes its graphs, the generation loop of `LLMProcessor`, the main window with
its threads and posted events, and the history file.

Paths below: `src/src/` is the program, `llama/` stands for
`src/llama.cpp/llama.cpp-master/`.

## 1. Inventory

| Component | State | Operations | What makes it correct |
|---|---|---|---|
| KV cache `llama_kv_cache_unified` (`llama/src/llama-kv-cache.cpp`) | cells with position, pending shift and sequence set; `head`, `used`, `has_shift`, pending ranges | `clear`, `seq_rm`, `seq_cp`, `seq_keep`, `seq_add`, `seq_div`, `find_slot`, `commit`, `restore`, `update`, `defrag_sched`, `defrag_prepare`, state files | the counters agree with the cells; the slot search is complete and ends; a batch is stored whole or not at all; shifts never reach a later token; a defragmentation moves cells and data alike and closes the holes |
| `llama_context::decode` (`llama/src/llama-context.cpp:837`) | the batch, its ubatches, the cache guard | split, apply shifts, find a slot, compute, commit | as `llama.h:935` says: on an error the cache is as before |
| CPU thread pool (`llama/ggml/src/ggml-cpu/ggml-cpu.c`) | graph number, thread count, stop, pause, barrier, chunk counter, abort; per thread its place, node and last graph | kick-off, pause, resume, free; poll, sleep, compute a node, take a chunk, meet in the barrier | every part of a node is computed once, in step; no wake-up is lost; nobody is inside a graph that has returned |
| `LLMProcessor` (`src/src/llm_processor.cpp`) | model and context pointers; per call the prompt, the response, counters | `initialize`, `cleanup`, `processText`, `generate*`, `generate*Async` | resources are all there or all given back; answer and error signal agree; the loop stops in time; positions stay inside the context |
| `MainWindow`: generation (`src/src/mainwindow.cpp`) | page, `isProcessing`, `currentInputText`, watcher, override cursor, status, dialogs | analyze, error and finished handlers, copy, download, import, close | one decode at a time; nothing decodes on a deleted context; a guide is filed with its own text; the busy state is shown and ends |
| `MainWindow`: history | `processingHistory`, `history.json` | `addToHistory`, `saveHistory`, `loadHistory` | an entry that was made is kept |
| `HomePage` | text, chosen type, word label | edit, choose, analyze, import | the choice reaches the generation; the label agrees with the limit |
| `ResultsPage` | shown guide | set, back | what is exported is what is shown; Back leads home |
| `QuizPage`, `FlashcardsPage`, `EnumerationsPage` | cards, index, score | answer, reveal, next, previous | none reachable: `setQuestions` and `setFlashcards` have no caller |
| styles, build scripts, `resources/nlp_processor.py`, vcpkg, rest of llama.cpp | none that the above depends on | | not modelled |

**How they interact.** A click calls `onAnalyzeTextClicked`, which starts
`generateStudyGuide` on a thread of the global pool (`QtConcurrent::run`) and
hands the future to `m_studyGuideWatcher`. The thread calls `llama_decode` on
the one context of the `LLMProcessor`, which the GUI thread owns and deletes.
It answers by a queued signal `error` and by the watcher's `finished` event;
both are handled by the event loop, and also by the event loop of a modal
dialog that another handler has opened. A guide that arrives is shown, put in
front of the history, and the whole history is written to `history.json`.
`llama_decode` stores the tokens of a batch in the KV cache, ubatch by ubatch,
and gives all of them back when one fails; before a batch it applies the shift
and the defragmentation that are due. A graph on the CPU is computed by the
threads of a pool, of which the calling thread is one.

**What is hard.** No lock protects the context: only a user who waits keeps two
threads apart. A failed generation comes back twice. Handlers nest. A batch may
fail after some of its cells are taken. The slot search walks a ring from a
head that every call moves, and a defragmentation rebuilds the layout by moves
that the tensors have to follow. The threads of the pool agree by a barrier of
two counters, and read the plan of a graph without a lock. The cache is never cleared, so generations share
it. The history is truncated before it is written. `PROJECT.json` lists each
hazard at its line.

## 2. Modules

| Module | What it is | Source |
|---|---|---|
| `KvStore` | abstract: what a KV cache promises; decode is one atomic step | `llama/include/llama.h:671-726, 935-941` |
| `KvCache` | detailed: cells, edits, `find_slot` one loop iteration per action, ubatches, guard | `llama-kv-cache.cpp`, `llama-context.cpp`, `llama-batch.cpp:140` |
| `KvDefrag` | extends `KvCache`: request, `update`, the pass over the holes, the copy of the data | `llama-kv-cache.cpp:366-440, 657-705, 789-976` |
| `AppendKv` | abstract: the same cache under a program that only decodes; a counter | the same |
| `GraphRun` | abstract: a graph computed part by part, node after node, as if by one thread; it may end behind any node | `ggml-cpu.c:2577-2606, 2835-2871, 3091-3158` |
| `ThreadPool` | the pool of a build without OpenMP | `ggml-cpu.c:529-565, 1328-1458, 2577-3117` |
| `TextCall` | abstract: one initialization, then one answer for each call | `llm_processor.cpp:53-337` |
| `LLMProcessor` | loading and the generation loop, on `AppendKv!Room` | `src/src/llm_processor.cpp` |
| `StudySession` | abstract: a window whose user awaits at most one text, without threads, events or dialogs | `mainwindow.cpp:234-249, 405-431` |
| `StudyGuideApp` | window, user, thread pool, posted events, dialogs | `src/src/mainwindow.cpp`, `main.cpp` |
| `HistoryStore` | history file, instances, crashes, failures | `src/src/mainwindow.cpp:314-386` |
| `KvCacheProofs`, `KvDefragProofs` | invariants of the cache, without and with defragmentation | |
| `KvStoreProofs`, `AppendProofs` | the two refinements of the cache | |
| `LLMProofs`, `AppProofs`, `ThreadPoolProofs` | invariants and refinement of the module of that name | |
| `HistoryProofs` | invariants of `HistoryStore` | |
| `MC*` | constants for TLC | |

The cache implements `KvStore` (with edits and defragmentation) and `AppendKv`
(without):
`Store == INSTANCE KvStore WITH content <- Committed` hides the cells of the
batch in progress, and `AppendOnly == INSTANCE AppendKv` counts the rest.
`LLMProcessor` is built on the abstract one, and itself implements `TextCall`
(`ImplementsTextCall`), from which `StudyGuideApp` takes the answers of its
generations (`Processor!Answers`). `StudyGuideApp` implements `StudySession`, and
`ThreadPool` implements `GraphRun`. So each layer is checked against what the
next one uses of it:

    KvCache  ->  AppendKv  ->  LLMProcessor  ->  TextCall  ->  StudyGuideApp  ->  StudySession

Correspondence, where it is not by name:

* `phase`, `sid`, `next`, `left`, `width`, `tested` in `KvCache` are the control
  and the locals of `decode` and `find_slot`. The edits require `phase = "idle"`
  because a context is used by one thread at a time; `StudyGuideApp` says when
  that is so. `SearchWrap`, `SearchOn`, `SearchGivesUp` and `TakeSlot` are the
  four ways through one iteration of `while (true)`.
* `MaxPos + 1` stands for the largest position, which a negative `p1` becomes.
* In `KvDefrag` the data of a cell is the position its K data is rotated to
  (`rot`). One `FillHole` is one iteration of the loop of `defrag_prepare` that
  finds a hole: `Donors` is what its inner loop collects from the end of the
  cells, `Moved` what the bound on moves leaves of it, a move being a contiguous
  block. The bound comes from the number of layers (`MoveBounds`). The graph that
  copies the data is `DefragDone`, over the blocks `ids` gives, and the graph of
  a shift is `ApplyShift`. `StartBatch` needs `~ do_defrag` because `decode` calls
  `update` first.
* In `ThreadPool` an atomic access, or a section under the mutex, is a step; the
  kick-off is three (`Kick`, `Publish`, `Wake`), since polling threads watch it
  without the mutex, and `kicking` says that it is held. A part of a node is the
  share of a thread, or a chunk of a product. `done` and `again` are ghosts.
* `phase` in `LLMProcessor` is the place in `initialize` or `processText`. The
  best token is any token; a token is known by the bytes of its text.
* A job of `StudyGuideApp` is a future: queued, decoding, leaving (the answer is
  there, the context no longer used) or done. `Succeed` and `Fail` are the two
  branches of the lambda on `finished`. `setFuture` discards the posted events
  of the old future, as `QFutureWatcher` does. The editor's text and the chosen
  type are whatever they are at the click.
* An entry of `HistoryStore` is the number of its guide. `AddToHistory` ends
  with the truncating open; `Write` is the flush at the end of `saveHistory`.

The definitions named `Bad...` are the same definitions with a plausible bug,
one for each checked property: put in place of the definition they precede, TLC
finds the property violated. Nothing else uses them.

## 3. Runs

| Run | Bounds | Distinct states | What it shows |
|---|---|---|---|
| `kv_slots` | 5 cells, batches up to 3 in ubatches of 2, positions to 2, one sequence, 1 or 2 moves | 264 000 | types and `used`; `find_slot` gives up only if there is no slot, and returns, nearer to its end by every step; a defragmentation never fails its assertion, moves data with its cells, and closes the holes |
| `kv_edits` | 3 cells, 2 sequences, batches of 2 in ubatches of 1, shifts by -1 and 1, division by 2, 1 move | 59 000 | the cache implements `KvStore`; no stale shift; each shift reaches its data once |
| `kv_append` | 6 cells, batches up to 4 in ubatches of 2 | 488 000 | without edits the cache implements `AppendKv` |
| `generation` | 10 cells, `n_batch` 10, prompts of 1, 4 and 11 tokens, answers up to 7 tokens, 3 empty tokens stop | 80 000 | initialization, answer contract, positions, stop conditions, termination; it implements `TextCall` |
| `app` | 3 generations, 2 threads, 2 valid texts and an empty one | 360 000 | all the properties of the window, liveness included; it implements `StudySession` |
| `history` | 2 instances, 5 guides | 9 500 | order and losses of the history |
| `threadpool` | 3 threads, graphs of 3 nodes with a product of 3 chunks, 2 graphs, planned for 1, 2 or 3 threads | 268 000 | parts computed once, no worker left inside, nobody left waiting; it implements `GraphRun` |
| `prompt_over_batch`, `pieces_dropped`, `export`, `stray_worker`, `defrag_restore` | small | | the code does not do what is written, see section 6 |

Why the bounds are enough. *Cache:* five cells hold a run of two, a hole, a
taken cell on each side and a wrap; ubatches of two in batches of three make the
later ubatch fail after the earlier one took its cells. Shifts and a second
sequence meet on three cells because each cell is treated alone by the edits.
Five cells also hold two holes with cells on both sides, so that a pass moves a
block that is cut by the bound on moves and goes on at the next hole. `kv_slots`
and `kv_edits` use `TidySpec`: a defragmentation is asked for only when no range
of a failed batch is pending. Without that the code loses cells (`defrag_restore`,
section 6). What the bounds cannot show about size is proved (section 5).
*Thread pool:* three threads are the first number at which a fast thread can be
at the next barrier while a slow one has not noticed that it was let out of the
last; three nodes have the product between two others; two graphs let a worker
sleep through, poll or miss the second; three chunks are more than threads (2)
or as many (3). `SteadySpec` plans all graphs of a pool for one number of
threads, as a disposable pool does; `stray_worker` is what happens otherwise.
*Generation:* the
code's 2048 cells, 2048 tokens and 5 empty tokens become 10, 7 and 3, in the
same order: the context equals the batch, a prompt may exceed both, prompt and
answer together exceed the context, and two calls meet in one cache. The
vocabulary has the four kinds of token the loop tells apart: end of sequence,
text that fits the buffer, text that does not, and white space. *Window:* three
generations on two threads give a superseded, a watched and a queued one at
once. *History:* two instances are enough for one to write over the other.

`CHECK_DEADLOCK FALSE` is set for `LLMProcessor`, `StudyGuideApp` and
`ThreadPool` only: the process may abort, the user close the window, or the pool
be freed, and nothing happens after that.

**The user.** Some properties of `StudyGuideApp` are claimed for a user who
clicks and closes only when the window is idle. The variable `hurried` is a
ghost that remembers the contrary, so one run covers both: `StatusIsTrue`,
`NothingForgotten`, `AnswerIsThere`, `ImplementsSession` and the liveness properties hold of every user, while
`OneDecoder`, `NoUseAfterFree` and `IndicatorWhileDecoding` need `~ hurried`.
The window does not enforce it: `isProcessing` is written and never read, so a
second click runs two decodes on one context (undefined behaviour of
llama.cpp), and closing during a generation deletes the context under a thread.

**Fairness.** `WF_vars(DecodeSteps)` (in `KvDefrag`, `DecodeGoesOn` and
`DefragSteps`) and `WF_vars(ProcessText)`: a call runs on an operating system
thread that is always scheduled again. In `ThreadPool` every thread takes its
next step, polling ends at some time, and nothing makes the caller start a
graph; a sleeping thread is woken by a broadcast, never by fairness. In `StudyGuideApp`
the pool runs its threads and the event loop delivers what is posted. No
fairness is assumed of the user, of failures or of initialization, and liveness
is never obtained from a failure being possible: each loop ends on every path.

## 4. What the properties say

The runs check the properties that say most. Some invariants are steps on the
way to one of those and are proved but not run, because a property that is run
fails with them: `EmptyAgrees` and `StalePendingIsFree` (`ImplementsStore`),
`SearchSkipsNoSlot` (`NoSlotOnlyIfNone`), `InStep` and `ReturnsWhole`
(`ImplementsRun`), `HistoryPairs` (`ImplementsSession`). `LoopFreesItsBatch`, that a
batch is given back, stands alone and is proved, too.
`NobodyStranded` is `NoLostWakeup` and `BarrierOpens`, and `NothingForgotten` is
`EndIsHeard` and `GuideOnItsWay`.

`UsedCount`, `EmptyAgrees`, `StalePendingIsFree`: counters and lists kept by hand
in eight places stay true, although `restore` leaves its ranges in the list.
`SearchSkipsNoSlot` is the invariant of the slot search: the last `tested`
starts before the head, in cyclic order, are no slots. It gives
`NoSlotOnlyIfNone`. `NoStaleShift`: freeing a cell keeps its `delta`, which is
harmless because every decode applies pending shifts before it takes cells.
`ImplementsAppend`: with first fit and the head moved back after a failure, the
cache has no holes, so room is a matter of counting; `PositionsInContext` rests
on it, as the loop never looks at the size of the context.
`HolesCanBeFilled` is the assertion `nf == nh` of `defrag_prepare`, which holds
because `used` is exact. `DataFollowsCells` ties the tensors to the cells: a
pending shift that meets a move, or two holes filled by neighbours, would leave a
token with the data of another. `Compacts` is what a pass is for.
`InStep`, `PartsOnce` and `ReturnsWhole` are what the barrier and the chunk
counter are for; `NoWorkerInside` is the comment in `ggml_graph_compute` on which
its unlocked resets rest; `ComputeReturns` and `FreeReturns` say that no wake-up
is lost between polling, sleeping and pausing. `NoLostWakeup` and `BarrierOpens`
are their safety part: while a thread waits in a barrier, no thread it waits for
is asleep, paused or gone, and not all of them wait. `ImplementsRun` joins the
properties of the pool into what the caller gets.
`AnswerContract` is what the window relies on to show an error once, and
`ImplementsTextCall` is that and the order of calls and answers.
`EndIsHeard`, `AnswerIsThere` and `GuideOnItsWay` relate the futures to the posted
events: `setFuture` discards events and replaces the future, and still the end of
the generation that is followed is always posted or handled, the result the
handler asks for is there, and a guide is not lost on its way.
`ImplementsSession` is what the user may expect however fast the clicks come.
`DecodeAdvances` and `CallAdvances` are why the loops end: a measure falls with
each step (`Effort` covers the iteration of `find_slot` in which only the head
wraps and no cell is tested).

## 5. Proofs

`KvCacheProofs` proves, for every size, sequence set, position bound, batch size,
shift and divisor that satisfy `KvAssumption`:

* `CacheInvariant`: `IInv` is an invariant of `Spec`. `IInv` is `TypeOK`, the
  properties above, `BatchOK` (between the steps of a batch, how its width, its
  rest, its next position and the bounds relate) and `PendingOK` (pending ranges
  are ranges of cells). None of the properties is inductive alone: `UsedCount`
  needs `EmptyAgrees` where `seq_add` counts by the sequence set, and
  `StalePendingIsFree` where `restore` meets a left-over range; the search
  invariant needs the types of head and count.
* `TypeCorrect`, `CountersAgree`, `StalePendingHarmless`, `ShiftNeverStale`: its
  conjuncts, as theorems of `Spec`.
* `FindSlotComplete`: `Spec => NoSlotOnlyIfNone`. When the count of tested cells
  reaches the size, the refuted starts are all cells.

* `DecodeEnds`: every step of a decode takes it nearer its end. A step of the
  search tests a cell or wraps, a wrap happens once in a row, and each ubatch
  takes at least one token from what is left.

The proof has one lemma for each action, over lemmas on `Min`, on counting
cells, and on a free run.

`KvDefragProofs` proves the same of `TidySpec`, which the runs use, and
`HolesCanBeFilled`, `DataFollowsCells`, `Compacts` and
(`SearchStaysComplete`) `NoSlotOnlyIfNone` and (`DecodeStillEnds`)
`DecodeAdvances`. Its invariant `DInv` adds
that a pass runs only between batches (`Control`, `PassType`), that no cell
carries a shift during it (`Still`), that the cells before `hole` are taken
(`Filled`), that `ids` maps moved cells one to one onto places that were free
(`MovedOK`), and where the data of a cell lies until it is copied (`DataOK`). The
cells a pass takes from the end are defined by counting, so most of the work is
in `LastOnes`, `Ranks` and `MovesSpent`: which cells are the last *n*, that
they are put in order without a clash, and what their blocks cost.

`KvStoreProofs`, `CacheImplementsStore`: every step of `TidySpec` is, through
`Committed`, the edit of the same name, a whole decode, a failure without a
trace, cells changing places, or unseen. It needs that between batches the
pending ranges cover free cells, and that during a batch no edit can intervene.
`ErrorRestores`: the promise of `llama.h` that `defrag_restore` breaks (section 6)
holds of `TidySpec`, so a range left over at a defragmentation is all that is
wrong.

`AppendProofs`, `DecodingOnlyCounts`: without edits the cells in use are a
prefix (`Packed`), of which the first *b* are committed; the pending ranges
start at *b* or later, and the head is never behind the first free cell. Hence
a search succeeds exactly when enough cells are free, and the cache is the
counter `LLMProcessor` is built on.

`LLMProofs` proves all invariants of `LLMProcessor`. `Stages` says what each
stage of `initialize` holds, `Quiet` that a call in progress has signalled
nothing and owns a batch only in a round of the loop, `Bounded` that in the loop
the tokens of the call so far are in the cache: the room in the cache then
bounds the positions. `CallEnds` gives each stage of a call a rank, and counts
the rounds of the loop by the length of the response. `ProcessorImplementsTextCall`
needs `AnswerContract`, `Stages` and `Quiet` for the answers, and that a call on a
processor without model takes the way of `Uninitialized` only.

`AppProofs` proves all invariants of `StudyGuideApp`, for any number of
threads and generations. `Watching` ties the text of the window to the
generation it follows; `Reported` says that only that one's end is posted, and
once; `Patient` describes a user who waits: a generation without an answer is
the followed one, and its error is the next event. Without the order of the
events the cursor could not be shown to be restored as often as it was set.
`HeardInv` adds, for every user, that an answer is there before a generation
leaves (`Answered`) and that the end of the followed one is posted or was handled
to its end (`Heard`); `EndNotForgotten`, `GuideNotLost`
(together `NothingIsForgotten`) and `ResultIsReady` follow.
`AppImplementsSession` maps every step: a click asks, `Succeed` delivers, `Fail` and
a generation that ends when the window is closed give up, and what threads,
dialogs and errors do
is not seen. It holds of hurried users too.

`HistoryProofs` proves, for any number of instances and guides,
`HistoryInvariant`, `TypeCorrect`, `HistoryInOrder` and `NothingLost`. Its
invariant adds that an undisturbed file has one instance at most, and that a
save under way finds the file as its own open left it.

`ThreadPoolProofs` proves all invariants of `SteadySpec`, for any number of
threads, nodes and chunks, in two layers. `PoolInv` says that the graph is cut
into sections by its barriers (a node, or the chunks of a product) and that
either nobody is in a graph or all threads of the plan are on one section: still
to start, at work, on the way to the barrier behind it, or coming from the one
before (`GraphOK`, `At`); that the count of the barrier is the number of those
who wait in it (`BarrierOK`); that the thread count is set before the graph is
shown (`PlanOK`); and what holds of each thread alone (`PlaceOK`). `TypeOK`,
`InStep` and `NoWorkerInside` follow. `PartsInv` adds what is computed: nodes
before the section are complete and those behind untouched, an abort is for this
node or the next (`Around`); a node cut by threads has the parts of those who are
past it (`Plain`); in a product every chunk below the counter is done or in the
hands of one thread, and a thread is past it only when the counter is (`Taken`);
between graphs all is as the last one left it (`CallOK`). `PartsOnce` and
`ReturnsWhole` follow. `WakeInv` says what the flags tell of the caller (`FlagsOK`)
and why a worker that rests may (`RestOK`): paused only while the pool is, asleep
only with the last graph seen or a broadcast to come. `WakeupsNotLost` follows, and
`NotAllWait` from the count of the barrier; `NobodyLeftWaiting` is both.
`PoolImplementsRun` combines both
layers: a `Node` or a chunk is a `Part` of the node the graph has come to, which
needs `PartsOnce`, and the caller's `Exit` is `Return`, which needs `ReturnsWhole`.

Only model-checked: liveness (`DecodeReturns`, `CallReturns`, `GenerationEnds`,
`GuideIsShown`, `ComputeReturns`, `FreeReturns`), because fairness and `ENABLED`
are beyond the prover. What is proved of them is their safety part: that each step
is progress (`DecodeAdvances`, `CallAdvances`) or that nobody waits for what will
not come (`NoLostWakeup`, `BarrierOpens`, `EndIsHeard`, `GuideOnItsWay`). Every
other property of a passing run is also a theorem.

## 6. Findings

* `prompt_over_batch`: the window limits words and `llama_decode` asserts a
  number of tokens; a text that passes the one can fail the other, and the
  process aborts (`llama/src/llama-context.cpp:872`).
* `pieces_dropped`: the text of a token is read into 8 bytes; a longer one is
  counted as empty and left out of the guide (`llm_processor.cpp:293-319`).
* `export`: copy and download write `resultsText`, a hidden widget nothing
  reachable sets (`mainwindow.cpp:201, 213`).
* `stray_worker`: in a pool whose graphs are planned for different numbers of
  threads a worker reads the graph number of one graph and the thread count of
  the next, without the mutex, and computes a graph twice: the second time after
  the caller has returned (`ggml-cpu.c:2889`). TextMaster AI is not affected: its
  contexts use disposable pools, planned once, and `GGML_OPENMP`, on by default
  (`llama/ggml/CMakeLists.txt:191`), replaces the pool altogether.
* `defrag_restore`: `restore` keeps the ranges of a failed batch in the pending
  list; a defragmentation moves committed cells into them, and the next failing
  batch empties these (`llama-kv-cache.cpp:336, 951`). TextMaster AI never asks
  for a defragmentation.

Seen while reading, without a run of their own: whatever type of material is
chosen, a study guide is made (`mainwindow.cpp:247`); the cache is never cleared, so
after 2048 tokens over all generations every prompt is refused, silently (in the
window this takes clicks during a generation, because the Back button of the
results page is not connected and the first guide ends the session); the
sentence that there is no guide is filed as a guide; the history page is
unreachable; the prompt's batch is leaked on success.

## 7. Not modelled

*The program.* The quiz, flashcard and enumeration pages: the window creates
them and nothing fills or shows them, so their handlers have no state to work
on. The two word counts of the home page are pure functions of a string.
Styles, the build, and `nlp_processor.py`, which nothing starts. The bytes of
JSON and its timestamps. The abort of the process in `LLMProcessor` is not
repeated in `StudyGuideApp`. A data race is not given a meaning: the models say
when it is excluded.

*llama.cpp.* The state files of the cache (never called), `mul_mat_id`, the
tokenizer, sampling (greedy choice is any token), outputs, graphs, kernels,
model files, the other backends, the server and the tools. They are third-party
code, about 279 000 lines, most of them arithmetic on tensors, tables, and tools
the program does not start; only what TextMaster AI's own calls drive and what
has state between them is modelled. The map therefore covers a small share of
the lines of the repository, and most of the program's own files that have
behaviour.

## 8. What is left

1. `LLMProcessor` inside `StudyGuideApp`: the shared counter of the cache under
   several generations. Today the window takes the answers of `TextCall`, and
   which of them comes does not depend on how full the cache is.
2. The state files of the cache against `KvStore`, and two sequences in one
   `ubatch`.
3. A property of the pool when its graphs differ in their threads, once the
   code reads graph number and thread count together.
