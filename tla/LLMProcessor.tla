---------------------------- MODULE LLMProcessor ----------------------------
(***************************************************************************)
(* The class LLMProcessor: loading the model, and processText, which turns *)
(* one prompt into one answer by greedy decoding.  One call is followed at *)
(* a time, decode by decode; StudyGuideApp has the threads.  The KV cache  *)
(* is the counter of AppendKv and is never cleared between calls.          *)
(***************************************************************************)
EXTENDS Integers, Sequences, SequencesExt

CONSTANTS
  Size,         \* cells of the KV cache (n_ctx)
  NBatch,       \* n_batch
  Prompts,      \* token counts of the prompts that may be asked
  Tokens, Eos,  \* the vocabulary and its end-of-sequence token
  PieceLen,     \* bytes of the text of a token, 0 for a control token
  Blank,        \* the tokens whose text is white space
  PieceBuf,     \* sizeof(piece)
  MaxResponse,  \* max_response_tokens
  MaxEmpty      \* max_empty_tokens

ASSUME LLMAssumption ==
  /\ Size \in Nat \ {0} /\ NBatch \in 1 .. Size
  /\ Prompts \subseteq Nat \ {0}
  /\ Eos \in Tokens /\ Blank \subseteq Tokens
  /\ PieceLen \in [Tokens -> Nat] /\ PieceBuf \in Nat
  /\ MaxResponse \in Nat /\ MaxEmpty \in Nat \ {0}

VARIABLES
  model, context,  \* m_impl: are they set?
  used,            \* cells of the KV cache in use
  phase,           \* control: where initialize or processText is
  prompt,          \* tokens of the prompt
  response,        \* response_tokens
  empties,         \* consecutive_empty_tokens
  code,            \* what the last llama_decode of this call returned
  batches,         \* the batches of this call that are allocated
  signals,         \* error signals emitted by this call
  result           \* the answer: "empty", "fallback" (the failure sentence) or "text"

implVars == <<model, context>>
callVars == <<prompt, response, empties, code, batches, signals, result>>
vars == <<implVars, used, phase, callVars>>

KV == INSTANCE AppendKv WITH want <- 0, ret <- code

Init ==
  /\ model = FALSE /\ context = FALSE /\ used = 0
  /\ phase = "new" /\ prompt = 0 /\ response = <<>> /\ empties = 0
  /\ code = "none" /\ batches = {} /\ signals = 0 /\ result = "none"

-----------------------------------------------------------------------------
(* initialize: stages that fail each give back what they have.             *)

InitFails == phase' = "idle" /\ UNCHANGED <<used, callVars>>

InitGoesOn(p) == phase' = p /\ UNCHANGED <<used, callVars>>

(* cleanup frees the context and the model.                                *)
Cleanup == model' = FALSE /\ context' = FALSE

(* The free memory is read from the second line of the output of wmic:     *)
(* without one the read is out of range, and yields any number or a crash. *)
FindModelFile ==
  /\ phase = "new"
  /\ \/ InitGoesOn("load") \/ InitFails \/ InitGoesOn("aborted")
  /\ UNCHANGED implVars

LoadModel ==
  /\ phase = "load"
  /\ \/ model' = TRUE /\ InitGoesOn("memory")
     \/ model' = FALSE /\ InitFails
  /\ UNCHANGED context

(* Is there twice the memory the context is estimated to need?             *)
CheckMemory ==
  /\ phase = "memory"
  /\ \/ InitGoesOn("context") /\ UNCHANGED implVars
     \/ InitFails /\ Cleanup

(* Mutant: the model stays when there is no context for it.                *)
BadCreateContext ==
  /\ phase = "context"
  /\ \/ context' = TRUE /\ InitGoesOn("verify") /\ UNCHANGED model
     \/ context' = FALSE /\ InitFails /\ UNCHANGED model

CreateContext ==
  /\ phase = "context"
  /\ \/ context' = TRUE /\ InitGoesOn("verify") /\ UNCHANGED model
     \/ context' = FALSE /\ model' = FALSE /\ InitFails

(* A context of the wrong size is freed and created once more.             *)
VerifyContext ==
  /\ phase = "verify"
  /\ \/ InitGoesOn("idle") /\ UNCHANGED implVars
     \/ InitFails /\ Cleanup

InitThrows ==
  /\ phase \in {"load", "memory", "context", "verify"}
  /\ InitFails /\ Cleanup

-----------------------------------------------------------------------------
(* processText.                                                            *)

Return(r, s) ==
  /\ phase' = "returned" /\ result' = r /\ signals' = signals + s
  /\ UNCHANGED <<implVars, prompt, response, empties>>

(* A call begins; what the previous one left in local variables is gone.   *)
Call(n) ==
  /\ phase \in {"idle", "returned"}
  /\ prompt' = n /\ response' = <<>> /\ empties' = 0 /\ code' = "none"
  /\ batches' = {} /\ signals' = 0 /\ result' = "none"
  /\ phase' = "tokenize"
  /\ UNCHANGED <<implVars, used>>

(* Mutant: no signal.                                                      *)
BadUninitialized ==
  /\ phase = "tokenize" /\ ~ (context /\ model)
  /\ Return("empty", 0)
  /\ UNCHANGED <<used, code, batches>>

Uninitialized ==
  /\ phase = "tokenize" /\ ~ (context /\ model)
  /\ Return("empty", 1)
  /\ UNCHANGED <<used, code, batches>>

Tokenize ==
  /\ phase = "tokenize" /\ context /\ model
  /\ \/ /\ phase' = "prompt" /\ batches' = {"prompt"}
        /\ UNCHANGED <<implVars, used, prompt, response, empties, code, signals, result>>
     \/ Return("empty", 1) /\ UNCHANGED <<used, code, batches>>

(* A prompt of more than n_batch tokens fails an assertion of              *)
(* llama_context::decode: the process aborts.                              *)
PromptTooLong ==
  /\ phase = "prompt" /\ prompt > NBatch
  /\ phase' = "aborted"
  /\ UNCHANGED <<implVars, used, callVars>>

(* Mutant: a prompt is stored without room for it.                         *)
BadPromptStored ==
  /\ phase = "prompt" /\ prompt <= NBatch
  /\ used' = used + prompt /\ code' = "ok" /\ phase' = "decode"
  /\ UNCHANGED <<implVars, prompt, response, empties, batches, signals, result>>

PromptStored ==
  /\ phase = "prompt" /\ prompt <= NBatch /\ KV!Room(used, prompt)
  /\ used' = used + prompt /\ code' = "ok" /\ phase' = "decode"
  /\ UNCHANGED <<implVars, prompt, response, empties, batches, signals, result>>

(* Mutant: the prompt is tried again.                                      *)
BadPromptFails ==
  /\ phase = "prompt" /\ prompt <= NBatch
  /\ code' \in IF KV!Room(used, prompt) THEN {"error"} ELSE {"error", "no_slot"}
  /\ batches' = {} /\ phase' = "tokenize"
  /\ UNCHANGED <<implVars, used, prompt, response, empties, signals, result>>

(* The prompt is not decoded: the batch is freed and the call returns an   *)
(* empty answer without a signal.                                          *)
PromptFails ==
  /\ phase = "prompt" /\ prompt <= NBatch
  /\ code' \in IF KV!Room(used, prompt) THEN {"error"} ELSE {"error", "no_slot"}
  /\ batches' = {}
  /\ Return("empty", 0)
  /\ UNCHANGED used

(* Mutant: a full cache still takes a token.                               *)
BadStepDecoded ==
  /\ phase = "decode" /\ Len(response) < MaxResponse
  /\ used' = used + (IF KV!Room(used, 1) THEN 1 ELSE 0)
  /\ code' = "ok" /\ phase' = "pick" /\ batches' = batches \cup {"step"}
  /\ UNCHANGED <<implVars, prompt, response, empties, signals, result>>

(* One round of the loop: the last token is fed to get the next one.       *)
StepDecoded ==
  /\ phase = "decode" /\ Len(response) < MaxResponse /\ KV!Room(used, 1)
  /\ used' = used + 1 /\ code' = "ok" /\ phase' = "pick"
  /\ batches' = batches \cup {"step"}
  /\ UNCHANGED <<implVars, prompt, response, empties, signals, result>>

StepFails ==
  /\ phase = "decode" /\ Len(response) < MaxResponse
  /\ code' \in IF KV!Room(used, 1) THEN {"error"} ELSE {"error", "no_slot"}
  /\ phase' = "finish"
  /\ UNCHANGED <<implVars, used, prompt, response, empties, batches, signals, result>>

(* No logits, or none of them above minus infinity.                        *)
PickFails ==
  /\ phase = "pick"
  /\ phase' = "finish" /\ batches' = batches \ {"step"}
  /\ UNCHANGED <<implVars, used, prompt, response, empties, code, signals, result>>

(* llama_token_to_piece: the bytes written, or minus the bytes needed when *)
(* the buffer is too small for them.                                       *)
Piece(t) == IF PieceLen[t] > PieceBuf THEN - PieceLen[t] ELSE PieceLen[t]

(* Mutant: one token too late.                                             *)
BadRepeats(r) ==
  /\ Len(r) > 4
  /\ r[Len(r)] = r[Len(r) - 1] /\ r[Len(r) - 1] = r[Len(r) - 2]

Repeats(r) ==
  /\ Len(r) > 3
  /\ r[Len(r)] = r[Len(r) - 1] /\ r[Len(r) - 1] = r[Len(r) - 2]

(* The best token joins the response, and the stop conditions are tried in *)
(* turn: end of sequence, repetition, too many tokens without text.        *)
Pick(t) ==
  LET r == Append(response, t)
      e == IF Piece(t) <= 0 THEN empties + 1 ELSE 0
  IN  /\ phase = "pick"
      /\ response' = r /\ batches' = batches \ {"step"}
      /\ \/ /\ t = Eos \/ Repeats(r)
            /\ phase' = "finish" /\ UNCHANGED empties
         \/ /\ t # Eos /\ ~ Repeats(r)
            /\ empties' = e
            /\ phase' = IF e >= MaxEmpty THEN "finish" ELSE "decode"
      /\ UNCHANGED <<implVars, used, prompt, code, signals, result>>

LoopEnds ==
  /\ phase = "decode" /\ Len(response) = MaxResponse
  /\ phase' = "finish"
  /\ UNCHANGED <<implVars, used, callVars>>

(* The tokens whose pieces make up the text of the answer.                 *)
Written(r) == SelectSeq(r, LAMBDA t : Piece(t) > 0)

(* The text is joined and trimmed; an answer without text is replaced by a *)
(* sentence that says so.  The batch of the prompt is not freed.           *)
Finish ==
  /\ phase = "finish"
  /\ Return(IF ToSet(Written(response)) \subseteq Blank THEN "fallback" ELSE "text", 0)
  /\ UNCHANGED <<used, code, batches>>

(* Any exception of the call is caught, signalled and answered with "".    *)
Throws ==
  /\ phase \in {"prompt", "decode", "pick", "finish"}
  /\ batches' \in {batches, batches \cup (IF phase = "decode" THEN {"step"} ELSE {})}
  /\ Return("empty", 1)
  /\ UNCHANGED <<used, code>>

-----------------------------------------------------------------------------
Initialize ==
  \/ FindModelFile \/ LoadModel \/ CheckMemory \/ CreateContext \/ VerifyContext
  \/ InitThrows

ProcessText ==
  \/ Uninitialized \/ Tokenize \/ PromptTooLong \/ PromptStored \/ PromptFails
  \/ StepDecoded \/ StepFails \/ PickFails \/ LoopEnds \/ Finish \/ Throws
  \/ \E t \in Tokens : Pick(t)

Next == Initialize \/ (\E n \in Prompts : Call(n)) \/ ProcessText

(* The worker thread of a call is always scheduled again.                  *)
Spec == Init /\ [][Next]_vars /\ WF_vars(ProcessText)

-----------------------------------------------------------------------------
(* Properties.                                                             *)

(* Every variable keeps its type: a call never holds more than the cache,  *)
(* and the response and the count of empty tokens stay within their bounds.*)
TypeOK ==
  /\ model \in BOOLEAN /\ context \in BOOLEAN
  /\ used \in 0 .. Size
  /\ phase \in {"new", "load", "memory", "context", "verify", "idle", "tokenize",
               "prompt", "decode", "pick", "finish", "returned", "aborted"}
  /\ prompt \in Prompts \cup {0}
  /\ response \in Seq(Tokens) /\ Len(response) <= MaxResponse
  /\ empties \in 0 .. MaxEmpty
  /\ code \in {"none", "ok", "no_slot", "error"}
  /\ batches \subseteq {"prompt", "step"}
  /\ signals \in Nat
  /\ result \in {"none", "empty", "fallback", "text"}

(* initialize ends with both the model and the context, or with neither:   *)
(* each of its failing stages gives back what the earlier ones obtained.   *)
InitAllOrNothing == phase \notin {"load", "memory", "context"} => (model <=> context)

(* What the window relies on: at most one error is signalled, an answer    *)
(* after a signal is empty, and an empty answer without a signal comes     *)
(* only from a prompt that llama_decode refused.                           *)
AnswerContract ==
  phase = "returned" =>
    /\ signals <= 1
    /\ signals = 1 => result = "empty"
    /\ result = "empty" /\ signals = 0 => code \in {"no_slot", "error"}

(* Every way out of the decoding loop but an exception frees the batch of  *)
(* its round.                                                              *)
LoopFreesItsBatch == phase = "returned" /\ signals = 0 => "step" \notin batches

(* No token is fed at a position outside the context, although neither     *)
(* the loop nor the prompt looks at the size of the context.               *)
PositionsInContext == phase = "pick" => prompt + Len(response) < Size

(* Does generation stop after the response r?  Stated on the whole         *)
(* sequence, without the counter of the loop.                              *)
Stops(r) ==
  \/ r[Len(r)] = Eos
  \/ Len(r) >= 4 /\ \A i \in Len(r) - 2 .. Len(r) : r[i] = r[Len(r)]
  \/ /\ Len(r) >= MaxEmpty
     /\ \A i \in Len(r) - MaxEmpty + 1 .. Len(r) : Piece(r[i]) <= 0

(* The loop stops at the first response that meets a stop condition, by    *)
(* its running counter, and never decodes on after one.                    *)
StopsInTime ==
  \A k \in 1 .. Len(response) :
    Stops(SubSeq(response, 1, k)) => k = Len(response) /\ phase # "decode"

(* processText returns, unless the process aborts.                         *)
CallReturns == phase = "tokenize" ~> phase \in {"returned", "aborted"}

(* A bound on the steps a call under way still takes.                      *)
StepsLeft ==
  CASE phase = "tokenize" -> 2 * MaxResponse + 4
    [] phase = "prompt" -> 2 * MaxResponse + 3
    [] phase = "decode" -> 2 * (MaxResponse - Len(response)) + 2
    [] phase = "pick" -> 2 * (MaxResponse - Len(response)) + 1
    [] phase = "finish" -> 1
    [] OTHER -> 0

(* Every step of a call brings its answer nearer, whatever the model says  *)
(* and wherever a call of llama.cpp fails or throws: nothing is retried,   *)
(* and a round of the loop always adds a token or ends it.                 *)
CallAdvances == [][StepsLeft > 0 => 0 <= StepsLeft' /\ StepsLeft' < StepsLeft]_vars

(* What a caller sees of the processor.                                    *)
Loading == phase \in {"new", "load", "memory", "context", "verify"}
Ready == ~ Loading /\ model /\ context
Stage ==
  CASE Loading -> "loading" [] phase = "idle" -> "idle" [] phase = "returned" -> "answered"
    [] phase = "aborted" -> "dead" [] OTHER -> "running"
Answer ==
  CASE phase # "returned" -> "none" [] phase = "returned" /\ signals > 0 -> "error"
    [] phase = "returned" /\ signals = 0 -> IF result = "empty" THEN "nothing" ELSE "text"

(* Each call answers once, with an error signal only if it answers nothing *)
(* and always so when initialize has failed (TextCall).                    *)
Promise == INSTANCE TextCall WITH ready <- Ready, stage <- Stage, answer <- Answer
ImplementsTextCall == Promise!Spec

-----------------------------------------------------------------------------
(* What documents say and the code does not do.                            *)

(* llama_context::decode asserts that a batch fits into n_batch.           *)
BatchFits == phase = "prompt" => prompt <= NBatch

(* "Convert tokens to text": the text of every response token is written.  *)
EveryPieceWritten ==
  phase = "returned" /\ result = "text" =>
    \A i \in 1 .. Len(response) : PieceLen[response[i]] > 0 => Piece(response[i]) > 0
=============================================================================
