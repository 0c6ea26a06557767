------------------------------ MODULE TextCall ------------------------------
(***************************************************************************)
(* What the window may rely on of LLMProcessor: after one initialization   *)
(* each call of processText gives one answer, unless the process aborts.   *)
(* The answer is a text, nothing, or nothing after one error signal, and   *)
(* without a model it is always the last.  LLMProcessor implements this    *)
(* module; StudyGuideApp takes the answers of its generations from it.     *)
(***************************************************************************)
EXTENDS Integers

VARIABLES
  ready,    \* has initialize succeeded?
  stage,    \* "loading", "idle", "running", "answered" or "dead"
  answer    \* of the last call, "none" until there is one

vars == <<ready, stage, answer>>

Answers == IF ready THEN {"text", "nothing", "error"} ELSE {"error"}

Init == ready = FALSE /\ stage = "loading" /\ answer = "none"

Load ==
  /\ stage = "loading" /\ stage' = "idle"
  /\ ready' \in BOOLEAN /\ UNCHANGED answer

Call ==
  /\ stage \in {"idle", "answered"} /\ stage' = "running"
  /\ answer' = "none" /\ UNCHANGED ready

Reply ==
  /\ stage = "running" /\ stage' = "answered"
  /\ answer' \in Answers /\ UNCHANGED ready

Abort ==
  /\ stage \in {"loading", "running"} /\ stage' = "dead"
  /\ UNCHANGED <<ready, answer>>

Next == Load \/ Call \/ Reply \/ Abort

Spec == Init /\ [][Next]_vars
=============================================================================
