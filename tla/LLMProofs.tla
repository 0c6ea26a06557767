----------------------------- MODULE LLMProofs ------------------------------
(***************************************************************************)
(* Proofs about LLMProcessor, for every context size, batch size,          *)
(* vocabulary and bound of the loop.                                       *)
(***************************************************************************)
EXTENDS LLMProcessor, SequenceTheorems, TLAPS

(* The stages of initialize: what each holds.                              *)
Stages ==
  /\ phase \in {"new", "load"} => ~ model /\ ~ context
  /\ phase \in {"memory", "context"} => model /\ ~ context
  /\ phase = "verify" => model /\ context
  /\ phase \notin {"memory", "context"} => (model <=> context)

InCall == phase \in {"tokenize", "prompt", "decode", "pick", "finish"}

(* A call that is under way has not signalled anything, and only a round   *)
(* of the loop has a batch of its own.                                     *)
Quiet ==
  /\ InCall => signals = 0
  /\ phase \in {"tokenize", "prompt", "decode", "finish"} => "step" \notin batches

(* The loop: room in the response, in the count of empty tokens, and in    *)
(* the cache, which holds every token that was fed.                        *)
Bounded ==
  /\ phase = "tokenize" => response = <<>> /\ empties = 0
  /\ phase = "prompt" => response = <<>> /\ empties = 0
  /\ phase = "pick" => Len(response) < MaxResponse
  /\ phase \in {"decode", "pick"} => empties < MaxEmpty
  /\ phase = "decode" => prompt + Len(response) <= used
  /\ phase = "pick" => prompt + Len(response) < used

-----------------------------------------------------------------------------
(* TypeOK without the two flags.                                           *)
DataOK ==
  /\ used \in 0 .. Size
  /\ phase \in {"new", "load", "memory", "context", "verify", "idle", "tokenize",
               "prompt", "decode", "pick", "finish", "returned", "aborted"}
  /\ prompt \in Prompts \cup {0}
  /\ response \in Seq(Tokens) /\ Len(response) <= MaxResponse
  /\ empties \in 0 .. MaxEmpty
  /\ code \in {"none", "ok", "no_slot", "error"}
  /\ batches \subseteq {"prompt", "step"}
  /\ signals \in Nat
  /\ result \in {"none", "empty", "fallback", "text"}

FlagsOK == model \in BOOLEAN /\ context \in BOOLEAN

LEMMA TypeParts == TypeOK <=> DataOK /\ FlagsOK
<1> QED
  BY Zenon DEF TypeOK, DataOK, FlagsOK

LEMMA EmptyResponse == <<>> \in Seq(Tokens) /\ Len(<<>>) = 0
<1> QED
  BY EmptySeq

LEMMA DataInductive ==
  ASSUME DataOK, Quiet, Bounded, Next PROVE DataOK'
<1> USE LLMAssumption, EmptyResponse DEF DataOK, callVars
<1>1. CASE Initialize
  BY <1>1 DEF Initialize, FindModelFile, LoadModel, CheckMemory, CreateContext,
     VerifyContext, InitThrows, InitFails, InitGoesOn
<1>2. ASSUME NEW n \in Prompts, Call(n) PROVE DataOK'
  BY <1>2, SMTT(30) DEF Call
<1>3. CASE Uninitialized
  BY <1>3, SMTT(30) DEF Uninitialized, Return, KV!Room
<1>4. CASE Tokenize
  <2>1. \/ /\ phase' = "prompt" /\ batches' = {"prompt"}
           /\ UNCHANGED <<used, prompt, response, empties, code, signals, result>>
        \/ Return("empty", 1) /\ UNCHANGED <<used, code, batches>>
    BY <1>4, Zenon DEF Tokenize
  <2>2. CASE /\ phase' = "prompt" /\ batches' = {"prompt"}
             /\ UNCHANGED <<used, prompt, response, empties, code, signals, result>>
    BY <2>2, SMTT(30)
  <2>3. CASE Return("empty", 1) /\ UNCHANGED <<used, code, batches>>
    BY <2>3, SMTT(30) DEF Return
  <2> QED
    BY <2>1, <2>2, <2>3, Zenon
<1>5. CASE PromptTooLong
  BY <1>5, SMTT(30) DEF PromptTooLong, Return, KV!Room
<1>6. CASE PromptStored
  BY <1>6, SMTT(30) DEF PromptStored, Return, KV!Room
<1>7. CASE PromptFails
  BY <1>7, SMTT(30) DEF PromptFails, Return, KV!Room
<1>8. CASE StepDecoded
  BY <1>8, SMTT(30) DEF StepDecoded, Return, KV!Room
<1>9. CASE StepFails
  BY <1>9, SMTT(30) DEF StepFails, Return, KV!Room
<1>10. CASE PickFails
  BY <1>10, SMTT(30) DEF PickFails, Return, KV!Room
<1>11. CASE LoopEnds
  BY <1>11, SMTT(30) DEF LoopEnds, Return, KV!Room
<1>12. CASE Finish
  BY <1>12, SMTT(30) DEF Finish, Return, KV!Room
<1>13. CASE Throws
  BY <1>13, SMTT(30) DEF Throws, Return, KV!Room
<1>14. ASSUME NEW t \in Tokens, Pick(t) PROVE DataOK'
  BY <1>14 DEF Pick, Bounded
<1> QED
  BY <1>1, <1>2, <1>3, <1>4, <1>5, <1>6, <1>7, <1>8, <1>9, <1>10, <1>11, <1>12, <1>13, <1>14, Zenon DEF Next, ProcessText

(* The flags are set and reset by initialize only.                         *)
LEMMA FlagsInductive ==
  ASSUME DataOK, FlagsOK, Stages, Next PROVE FlagsOK' /\ Stages'
<1> USE DEF FlagsOK, Stages
<1>1. CASE FindModelFile
  BY <1>1 DEF FindModelFile, InitGoesOn, InitFails, implVars
<1>2. CASE LoadModel
  BY <1>2 DEF LoadModel, InitGoesOn, InitFails
<1>3. CASE CheckMemory
  <2>1. CASE InitGoesOn("context") /\ UNCHANGED implVars
    BY <1>3, <2>1 DEF CheckMemory, InitGoesOn, implVars
  <2>2. CASE InitFails /\ Cleanup
    BY <1>3, <2>2 DEF CheckMemory, InitFails, Cleanup
  <2> QED
    BY <1>3, <2>1, <2>2, Zenon DEF CheckMemory
<1>4. CASE CreateContext
  BY <1>4 DEF CreateContext, InitGoesOn, InitFails
<1>5. CASE VerifyContext
  BY <1>5 DEF VerifyContext, InitGoesOn, InitFails, Cleanup, implVars
<1>6. CASE InitThrows
  BY <1>6 DEF InitThrows, InitFails, Cleanup
<1>7. ASSUME NEW n \in Prompts, Call(n) PROVE FlagsOK' /\ Stages'
  BY <1>7 DEF Call, implVars
<1>8. CASE Uninitialized
  BY <1>8 DEF Uninitialized, Return, implVars
<1>9. CASE Tokenize
  BY <1>9 DEF Tokenize, Return, implVars
<1>10. CASE PromptTooLong
  BY <1>10 DEF PromptTooLong, Return, implVars
<1>11. CASE PromptStored
  BY <1>11 DEF PromptStored, Return, implVars
<1>12. CASE PromptFails
  BY <1>12 DEF PromptFails, Return, implVars
<1>13. CASE StepDecoded
  BY <1>13 DEF StepDecoded, Return, implVars
<1>14. CASE StepFails
  BY <1>14 DEF StepFails, Return, implVars
<1>15. CASE PickFails
  BY <1>15 DEF PickFails, Return, implVars
<1>16. CASE LoopEnds
  BY <1>16 DEF LoopEnds, Return, implVars
<1>17. CASE Finish
  BY <1>17 DEF Finish, Return, implVars
<1>18. CASE Throws
  BY <1>18 DEF Throws, Return, implVars
<1>19. ASSUME NEW t \in Tokens, Pick(t) PROVE FlagsOK' /\ Stages'
  BY <1>19 DEF Pick, implVars
<1> QED
  BY <1>1, <1>2, <1>3, <1>4, <1>5, <1>6, <1>7, <1>8, <1>9, <1>10, <1>11, <1>12, <1>13, <1>14, <1>15, <1>16, <1>17, <1>18, <1>19, Zenon DEF Next, Initialize, ProcessText

LEMMA QuietInductive ==
  ASSUME DataOK, Quiet, Next PROVE Quiet'
<1> USE DEF DataOK, Quiet, InCall, callVars
<1>1. CASE Initialize
  BY <1>1 DEF Initialize, FindModelFile, LoadModel, CheckMemory, CreateContext,
     VerifyContext, InitThrows, InitFails, InitGoesOn
<1>2. ASSUME NEW n \in Prompts, Call(n) PROVE Quiet'
  BY <1>2 DEF Call
<1>3. CASE Uninitialized
  BY <1>3, SMTT(30) DEF Uninitialized, Return
<1>4. CASE Tokenize
  BY <1>4, SMTT(30) DEF Tokenize, Return
<1>5. CASE PromptTooLong
  BY <1>5, SMTT(30) DEF PromptTooLong, Return
<1>6. CASE PromptStored
  BY <1>6, SMTT(30) DEF PromptStored, Return
<1>7. CASE PromptFails
  BY <1>7, SMTT(30) DEF PromptFails, Return
<1>8. CASE StepDecoded
  BY <1>8, SMTT(30) DEF StepDecoded, Return
<1>9. CASE StepFails
  BY <1>9, SMTT(30) DEF StepFails, Return
<1>10. CASE PickFails
  BY <1>10, SMTT(30) DEF PickFails, Return
<1>11. CASE LoopEnds
  BY <1>11, SMTT(30) DEF LoopEnds, Return
<1>12. CASE Finish
  BY <1>12, SMTT(30) DEF Finish, Return
<1>13. CASE Throws
  BY <1>13, SMTT(30) DEF Throws, Return
<1>14. ASSUME NEW t \in Tokens, Pick(t) PROVE Quiet'
  BY <1>14 DEF Pick
<1> QED
  BY <1>1, <1>2, <1>3, <1>4, <1>5, <1>6, <1>7, <1>8, <1>9, <1>10, <1>11, <1>12, <1>13, <1>14, Zenon DEF Next, ProcessText

LEMMA BoundedInductive ==
  ASSUME DataOK, Bounded, Next PROVE Bounded'
<1> USE LLMAssumption, EmptyResponse DEF DataOK, Bounded, callVars
<1>1. CASE Initialize
  BY <1>1 DEF Initialize, FindModelFile, LoadModel, CheckMemory, CreateContext,
     VerifyContext, InitThrows, InitFails, InitGoesOn
<1>2. ASSUME NEW n \in Prompts, Call(n) PROVE Bounded'
  BY <1>2 DEF Call
<1>3. CASE Uninitialized
  BY <1>3, SMTT(30) DEF Uninitialized, Return, KV!Room
<1>4. CASE Tokenize
  BY <1>4, SMTT(30) DEF Tokenize, Return, KV!Room
<1>5. CASE PromptTooLong
  BY <1>5, SMTT(30) DEF PromptTooLong, Return, KV!Room
<1>6. CASE PromptStored
  BY <1>6, SMTT(30) DEF PromptStored, Return, KV!Room
<1>7. CASE PromptFails
  BY <1>7, SMTT(30) DEF PromptFails, Return, KV!Room
<1>8. CASE StepDecoded
  BY <1>8, SMTT(30) DEF StepDecoded, Return, KV!Room
<1>9. CASE StepFails
  BY <1>9, SMTT(30) DEF StepFails, Return, KV!Room
<1>10. CASE PickFails
  BY <1>10, SMTT(30) DEF PickFails, Return, KV!Room
<1>11. CASE LoopEnds
  BY <1>11, SMTT(30) DEF LoopEnds, Return, KV!Room
<1>12. CASE Finish
  BY <1>12, SMTT(30) DEF Finish, Return, KV!Room
<1>13. CASE Throws
  BY <1>13, SMTT(30) DEF Throws, Return, KV!Room
<1>14. ASSUME NEW t \in Tokens, Pick(t) PROVE Bounded'
  BY <1>14 DEF Pick
<1> QED
  BY <1>1, <1>2, <1>3, <1>4, <1>5, <1>6, <1>7, <1>8, <1>9, <1>10, <1>11, <1>12, <1>13, <1>14, Zenon DEF Next, ProcessText

-----------------------------------------------------------------------------
(* The stop conditions.                                                    *)

NoneStops(r) == \A k \in 1 .. Len(r) : ~ Stops(SubSeq(r, 1, k))

(* e counts the tokens without text at the end of r, and no more.          *)
Trailing(r, e) ==
  /\ e <= Len(r)
  /\ \A i \in Len(r) - e + 1 .. Len(r) : Piece(r[i]) <= 0
  /\ e < Len(r) => Piece(r[Len(r) - e]) > 0

(* While the loop runs no stop condition has been met.                     *)
Running ==
  phase \in {"decode", "pick"} => NoneStops(response) /\ Trailing(response, empties)

LEMMA PieceInt == \A t \in Tokens : Piece(t) \in Int
<1> QED
  BY LLMAssumption, SMT DEF Piece

(* The elements and the prefixes of a longer response.                     *)
LEMMA Appended ==
  ASSUME NEW r \in Seq(Tokens), NEW t \in Tokens
  PROVE  LET q == Append(r, t)
         IN  /\ q \in Seq(Tokens) /\ Len(q) = Len(r) + 1 /\ q[Len(q)] = t
             /\ \A i \in 1 .. Len(r) : q[i] = r[i]
             /\ \A k \in 1 .. Len(r) : SubSeq(q, 1, k) = SubSeq(r, 1, k)
             /\ SubSeq(q, 1, Len(q)) = q
<1> DEFINE q == Append(r, t)
<1>1. /\ q \in Seq(Tokens) /\ Len(q) = Len(r) + 1 /\ q[Len(q)] = t
      /\ \A i \in 1 .. Len(r) : q[i] = r[i]
  BY AppendProperties, LenProperties, SMT
<1> HIDE DEF q
<1>2. ASSUME NEW k \in 1 .. Len(r) PROVE SubSeq(q, 1, k) = SubSeq(r, 1, k)
  <2>1. Len(r) \in Nat /\ Len(q) \in Nat
    BY <1>1, LenProperties
  <2>2. \A i \in 1 .. k : q[i] = r[i]
    BY <1>1, <2>1, SMT
  <2>3. SubSeq(q, 1, k) = [i \in 1 .. k |-> q[i]] /\ SubSeq(r, 1, k) = [i \in 1 .. k |-> r[i]]
    BY <1>1, <2>1, SMT
  <2> QED
    BY <2>2, <2>3
<1>3. SubSeq(q, 1, Len(q)) = q
  BY <1>1, LenProperties, SMT
<1> QED
  BY <1>1, <1>2, <1>3 DEF q

(* The comparison with the two tokens before is the stop condition.        *)
LEMMA RepeatsStops ==
  ASSUME NEW r \in Seq(Tokens)
  PROVE  Repeats(r) <=> Len(r) >= 4 /\ \A i \in Len(r) - 2 .. Len(r) : r[i] = r[Len(r)]
<1>1. Len(r) \in Nat
  BY LenProperties
<1> QED
  BY <1>1, SMT DEF Repeats

(* The running counter decides as the last MaxEmpty tokens do.             *)
LEMMA CounterStops ==
  ASSUME NEW r \in Seq(Tokens), NEW e \in Nat, Trailing(r, e)
  PROVE  e >= MaxEmpty <=>
           /\ Len(r) >= MaxEmpty
           /\ \A i \in Len(r) - MaxEmpty + 1 .. Len(r) : Piece(r[i]) <= 0
<1>1. Len(r) \in Nat /\ MaxEmpty \in Nat \ {0}
  BY LenProperties, LLMAssumption
<1>2. \A i \in 1 .. Len(r) : Piece(r[i]) \in Int
  BY PieceInt, ElementOfSeq
<1>3. CASE e >= MaxEmpty
  BY <1>1, <1>3, SMT DEF Trailing
<1>4. CASE e < MaxEmpty /\ Len(r) >= MaxEmpty
  <2>1. /\ Len(r) - e \in Len(r) - MaxEmpty + 1 .. Len(r) /\ Len(r) - e \in 1 .. Len(r)
        /\ Piece(r[Len(r) - e]) > 0
    BY <1>1, <1>4, SMT DEF Trailing
  <2>2. ~ (Piece(r[Len(r) - e]) <= 0)
    BY <1>2, <2>1, SMT
  <2> QED
    BY <1>4, <2>1, <2>2, <1>1, SMT
<1> QED
  BY <1>1, <1>3, <1>4, SMT

LEMMA CounterGoesOn ==
  ASSUME NEW r \in Seq(Tokens), NEW e \in Nat, NEW t \in Tokens, Trailing(r, e)
  PROVE  Trailing(Append(r, t), IF Piece(t) <= 0 THEN e + 1 ELSE 0)
<1> DEFINE q == Append(r, t)
<1>1. /\ Len(q) = Len(r) + 1 /\ q[Len(q)] = t /\ Len(r) \in Nat
      /\ \A i \in 1 .. Len(r) : q[i] = r[i]
  BY Appended, LenProperties
<1>2. Piece(t) \in Int
  BY PieceInt
<1> HIDE DEF q
<1>3. CASE Piece(t) <= 0
  <2>1. e + 1 <= Len(q) /\ Len(q) - (e + 1) = Len(r) - e
    BY <1>1, SMT DEF Trailing
  <2>2. ASSUME NEW i \in Len(q) - (e + 1) + 1 .. Len(q) PROVE Piece(q[i]) <= 0
    <3>1. CASE i = Len(q)
      BY <1>1, <1>3, <3>1
    <3>2. CASE i # Len(q)
      <4>1. i \in Len(r) - e + 1 .. Len(r) /\ i \in 1 .. Len(r)
        BY <1>1, <2>1, <3>2, SMT DEF Trailing
      <4> QED
        BY <1>1, <4>1 DEF Trailing
    <3> QED
      BY <3>1, <3>2
  <2>3. ASSUME e + 1 < Len(q) PROVE Piece(q[Len(q) - (e + 1)]) > 0
    <3>1. Len(r) - e \in 1 .. Len(r) /\ e < Len(r)
      BY <1>1, <2>3, SMT DEF Trailing
    <3> QED
      BY <1>1, <2>1, <3>1 DEF Trailing
  <2> QED
    BY <1>3, <2>1, <2>2, <2>3 DEF Trailing, q
<1>4. CASE ~ (Piece(t) <= 0)
  <2>1. Piece(t) > 0 /\ 0 <= Len(q) /\ Len(q) - 0 = Len(q)
    BY <1>1, <1>2, <1>4, SMT
  <2>2. \A i \in Len(q) - 0 + 1 .. Len(q) : FALSE
    BY <1>1, SMT
  <2> QED
    BY <1>1, <1>4, <2>1, <2>2 DEF Trailing, q
<1> QED
  BY <1>3, <1>4

(* The three stop conditions of the code are those of Stops.               *)
LEMMA GoesOnOnlyUnstopped ==
  ASSUME NEW q \in Seq(Tokens), Len(q) > 0, NEW e \in Nat, Trailing(q, e),
         q[Len(q)] # Eos, ~ Repeats(q), e < MaxEmpty
  PROVE  ~ Stops(q)
<1>1. MaxEmpty \in Nat /\ Len(q) \in Nat
  BY LLMAssumption, LenProperties
<1>2. ~ (e >= MaxEmpty)
  BY <1>1, SMT
<1> QED
  BY <1>2, CounterStops, RepeatsStops, Zenon DEF Stops

(* A step that leaves the response alone and does not enter the loop.      *)
LEMMA ResponseKept ==
  ASSUME Running, StopsInTime, response' = response, empties' = empties,
         phase' \in {"decode", "pick"} => phase \in {"decode", "pick"}
  PROVE  Running' /\ StopsInTime'
<1>1. Running'
  BY DEF Running
<1>2. ASSUME phase' = "decode" PROVE NoneStops(response)
  BY <1>2 DEF Running
<1>3. StopsInTime'
  BY <1>2 DEF StopsInTime, NoneStops
<1> QED
  BY <1>1, <1>3

LEMMA ResponseEmptied ==
  ASSUME response' = <<>>, empties' = 0
  PROVE  Running' /\ StopsInTime'
<1>1. Len(<<>>) = 0 /\ Len(response') = 0
  BY EmptyResponse
<1>2. NoneStops(<<>>) /\ Trailing(<<>>, 0)
  BY <1>1, SMT DEF NoneStops, Trailing
<1>3. StopsInTime'
  BY <1>1, SMT DEF StopsInTime
<1> QED
  BY <1>2, <1>3 DEF Running

LEMMA StopsInductive ==
  ASSUME DataOK, Bounded, Running, StopsInTime, Next
  PROVE  Running' /\ StopsInTime'
<1> USE DEF callVars
<1>1. CASE Initialize
  <2>1. response' = response /\ empties' = empties /\ phase' \notin {"decode", "pick"}
    BY <1>1 DEF Initialize, FindModelFile, LoadModel, CheckMemory, CreateContext,
       VerifyContext, InitThrows, InitFails, InitGoesOn
  <2> QED
    BY <2>1, ResponseKept
<1>2. ASSUME NEW n \in Prompts, Call(n) PROVE Running' /\ StopsInTime'
  BY <1>2, ResponseEmptied DEF Call
<1>3. CASE PromptStored
  BY <1>3, ResponseEmptied DEF PromptStored, Bounded
<1>4. CASE Uninitialized
  <2>1. /\ response' = response /\ empties' = empties
        /\ phase' \in {"decode", "pick"} => phase \in {"decode", "pick"}
    BY <1>4 DEF Uninitialized, Return
  <2> QED
    BY <2>1, ResponseKept
<1>5. CASE Tokenize
  <2>1. /\ response' = response /\ empties' = empties
        /\ phase' \in {"decode", "pick"} => phase \in {"decode", "pick"}
    BY <1>5 DEF Tokenize, Return
  <2> QED
    BY <2>1, ResponseKept
<1>6. CASE PromptTooLong
  <2>1. /\ response' = response /\ empties' = empties
        /\ phase' \in {"decode", "pick"} => phase \in {"decode", "pick"}
    BY <1>6 DEF PromptTooLong, Return
  <2> QED
    BY <2>1, ResponseKept
<1>7. CASE PromptFails
  <2>1. /\ response' = response /\ empties' = empties
        /\ phase' \in {"decode", "pick"} => phase \in {"decode", "pick"}
    BY <1>7 DEF PromptFails, Return
  <2> QED
    BY <2>1, ResponseKept
<1>8. CASE StepDecoded
  <2>1. /\ response' = response /\ empties' = empties
        /\ phase' \in {"decode", "pick"} => phase \in {"decode", "pick"}
    BY <1>8 DEF StepDecoded, Return
  <2> QED
    BY <2>1, ResponseKept
<1>9. CASE StepFails
  <2>1. /\ response' = response /\ empties' = empties
        /\ phase' \in {"decode", "pick"} => phase \in {"decode", "pick"}
    BY <1>9 DEF StepFails, Return
  <2> QED
    BY <2>1, ResponseKept
<1>10. CASE PickFails
  <2>1. /\ response' = response /\ empties' = empties
        /\ phase' \in {"decode", "pick"} => phase \in {"decode", "pick"}
    BY <1>10 DEF PickFails, Return
  <2> QED
    BY <2>1, ResponseKept
<1>11. CASE LoopEnds
  <2>1. /\ response' = response /\ empties' = empties
        /\ phase' \in {"decode", "pick"} => phase \in {"decode", "pick"}
    BY <1>11 DEF LoopEnds, Return
  <2> QED
    BY <2>1, ResponseKept
<1>12. CASE Finish
  <2>1. /\ response' = response /\ empties' = empties
        /\ phase' \in {"decode", "pick"} => phase \in {"decode", "pick"}
    BY <1>12 DEF Finish, Return
  <2> QED
    BY <2>1, ResponseKept
<1>13. CASE Throws
  <2>1. /\ response' = response /\ empties' = empties
        /\ phase' \in {"decode", "pick"} => phase \in {"decode", "pick"}
    BY <1>13 DEF Throws, Return
  <2> QED
    BY <2>1, ResponseKept
<1>14. ASSUME NEW t \in Tokens, Pick(t) PROVE Running' /\ StopsInTime'
  <2> DEFINE q == Append(response, t)
             e == IF Piece(t) <= 0 THEN empties + 1 ELSE 0
  <2>1. response \in Seq(Tokens) /\ empties \in Nat /\ response' = q
    BY <1>14 DEF DataOK, Pick
  <2>2. NoneStops(response) /\ Trailing(response, empties)
    BY <1>14 DEF Running, Pick
  <2>3. /\ q \in Seq(Tokens) /\ Len(q) = Len(response) + 1 /\ q[Len(q)] = t
        /\ \A k \in 1 .. Len(response) : SubSeq(q, 1, k) = SubSeq(response, 1, k)
        /\ SubSeq(q, 1, Len(q)) = q
    BY <2>1, Appended
  <2>4. Trailing(q, e) /\ e \in Nat
    BY <2>1, <2>2, CounterGoesOn
  <2>5. Len(q) \in Nat /\ Len(response) \in Nat /\ Len(q) > 0
    BY <2>1, <2>3, LenProperties, SMT
  <2>6. ASSUME phase' \in {"decode", "pick"}
        PROVE  phase' = "decode" /\ empties' = e /\ ~ Stops(q)
    <3>1. t # Eos /\ ~ Repeats(q) /\ empties' = e /\ ~ (e >= MaxEmpty) /\ phase' = "decode"
      BY <1>14, <2>6 DEF Pick
    <3>2. e < MaxEmpty
      BY <2>4, <3>1, LLMAssumption, SMT
    <3> HIDE DEF q, e
    <3> QED
      BY <2>3, <2>4, <2>5, <3>1, <3>2, GoesOnOnlyUnstopped
  <2> HIDE DEF q, e
  <2>7. \A k \in 1 .. Len(q) : k # Len(q) => ~ Stops(SubSeq(q, 1, k))
    <3>1. \A k \in 1 .. Len(q) : k # Len(q) => k \in 1 .. Len(response)
      BY <2>3, <2>5, SMT
    <3> QED
      BY <2>2, <2>3, <3>1, Zenon DEF NoneStops
  <2>8. ASSUME ~ Stops(q) PROVE NoneStops(q)
    BY <2>3, <2>7, <2>8, Zenon DEF NoneStops
  <2>9. Running'
    BY <2>1, <2>4, <2>6, <2>8, Zenon DEF Running
  <2>10. ASSUME NEW k \in 1 .. Len(q), Stops(SubSeq(q, 1, k))
         PROVE  k = Len(q) /\ phase' # "decode"
    <3>1. k = Len(q)
      BY <2>7, <2>10
    <3> QED
      BY <2>3, <2>6, <2>10, <3>1
  <2>11. StopsInTime'
    BY <2>1, <2>10, Zenon DEF StopsInTime
  <2> QED
    BY <2>9, <2>11
<1> QED
  BY <1>1, <1>2, <1>3, <1>4, <1>5, <1>6, <1>7, <1>8, <1>9, <1>10, <1>11, <1>12, <1>13, <1>14, Zenon DEF Next, ProcessText

-----------------------------------------------------------------------------
(* The ways out of a call.                                                 *)
LEMMA ReturnsContract ==
  ASSUME DataOK, Quiet, Next
  PROVE  AnswerContract' /\ LoopFreesItsBatch'
<1> USE DEF DataOK, Quiet, InCall, AnswerContract, LoopFreesItsBatch, callVars
<1>1. CASE Initialize
  <2>1. phase' # "returned"
    BY <1>1 DEF Initialize, FindModelFile, LoadModel, CheckMemory, CreateContext,
       VerifyContext, InitThrows, InitFails, InitGoesOn
  <2> QED
    BY <2>1
<1>2. ASSUME NEW n \in Prompts, Call(n) PROVE AnswerContract' /\ LoopFreesItsBatch'
  BY <1>2 DEF Call
<1>3. CASE Uninitialized
  BY <1>3, SMTT(30) DEF Uninitialized, Return
<1>4. CASE Tokenize
  <2>1. \/ phase' = "prompt"
        \/ phase = "tokenize" /\ Return("empty", 1) /\ UNCHANGED <<used, code, batches>>
    BY <1>4, Zenon DEF Tokenize
  <2> QED
    BY <2>1, SMTT(30) DEF Return
<1>5. CASE PromptFails
  <2>1. code' \in {"error", "no_slot"}
    BY <1>5 DEF PromptFails
  <2> QED
    BY <1>5, <2>1, SMTT(30) DEF PromptFails, Return
<1>6. CASE Finish
  BY <1>6, SMTT(30) DEF Finish, Return
<1>7. CASE Throws
  BY <1>7, SMTT(30) DEF Throws, Return
<1>8. CASE PromptTooLong
  BY <1>8 DEF PromptTooLong
<1>9. CASE PromptStored
  BY <1>9 DEF PromptStored
<1>10. CASE StepDecoded
  BY <1>10 DEF StepDecoded
<1>11. CASE StepFails
  BY <1>11 DEF StepFails
<1>12. CASE PickFails
  BY <1>12 DEF PickFails
<1>13. CASE LoopEnds
  BY <1>13 DEF LoopEnds
<1>14. ASSUME NEW t \in Tokens, Pick(t) PROVE AnswerContract' /\ LoopFreesItsBatch'
  <2>1. phase' # "returned"
    BY <1>14 DEF Pick
  <2> QED
    BY <2>1
<1> QED
  BY <1>1, <1>2, <1>3, <1>4, <1>5, <1>6, <1>7, <1>8, <1>9, <1>10, <1>11, <1>12, <1>13, <1>14, Zenon DEF Next, ProcessText

-----------------------------------------------------------------------------
(* The invariant.                                                          *)

IInv ==
  /\ DataOK /\ FlagsOK /\ Stages /\ Quiet /\ Bounded
  /\ Running /\ StopsInTime /\ AnswerContract /\ LoopFreesItsBatch

LEMMA InitIInv == Init => IInv
<1> SUFFICES ASSUME Init PROVE IInv
  OBVIOUS
<1> USE LLMAssumption, EmptyResponse DEF Init
<1>1. DataOK
  BY DEF DataOK
<1>2. FlagsOK /\ Stages /\ Quiet
  BY DEF FlagsOK, Stages, Quiet, InCall
<1>3. Bounded /\ Running /\ StopsInTime
  BY SMT DEF Bounded, Running, StopsInTime
<1>4. AnswerContract /\ LoopFreesItsBatch
  BY DEF AnswerContract, LoopFreesItsBatch
<1> QED
  BY <1>1, <1>2, <1>3, <1>4 DEF IInv

LEMMA NextIInv == IInv /\ [Next]_vars => IInv'
<1> SUFFICES ASSUME IInv, [Next]_vars PROVE IInv'
  OBVIOUS
<1>1. CASE Next
  <2>1. /\ DataOK /\ FlagsOK /\ Stages /\ Quiet /\ Bounded /\ Running /\ StopsInTime
    BY DEF IInv
  <2> QED
    BY <1>1, <2>1, DataInductive, FlagsInductive, QuietInductive, BoundedInductive,
       StopsInductive, ReturnsContract, Zenon DEF IInv
<1>2. CASE UNCHANGED vars
  <2> USE <1>2 DEF IInv, vars, implVars, callVars
  <2>1. DataOK' /\ Quiet' /\ Bounded'
    BY DEF DataOK, Quiet, InCall, Bounded
  <2>2. FlagsOK'
    BY DEF FlagsOK
  <2>3. Stages'
    BY DEF Stages
  <2>4. Running' /\ StopsInTime'
    BY DEF Running, StopsInTime
  <2>5. AnswerContract' /\ LoopFreesItsBatch'
    BY DEF AnswerContract, LoopFreesItsBatch
  <2> QED
    BY <2>1, <2>2, <2>3, <2>4, <2>5
<1> QED
  BY <1>1, <1>2

LEMMA Invariance == Spec => []IInv
<1> QED
  BY InitIInv, NextIInv, PTL DEF Spec

(* Every variable stays in its type: no call takes more than the cache     *)
(* holds, no response grows past max_response_tokens, and no count of      *)
(* empty tokens passes max_empty_tokens.                                   *)
THEOREM TypeCorrect == Spec => []TypeOK
<1>1. IInv => TypeOK
  BY TypeParts, Zenon DEF IInv
<1> QED
  BY <1>1, Invariance, PTL

(* Whatever stage of LLMProcessor::initialize fails, and wherever it       *)
(* throws, it ends with both the model and the context or with neither.    *)
THEOREM InitializeAllOrNothing == Spec => []InitAllOrNothing
<1>1. IInv => InitAllOrNothing
  BY Zenon DEF IInv, Stages, InitAllOrNothing
<1> QED
  BY <1>1, Invariance, PTL

(* processText signals at most one error; a signalled call answers "", and *)
(* an empty answer without a signal comes from a prompt that was refused.  *)
THEOREM AnswersAsPromised == Spec => []AnswerContract
<1>1. IInv => AnswerContract
  BY DEF IInv
<1> QED
  BY <1>1, Invariance, PTL

(* The decoding loop of processText leaves no batch of a round allocated,  *)
(* unless an exception ends the call.                                      *)
THEOREM RoundBatchFreed == Spec => []LoopFreesItsBatch
<1>1. IInv => LoopFreesItsBatch
  BY DEF IInv
<1> QED
  BY <1>1, Invariance, PTL

(* processText never checks the size of the context, and still no token is *)
(* fed at a position outside it: the KV cache refuses the token first.     *)
THEOREM NoPositionOutside == Spec => []PositionsInContext
<1>1. IInv => PositionsInContext
  <2> SUFFICES ASSUME IInv, phase = "pick" PROVE prompt + Len(response) < Size
    BY DEF PositionsInContext
  <2>1. used \in 0 .. Size /\ prompt \in Nat /\ Len(response) \in Nat
    BY LLMAssumption, LenProperties DEF IInv, DataOK
  <2>2. prompt + Len(response) < used /\ Size \in Nat
    BY LLMAssumption DEF IInv, Bounded
  <2> QED
    BY <2>1, <2>2, SMT
<1> QED
  BY <1>1, Invariance, PTL

(* The loop of processText, with its running counter of empty tokens and   *)
(* its comparison of three tokens, stops at the first response that meets  *)
(* a stop condition stated over the whole response.                        *)
THEOREM StopsAtTheFirst == Spec => []StopsInTime
<1>1. IInv => StopsInTime
  BY DEF IInv
<1> QED
  BY <1>1, Invariance, PTL

-----------------------------------------------------------------------------
(* A call ends.                                                            *)

LEMMA LeftAt ==
  /\ phase = "tokenize" => StepsLeft = 2 * MaxResponse + 4
  /\ phase = "prompt" => StepsLeft = 2 * MaxResponse + 3
  /\ phase = "decode" => StepsLeft = 2 * (MaxResponse - Len(response)) + 2
  /\ phase = "pick" => StepsLeft = 2 * (MaxResponse - Len(response)) + 1
  /\ phase = "finish" => StepsLeft = 1
  /\ ~ InCall => StepsLeft = 0
<1> QED
  BY DEF StepsLeft, InCall

LEMMA StepAdvances ==
  ASSUME IInv, InCall, Next
  PROVE  0 <= StepsLeft' /\ StepsLeft' < StepsLeft
<1> DEFINE M == MaxResponse
           L == Len(response)
<1>1. M \in Nat /\ L \in Nat /\ L <= M /\ response \in Seq(Tokens)
  BY LLMAssumption, LenProperties DEF IInv, DataOK
<1>2. /\ phase' = "prompt" => StepsLeft' = 2 * M + 3
      /\ phase' = "decode" => StepsLeft' = 2 * (M - Len(response')) + 2
      /\ phase' = "pick" => StepsLeft' = 2 * (M - Len(response')) + 1
      /\ phase' = "finish" => StepsLeft' = 1
      /\ phase' \in {"returned", "aborted"} => StepsLeft' = 0
  BY DEF StepsLeft
<1>3. ProcessText
  BY DEF InCall, Next, Initialize, FindModelFile, LoadModel, CheckMemory, CreateContext,
     VerifyContext, InitThrows, Call
<1> HIDE DEF M, L
<1>4. ASSUME phase' \in {"returned", "aborted"} PROVE 0 <= StepsLeft' /\ StepsLeft' < StepsLeft
  <2>1. StepsLeft > 0
    BY <1>1, LeftAt DEF InCall, M, L
  <2> QED
    BY <1>2, <1>4, <2>1
<1>5. CASE Uninitialized \/ PromptTooLong \/ PromptFails \/ Finish \/ Throws
  BY <1>4, <1>5, Zenon DEF Uninitialized, PromptTooLong, PromptFails, Finish, Throws, Return
<1>6. CASE Tokenize
  <2>1. phase = "tokenize" /\ phase' \in {"prompt", "returned"}
    BY <1>6, Zenon DEF Tokenize, Return
  <2> QED
    BY <1>1, <1>2, <1>4, <2>1, LeftAt DEF M
<1>7. CASE PromptStored
  <2>1. phase = "prompt" /\ phase' = "decode" /\ response = <<>> /\ response' = <<>>
    BY <1>7 DEF PromptStored, IInv, Bounded
  <2>2. Len(response') = 0
    BY <2>1, EmptyResponse
  <2> QED
    BY <1>1, <1>2, <2>1, <2>2, LeftAt DEF M
<1>8. CASE StepDecoded
  <2>1. phase = "decode" /\ phase' = "pick" /\ response' = response
    BY <1>8 DEF StepDecoded
  <2> QED
    BY <1>1, <1>2, <2>1, LeftAt DEF M, L
<1>9. CASE StepFails \/ PickFails \/ LoopEnds
  <2>1. phase \in {"decode", "pick"} /\ phase' = "finish" /\ (phase = "pick" => L < M)
    BY <1>9 DEF StepFails, PickFails, LoopEnds, IInv, Bounded, M, L
  <2> QED
    BY <1>1, <1>2, <2>1, LeftAt DEF M, L
<1>10. ASSUME NEW t \in Tokens, Pick(t) PROVE 0 <= StepsLeft' /\ StepsLeft' < StepsLeft
  <2>1. phase = "pick" /\ phase' \in {"finish", "decode"} /\ L < M /\ response' = Append(response, t)
    BY <1>10 DEF Pick, IInv, Bounded, M, L
  <2>2. Len(response') = L + 1
    BY <1>1, <2>1, AppendProperties DEF L
  <2> QED
    BY <1>1, <1>2, <2>1, <2>2, LeftAt DEF M, L
<1> QED
  BY <1>3, <1>5, <1>6, <1>7, <1>8, <1>9, <1>10, Zenon DEF ProcessText

(* A call of processText takes at most 2 * max_response_tokens + 4 steps,  *)
(* whatever the vocabulary, the stop conditions and the failures.          *)
THEOREM CallEnds == Spec => CallAdvances
<1>1. IInv /\ [Next]_vars => [StepsLeft > 0 => 0 <= StepsLeft' /\ StepsLeft' < StepsLeft]_vars
  <2> SUFFICES ASSUME IInv, Next, StepsLeft > 0 PROVE 0 <= StepsLeft' /\ StepsLeft' < StepsLeft
    OBVIOUS
  <2>1. InCall
    BY LeftAt
  <2> QED
    BY <2>1, StepAdvances
<1> QED
  BY <1>1, Invariance, PTL DEF Spec, CallAdvances

-----------------------------------------------------------------------------
(* What the callers see.                                                   *)

(* Only a processor with a model comes past the first test of processText. *)
Loaded == phase \in {"prompt", "decode", "pick", "finish"} => model /\ context

LEMMA LoadedInductive ==
  ASSUME Loaded, Next PROVE Loaded'
<1> USE DEF Loaded, implVars
<1>1. CASE Initialize
  <2>1. phase' \in {"idle", "load", "memory", "context", "verify", "aborted"}
    BY <1>1, Zenon DEF Initialize, FindModelFile, LoadModel, CheckMemory, CreateContext,
       VerifyContext, InitThrows, InitFails, InitGoesOn
  <2> QED
    BY <2>1
<1>2. ASSUME NEW n \in Prompts, Call(n) PROVE Loaded'
  BY <1>2 DEF Call
<1>3. CASE Uninitialized \/ PromptTooLong \/ PromptFails \/ Finish \/ Throws
  <2>1. phase' \in {"returned", "aborted"}
    BY <1>3, Zenon DEF Uninitialized, PromptTooLong, PromptFails, Finish, Throws, Return
  <2> QED
    BY <2>1
<1>4. CASE Tokenize
  <2>1. model /\ context /\ UNCHANGED implVars
    BY <1>4, Zenon DEF Tokenize, Return
  <2> QED
    BY <2>1, Zenon
<1>5. CASE PromptStored \/ StepDecoded \/ StepFails \/ PickFails \/ LoopEnds
           \/ \E t \in Tokens : Pick(t)
  <2>1. UNCHANGED implVars /\ phase \in {"prompt", "decode", "pick", "finish"}
    BY <1>5, Zenon DEF PromptStored, StepDecoded, StepFails, PickFails, LoopEnds, Pick
  <2> QED
    BY <2>1, Zenon
<1> QED
  BY <1>1, <1>2, <1>3, <1>4, <1>5, Zenon DEF Next, ProcessText

Early == {"new", "load", "memory", "context", "verify"}

(* What is seen where the processor is.                                    *)
Views ==
  /\ phase \in Early => Stage = "loading" /\ Ready = FALSE
  /\ phase \notin Early => Ready = (model /\ context)
  /\ phase = "idle" => Stage = "idle"
  /\ phase = "returned" => Stage = "answered"
  /\ phase = "aborted" => Stage = "dead"
  /\ InCall => Stage = "running"
  /\ phase # "returned" => Answer = "none"
  /\ phase = "returned" /\ signals > 0 => Answer = "error"
  /\ phase = "returned" /\ signals = 0 => Answer \in {"nothing", "text"}

LEMMA SeenAs == Views
<1>1. Loading <=> phase \in Early
  BY DEF Loading, Early
<1>2. /\ phase \in Early => Ready = FALSE
      /\ phase \notin Early => Ready = (model /\ context)
  BY <1>1, Zenon DEF Ready
<1> QED
  BY <1>1, <1>2 DEF Views, Stage, Answer, InCall, Early

(* Steps of a call and between calls leave the model and the context.      *)
LEMMA ReadyStays ==
  ASSUME phase \notin Early, phase' \notin Early, UNCHANGED implVars
  PROVE  Ready' = Ready
<1>1. Views /\ Views'
  BY SeenAs, PTL
<1>2. Ready = (model /\ context) /\ Ready' = (model' /\ context')
  BY <1>1, Zenon DEF Views
<1>3. model' = model /\ context' = context
  BY DEF implVars
<1> QED
  BY <1>2, <1>3, Zenon

LEMMA ReplySeen ==
  ASSUME IInv, InCall, phase' = "returned", UNCHANGED implVars, signals' \in {signals, signals + 1},
         Loaded, phase = "tokenize" => signals' = signals + 1
  PROVE  Promise!Reply
<1>1. Views /\ Views'
  BY SeenAs, PTL
<1>2. phase \notin Early /\ phase' \notin Early
  BY DEF Early, InCall
<1>3. Ready = (model /\ context) /\ Ready' = Ready
  <2>1. Ready = (model /\ context)
    BY <1>1, <1>2, Zenon DEF Views
  <2> QED
    BY <1>2, <2>1, ReadyStays
<1>4. Stage = "running" /\ Stage' = "answered"
  BY <1>1 DEF Views
<1>5. signals = 0
  BY DEF IInv, Quiet
<1>6. Answer' \in {"text", "nothing", "error"} /\ (phase = "tokenize" => Answer' = "error")
  BY <1>1, <1>5 DEF Views
<1>7. Answer' \in Promise!Answers
  <2>1. CASE phase = "tokenize"
    BY <1>6, <2>1 DEF Promise!Answers
  <2>2. CASE phase # "tokenize"
    <3>1. Ready
      BY <1>3, <2>2, Zenon DEF InCall, Loaded
    <3> QED
      BY <1>6, <3>1 DEF Promise!Answers
  <2> QED
    BY <2>1, <2>2
<1> QED
  BY <1>3, <1>4, <1>7, Zenon DEF Promise!Reply

LEMMA InitializeSeen ==
  ASSUME IInv, Initialize
  PROVE  [Promise!Next]_<<Ready, Stage, Answer>>
<1>1. Views /\ Views'
  BY SeenAs, PTL
<1>2. phase \in Early /\ phase' \in (Early \cup {"idle", "aborted"})
      /\ (phase' = "aborted" => phase = "new" /\ UNCHANGED implVars)
  BY DEF Initialize, FindModelFile, LoadModel, CheckMemory, CreateContext, VerifyContext,
     InitThrows, InitFails, InitGoesOn, Early
<1>3. Stage = "loading" /\ Ready = FALSE /\ Answer = "none"
  BY <1>1, <1>2 DEF Views, Early
<1>4. Answer' = "none"
  BY <1>1, <1>2 DEF Views, Early
<1>5. CASE phase' \in Early
  BY <1>1, <1>3, <1>4, <1>5, Zenon DEF Views
<1>6. CASE phase' = "idle"
  <2>1. Stage' = "idle"
    BY <1>1, <1>6 DEF Views
  <2>2. phase' \notin Early
    BY <1>6 DEF Early
  <2>3. Ready' \in BOOLEAN
    BY <1>1, <2>2, Zenon DEF Views
  <2>4. Promise!Load
    BY <1>3, <1>4, <2>1, <2>3, Zenon DEF Promise!Load
  <2> QED
    BY <2>4, Zenon DEF Promise!Next
<1>7. CASE phase' = "aborted"
  <2>1. Stage' = "dead" /\ phase' \notin Early
    BY <1>1, <1>7 DEF Views, Early
  <2>2. ~ model /\ model' = model
    BY <1>2, <1>7 DEF IInv, Stages, implVars
  <2>3. Ready' = FALSE
    BY <1>1, <2>1, <2>2, Zenon DEF Views
  <2>4. Promise!Abort
    BY <1>3, <1>4, <2>1, <2>3, Zenon DEF Promise!Abort
  <2> QED
    BY <2>4, Zenon DEF Promise!Next
<1> QED
  BY <1>2, <1>5, <1>6, <1>7

LEMMA CallSeen ==
  ASSUME NEW n \in Prompts, Call(n)
  PROVE  [Promise!Next]_<<Ready, Stage, Answer>>
<1>1. Views /\ Views'
  BY SeenAs, PTL
<1>2. phase \in {"idle", "returned"} /\ phase' = "tokenize" /\ UNCHANGED implVars
  BY DEF Call
<1>3. Ready' = Ready
  BY <1>2, ReadyStays DEF Early
<1>4. Stage \in {"idle", "answered"} /\ Stage' = "running" /\ Answer' = "none"
  BY <1>1, <1>2 DEF Views, InCall
<1>5. Promise!Call
  BY <1>3, <1>4, Zenon DEF Promise!Call
<1> QED
  BY <1>5, Zenon DEF Promise!Next

LEMMA ProcessSeen ==
  ASSUME IInv, Loaded, ProcessText
  PROVE  [Promise!Next]_<<Ready, Stage, Answer>>
<1>1. Views /\ Views'
  BY SeenAs, PTL
<1>2. /\ InCall /\ UNCHANGED implVars
      /\ phase' \in {"prompt", "decode", "pick", "finish", "returned", "aborted"}
      /\ phase' = "aborted" => PromptTooLong
  BY DEF ProcessText, Uninitialized, Tokenize, PromptTooLong, PromptStored, PromptFails, StepDecoded,
     StepFails, PickFails, LoopEnds, Finish, Throws, Pick, Return, InCall, implVars
<1>3. Ready' = Ready
  BY <1>2, ReadyStays DEF Early, InCall
<1>4. Stage = "running" /\ Answer = "none"
  BY <1>1, <1>2 DEF Views, InCall
<1>5. CASE phase' \in {"prompt", "decode", "pick", "finish"}
  <2>1. Stage' = "running" /\ Answer' = "none"
    BY <1>1, <1>5 DEF Views, InCall
  <2> QED
    BY <1>3, <1>4, <2>1, Zenon
<1>6. CASE phase' = "aborted"
  <2>1. Stage' = "dead" /\ Answer' = "none"
    BY <1>1, <1>6 DEF Views
  <2>2. Promise!Abort
    BY <1>3, <1>4, <2>1, Zenon DEF Promise!Abort
  <2> QED
    BY <2>2, Zenon DEF Promise!Next
<1>7. CASE phase' = "returned"
  <2>1. signals' \in {signals, signals + 1} /\ (phase = "tokenize" => signals' = signals + 1)
    <3>1. signals \in Nat
      BY DEF IInv, DataOK
    <3> QED
      BY <1>7, <3>1 DEF ProcessText, Uninitialized, Tokenize, PromptTooLong, PromptStored, PromptFails,
         StepDecoded, StepFails, PickFails, LoopEnds, Finish, Throws, Pick, Return
  <2>2. Promise!Reply
    BY <1>2, <1>7, <2>1, ReplySeen
  <2> QED
    BY <2>2, Zenon DEF Promise!Next
<1> QED
  BY <1>2, <1>5, <1>6, <1>7

(* Whatever fails inside it, LLMProcessor is to its callers a TextCall:    *)
(* one answer for each call, and always an error without a model.          *)
THEOREM ProcessorImplementsTextCall == Spec => ImplementsTextCall
<1>1. Init => Promise!Init /\ Loaded
  <2> SUFFICES ASSUME Init PROVE Promise!Init /\ Loaded
    OBVIOUS
  <2>1. phase = "new"
    BY Zenon DEF Init
  <2>2. Ready = FALSE /\ Stage = "loading" /\ Answer = "none"
    BY <2>1, SeenAs DEF Views, Early
  <2> QED
    BY <2>1, <2>2 DEF Promise!Init, Loaded
<1>2. IInv /\ Loaded /\ [Next]_vars => Loaded' /\ [Promise!Next]_<<Ready, Stage, Answer>>
  <2> SUFFICES ASSUME IInv, Loaded, [Next]_vars
               PROVE  Loaded' /\ [Promise!Next]_<<Ready, Stage, Answer>>
    OBVIOUS
  <2>1. CASE Next
    BY <2>1, LoadedInductive, InitializeSeen, CallSeen, ProcessSeen, Zenon DEF Next
  <2>2. CASE UNCHANGED vars
    <3>1. UNCHANGED <<phase, model, context, signals, result>>
      BY <2>2 DEF vars, implVars, callVars
    <3>2. UNCHANGED <<Ready, Stage, Answer>>
      BY <3>1 DEF Ready, Stage, Answer, Loading
    <3> QED
      BY <3>1, <3>2, Zenon DEF Loaded
  <2> QED
    BY <2>1, <2>2
<1> QED
  BY <1>1, <1>2, Invariance, PTL DEF Spec, ImplementsTextCall, Promise!Spec, Promise!vars
=============================================================================
