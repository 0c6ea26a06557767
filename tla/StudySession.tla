---------------------------- MODULE StudySession ----------------------------
(***************************************************************************)
(* What the window promises its user, without threads, events or dialogs:  *)
(* at most one text is awaited, the last one asked for.  Its guide is      *)
(* shown and filed once, with that text, or there is none.  A text that is *)
(* asked for meanwhile replaces it for good.  StudyGuideApp implements     *)
(* this module, whatever the user does.                                    *)
(***************************************************************************)
EXTENDS Integers, Sequences

CONSTANTS
  Valid,     \* texts a guide may be asked for
  MaxJobs    \* bound: texts asked for in a session

VARIABLES
  open,      \* is the window there?
  asked,     \* the texts asked for; a guide has the number of its text
  awaited,   \* the one whose guide is awaited, or 0
  shown,     \* the guide on the results page, or 0
  filed      \* the history, newest first

vars == <<open, asked, awaited, shown, filed>>

Init == open = TRUE /\ asked = <<>> /\ awaited = 0 /\ shown = 0 /\ filed = <<>>

Ask(t) ==
  /\ open /\ Len(asked) < MaxJobs
  /\ asked' = Append(asked, t) /\ awaited' = Len(asked) + 1
  /\ UNCHANGED <<open, shown, filed>>

Deliver ==
  /\ open /\ awaited # 0
  /\ shown' = awaited /\ awaited' = 0
  /\ filed' = <<[input |-> asked[awaited], guide |-> awaited]>> \o filed
  /\ UNCHANGED <<open, asked>>

(* There is no guide, or nobody any more to show it to.                    *)
GiveUp == awaited # 0 /\ awaited' = 0 /\ UNCHANGED <<open, asked, shown, filed>>

Close == open /\ open' = FALSE /\ UNCHANGED <<asked, awaited, shown, filed>>

Next == (\E t \in Valid : Ask(t)) \/ Deliver \/ GiveUp \/ Close

Spec == Init /\ [][Next]_vars
=============================================================================
