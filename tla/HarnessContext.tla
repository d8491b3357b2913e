--------------------------- MODULE HarnessContext ---------------------------
(***************************************************************************)
(* What the model is shown of a conversation                               *)
(* (python/ethos_aegis/harness/context.py).  The conversation itself is    *)
(* never changed: old tool outputs are masked, and the middle summarised,  *)
(* in the prompt alone.                                                    *)
(***************************************************************************)
EXTENDS SequencesExt

CONSTANTS
  Anchor,    \* how many of the first messages, 2 in the code,
  Recent     \* and how many of the last, 6 in the code, are left alone

ASSUME ContextAssumption == Anchor \in Nat \ {0} /\ Recent \in Nat \ {0}

(* A message in the prompt: its number, and whether its content has been   *)
(* replaced.  The summary has no message of its own.  A prompt is the set  *)
(* of its places: their order is that of the numbers but for the summary,  *)
(* and the ends of a short conversation that is compacted come twice.      *)
Place(i, masked) == [message |-> i, masked |-> masked]
Summary == Place(0, TRUE)

(* The first of the recent messages is masked as well. *)
MutantMaskOldToolOutputs(history) ==
  {Place(i, history[i] = "tool" /\ i <= Len(history) - Recent + 1) : i \in 1 .. Len(history)}

MaskOldToolOutputs(history) ==
  {Place(i, history[i] = "tool" /\ i <= Len(history) - Recent) : i \in 1 .. Len(history)}

(* Of the middle of the n messages only those with a keyword stay, and a   *)
(* masked content has none.                                                *)
CompactIfNeeded(places, n, over, keyword) ==
  LET kept(p) ==
        \/ p.message <= Anchor
        \/ p.message \in keyword /\ ~p.masked
        \/ p.message > n - Recent
  IN  IF over THEN {p \in places : kept(p)} \cup {Summary} ELSE places

(* The last message is not history: it is added whatever it is.            *)
Prompt(messages, over, keyword) ==
  LET history == Front(messages)
  IN  CompactIfNeeded(MaskOldToolOutputs(history), Len(history), over, keyword)
        \cup {Place(Len(messages), FALSE)}

(* The messages that the model can read in full. *)
Shown(messages, over, keyword) ==
  {p.message : p \in {p \in Prompt(messages, over, keyword) : ~p.masked}}
=============================================================================
