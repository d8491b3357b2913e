---------------------------- MODULE OutputParser ----------------------------
(***************************************************************************)
(* What the harness takes a response of the model for                      *)
(* (python/ethos_aegis/harness/output_parser.py), and its answer's way     *)
(* through the verifiers (verification.py).                                *)
(***************************************************************************)
EXTENDS SequencesExt

CONSTANTS
  Tool,
  Malformed,    \* an entry of tool_calls that is no call
  NoBlock,      \* a text without a JSON block that speaks of tools
  Response,     \* the responses of the model
  Verifiers     \* how many verifiers there are, 0 when none is asked

(* A dict of the native kind, and a text. *)
Native == [form : {"native"}, calls : Seq(Tool \cup {Malformed}), handoff : BOOLEAN]
Text ==
  [form : {"text"}, final : BOOLEAN, block : Native \cup {NoBlock}, actions : Seq(Tool)]

ASSUME ParserAssumption ==
  /\ Verifiers \in Nat
  /\ \A r \in Response : r \in Native \/ r \in Text

ParsedOutput(calls, final, handoff) ==
  [calls |-> calls, final |-> final, handoff |-> handoff]

(* Malformed calls are skipped; when no call is left the content is the    *)
(* final answer, be it empty.                                              *)
ParseNative(r) ==
  LET calls == SelectSeq(r.calls, LAMBDA c : c # Malformed)
  IN  ParsedOutput(calls, calls = << >> /\ ~r.handoff, r.handoff)

(* The words "Final Answer:" go before a JSON block, and that before the   *)
(* actions of the text.                                                    *)
ParseText(r) ==
  CASE r.final -> ParsedOutput(<< >>, TRUE, FALSE)
    [] ~r.final /\ r.block # NoBlock -> ParseNative(r.block)
    [] OTHER -> ParsedOutput(r.actions, r.actions = << >>, FALSE)

Parse(r) == IF r.form = "native" THEN ParseNative(r) ELSE ParseText(r)

(* What a verifier says: not passed at a score of 0.4 or more is "doubt".  *)
Verdict == {"pass", "doubt", "fail"}
Verdicts == [1 .. Verifiers -> Verdict]

(* The first failure ends it; a doubt does not, and the composite passes.  *)
Verified(results) == \A i \in 1 .. Verifiers : results[i] # "fail"
=============================================================================
