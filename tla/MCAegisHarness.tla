--------------------------- MODULE MCAegisHarness ---------------------------
(***************************************************************************)
(* AegisHarness with one read-only tool and one that writes, and with      *)
(* responses of every form: calls among which one is malformed, a handoff, *)
(* a text that answers although it holds actions, an empty block, actions. *)
(***************************************************************************)
EXTENDS AegisHarness

MCBatch == <<"write", "read">>

Says(calls, handoff) == [form |-> "native", calls |-> calls, handoff |-> handoff]

MCResponse ==
  {Says(<<Malformed>> \o MCBatch, FALSE), Says(MCBatch, TRUE),
   [form |-> "text", final |-> TRUE, block |-> Says(MCBatch, FALSE), actions |-> MCBatch],
   [form |-> "text", final |-> FALSE, block |-> Says(<< >>, FALSE), actions |-> MCBatch],
   [form |-> "text", final |-> FALSE, block |-> NoBlock, actions |-> MCBatch]}
=============================================================================
