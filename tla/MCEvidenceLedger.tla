-------------------------- MODULE MCEvidenceLedger --------------------------
(***************************************************************************)
(* An instance of EvidenceLedger for TLC: a grant that is active for a     *)
(* tick and one for the wrong scope.                                       *)
(***************************************************************************)
EXTENDS EvidenceLedger

MCToken ==
  {[authentic |-> TRUE, inScope |-> TRUE, issued |-> 0, expires |-> 1],
   [authentic |-> TRUE, inScope |-> FALSE, issued |-> 0, expires |-> 1]}
=============================================================================
