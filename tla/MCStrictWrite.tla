--------------------------- MODULE MCStrictWrite ---------------------------
(***************************************************************************)
(* An instance of StrictWrite for TLC.  Writers, paths and contents are    *)
(* never told apart but by equality.                                       *)
(***************************************************************************)
EXTENDS StrictWrite, TLC

MCSymmetry == Permutations(Writer) \cup Permutations(Path) \cup Permutations(Content)
=============================================================================
