---------------------------- MODULE MCHostLearn ----------------------------
(***************************************************************************)
(* HostLearn for TLC: the cells are alike, so they may be permuted.        *)
(***************************************************************************)
EXTENDS HostLearn
LOCAL INSTANCE TLC

Symmetry == Permutations(Cells)
=============================================================================
