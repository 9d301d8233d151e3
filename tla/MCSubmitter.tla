---------------------------- MODULE MCSubmitter ----------------------------
(* Model-checking instances of Submitter.                                  *)
EXTENDS Submitter, TLC

Symmetry == Permutations(Node)
=============================================================================
