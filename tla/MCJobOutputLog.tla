--------------------------- MODULE MCJobOutputLog ---------------------------
(* Model-checking instance of JobOutputLog.                                *)
EXTENDS JobOutputLog, TLC

Symmetry == Permutations(Attacher)
=============================================================================
