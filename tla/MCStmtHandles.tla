--------------------------- MODULE MCStmtHandles ---------------------------
(* Instances of StmtHandles for TLC: nodes and blocks are interchangeable.  *)
EXTENDS StmtHandles, TLC

Symmetry == Permutations(Scan) \cup Permutations(Modify) \cup Permutations(Hdl)
=============================================================================
