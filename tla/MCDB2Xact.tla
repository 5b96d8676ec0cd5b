----------------------------- MODULE MCDB2Xact -----------------------------
(* Instances of DB2Xact for TLC: entries are interchangeable.               *)
EXTENDS DB2XactInv, TLC

EntrySymmetry == Permutations(Conn)
=============================================================================
