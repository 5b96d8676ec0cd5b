------------------------------- MODULE Lists -------------------------------
(***************************************************************************)
(* Lists that are made from lists: what is taken out of one, and one after *)
(* the other.  Defined without recursive operators, so that modules about  *)
(* lists of any length can be proved about.                                *)
(***************************************************************************)
EXTENDS Orders, Sequences, SequencesExt

IsList(s) == s \in Seq(ToSet(s))

\* The entries at some of its positions; those that belong to a set.
Picked(s, at) == [k \in DOMAIN Ascending(at) |-> s[Ascending(at)[k]]]
Only(s, S)    == Picked(s, {i \in DOMAIN s : s[i] \in S})

\* The entries whose like has not come before.
FirstTimes(s) == {i \in DOMAIN s : \A j \in 1 .. (i - 1) : s[j] # s[i]}

Concat(ss) ==
  LET upto[n \in 0 .. Len(ss)] == IF n = 0 THEN <<>> ELSE upto[n - 1] \o ss[n]
  IN  upto[Len(ss)]
=============================================================================
