----------------------------- MODULE NestedXact -----------------------------
(***************************************************************************)
(* What a DB2 server should see of one PostgreSQL session: a transaction   *)
(* with nested subtransactions.  A subtransaction that aborts takes the    *)
(* work done since it began with it, and nothing else; work reaches the    *)
(* database only as a whole, when the outermost transaction commits.       *)
(***************************************************************************)
EXTENDS Naturals

CONSTANTS Work,     \* things a transaction can do
          MaxDepth  \* deepest nesting

VARIABLES depth,    \* nesting level, 0 outside a transaction
          work,     \* what the open transaction has done
          base,     \* work when level n began
          done      \* what the database keeps

nvars == <<depth, work, base, done>>

NInit ==
  /\ depth = 0 /\ work = {} /\ done = {}
  /\ base = [n \in 1..MaxDepth |-> {}]

NBegin ==
  /\ depth = 0
  /\ depth' = 1
  /\ UNCHANGED <<work, base, done>>

NDo(w) ==
  /\ depth > 0
  /\ work' = work \cup {w}
  /\ UNCHANGED <<depth, base, done>>

NPush ==
  /\ depth \in 1..(MaxDepth - 1)
  /\ depth' = depth + 1
  /\ base' = [base EXCEPT ![depth + 1] = work]
  /\ UNCHANGED <<work, done>>

\* A level ends: its work joins the level below, or is undone.
NPop ==
  /\ depth > 1
  /\ depth' = depth - 1
  /\ base' = [base EXCEPT ![depth] = {}]
  /\ work' \in {work, base[depth]}
  /\ UNCHANGED done

\* The outermost level ends: all of its work is kept, or none.
NEnd ==
  /\ depth = 1
  /\ depth' = 0
  /\ work' = {}
  /\ done' \in {done, done \cup work}
  /\ UNCHANGED base

NNext == NBegin \/ (\E w \in Work : NDo(w)) \/ NPush \/ NPop \/ NEnd

NSpec == NInit /\ [][NNext]_nvars
=============================================================================
