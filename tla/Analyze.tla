------------------------------ MODULE Analyze ------------------------------
(***************************************************************************)
(* ANALYZE: acquireSampleRowsFunc reads all rows of a foreign table and    *)
(* keeps some.  Its loop runs once for the execution of the query, before  *)
(* a row is fetched: that row is number 0 here.                            *)
(***************************************************************************)
EXTENDS Integers, Sequences, FiniteSets, FiniteSetsExt

CONSTANTS TargRows,  \* rows PostgreSQL asks for
          MaxRows    \* bound on the rows DB2 has

ASSUME AnalyzeAssumption == TargRows \in Nat \ {0} /\ MaxRows \in Nat

VARIABLES
  sampling,   \* idle, prepare, fetch, done
  inTable,    \* rows DB2 has
  delivered,  \* rows of them db2FetchNext has got
  sample,     \* rows[], the collected ones
  rowcount

analyzeVars == <<sampling, inTable, delivered, sample, rowcount>>

AnalyzeInit == sampling = "idle" /\ inTable = 0 /\ delivered = 0 /\ sample = <<>> /\ rowcount = -1

\* Mutant: the count starts with no rows.
RowcountFromZero == 0

RowcountAtStart == -1

acquireSampleRowsFunc ==
  /\ sampling = "idle"
  /\ inTable' \in 0 .. MaxRows
  /\ sampling' = "prepare" /\ delivered' = 0 /\ sample' = <<>> /\ rowcount' = RowcountAtStart

\* The body of the loop. anl_get_next_S gives 0 for a table without rows, and
\* is not asked again: every row that finds the sample full replaces one.
Collect(row) ==
  /\ rowcount' = rowcount + 1
  /\ IF Len(sample) < TargRows THEN sample' = Append(sample, row)
     ELSE \E k \in DOMAIN sample : sample' = [sample EXCEPT ![k] = row]

\* The loop's condition: db2PrepareQuery and db2ExecuteQuery, which returns -1
\* for a query, and db2FetchNext as long as there is a statement.
NextRow ==
  \/ sampling = "prepare" /\ sampling' = "fetch" /\ UNCHANGED delivered
  \/ sampling = "fetch" /\ delivered < inTable /\ delivered' = delivered + 1 /\ UNCHANGED sampling

SampleRow == NextRow /\ Collect(delivered') /\ UNCHANGED inTable

FetchEnd ==
  /\ sampling = "fetch" /\ delivered = inTable
  /\ sampling' = "done" /\ UNCHANGED <<inTable, delivered, sample, rowcount>>

SampleTaken ==
  /\ sampling = "done"
  /\ sampling' = "idle" /\ inTable' = 0 /\ delivered' = 0 /\ sample' = <<>> /\ rowcount' = RowcountAtStart

AnalyzeNext == acquireSampleRowsFunc \/ SampleRow \/ FetchEnd \/ SampleTaken

AnalyzeSpec == AnalyzeInit /\ [][AnalyzeNext]_analyzeVars

\* Though the loop runs once more than DB2 has rows, the count from which
\* PostgreSQL estimates the table is the number of rows DB2 has; the sample has
\* no row twice, as many as were asked for if there are so many, and one more
\* than there are if not.
SampleCounted ==
  sampling = "done" =>
    /\ rowcount = inTable
    /\ Len(sample) = Min({TargRows, inTable + 1})
    /\ \A i, j \in DOMAIN sample : i # j => sample[i] # sample[j]
=============================================================================
