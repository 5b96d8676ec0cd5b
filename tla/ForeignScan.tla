---------------------------- MODULE ForeignScan ----------------------------
(***************************************************************************)
(* One ForeignScan node: db2BeginForeignScan, db2IterateForeignScan,       *)
(* db2ReScanForeignScan and db2EndForeignScan, down to the values that     *)
(* db2FetchNext and convertTuple put into the slot.                        *)
(*                                                                         *)
(* A query is a record                                                     *)
(*   markers  what the text has for each "?", in text order: the position  *)
(*            of an expression in fdw_exprs, or 0 for the current time     *)
(*   types    the types of these expressions: "string" or "number"         *)
(*   results  the resultList, of records [resnum, exact, decfloat,         *)
(*            val_size, colSize, colScale]; exact: DECIMAL, NUMERIC or     *)
(*            DECFLOAT                                                     *)
(*   natts    attributes of the slot                                       *)
(* A value of a row is Null or [text, len]; len counts its characters.     *)
(***************************************************************************)
EXTENDS Naturals, Integers, Sequences, FiniteSetsExt, SequencesExt

CONSTANTS Queries,      \* plans of foreign scans
          Values,       \* values of a parameter
          Now,          \* start of the transaction
          Null,
          Answer(_, _), \* rows DB2 has for a query and the values of its markers
          MaxReScans    \* bound on calls of db2ReScanForeignScan

ResultColumn ==
  [resnum : Nat \ {0}, exact : BOOLEAN, decfloat : BOOLEAN, val_size : Nat, colSize : Nat, colScale : Int]

\* An expression is in fdw_exprs because the text has a "?" for it, the planner
\* numbers the results, and a DECFLOAT has 16 or 34 digits.
ASSUME QueriesAssumption ==
  \A q \in Queries :
    /\ q.types \in Seq({"string", "number"}) /\ q.markers \in Seq(0 .. Len(q.types))
    /\ \A e \in DOMAIN q.types : \E i \in DOMAIN q.markers : q.markers[i] = e
    /\ q.natts \in Nat /\ q.results \in Seq(ResultColumn)
    /\ \A i, j \in DOMAIN q.results : q.results[i].resnum = q.results[j].resnum => i = j
    /\ \A i \in DOMAIN q.results : q.results[i].decfloat => q.results[i].colSize \in {16, 34}

\* DB2 has a value of some length, or NULL, for each result.
ASSUME AnswerAssumption ==
  \A q \in Queries : \A mv \in [DOMAIN q.markers -> Values \cup {Now}] :
    LET rows == Answer(q, mv)
    IN  /\ rows \in Seq(Range(rows))
        /\ \A k \in DOMAIN rows : \A i \in DOMAIN q.results :
             LET v == rows[k][q.results[i].resnum] IN v = Null \/ v.len \in Nat

VARIABLES
  scan,      \* idle, run, ended, error
  query,     \* the query of the plan
  paramList, \* fdw_state->paramList, of records [expr, txts]
  current,   \* values the executor has for the expressions now
  stmtOpen,  \* session->stmtp is there
  cursor,    \* rows DB2 has not delivered yet
  fetched,   \* rows delivered since the scan was started
  slot,      \* the slot after the last call: attributes, or empty
  atEnd,     \* the last call has returned an empty slot
  rescans

scanVars == <<scan, query, paramList, current, stmtOpen, cursor, fetched, slot, atEnd, rescans>>

NoQuery == [markers |-> <<>>, types |-> <<>>, results |-> <<>>, natts |-> 0]

ScanInit ==
  /\ scan = "idle" /\ query = NoQuery /\ paramList = <<>> /\ current = <<>>
  /\ stmtOpen = FALSE /\ cursor = <<>> /\ fetched = <<>> /\ slot = <<>>
  /\ atEnd = FALSE /\ rescans = 0

----------------------------------------------------------------------------
(* Parameters.                                                             *)

\* Each parameter is put in front of the list.
addExprParams(q) == Reverse([i \in DOMAIN q.types |-> [expr |-> i, txts |-> FALSE]])

\* One more, in front, however often the text asks for the time.
NowParam(q) == IF \E i \in DOMAIN q.markers : q.markers[i] = 0 THEN <<[expr |-> 0, txts |-> TRUE]>> ELSE <<>>

setSelectParameters == [i \in DOMAIN paramList |-> IF paramList[i].txts THEN Now ELSE current[paramList[i].expr]]

\* addExprParams leaves colType at 0, for which db2BindParameter knows no
\* number type.
Unbindable == \E i \in DOMAIN paramList : ~paramList[i].txts /\ query.types[paramList[i].expr] = "number"

\* What the markers stand for in the plan.
Wanted == [i \in DOMAIN query.markers |-> IF query.markers[i] = 0 THEN Now ELSE current[query.markers[i]]]

----------------------------------------------------------------------------
(* A row.                                                                  *)

\* Mutant: no byte for the terminator.
DigitsOnly(res) ==
  IF ~res.exact THEN res.val_size
  ELSE LET needed == res.colSize + 1 + (IF res.colScale > 0 THEN 1 ELSE 0)
       IN  IF res.val_size < needed THEN needed ELSE res.val_size

\* db2PrepareQuery: sign, digits, point and terminator of an exact number, and
\* room for the exponent of a DECFLOAT.
BufferSize(res) ==
  IF ~res.exact THEN res.val_size
  ELSE LET digits == (IF res.colSize > 0 THEN res.colSize ELSE 32) + 2 + (IF res.colScale > 0 THEN 1 ELSE 0)
           needed == IF res.decfloat /\ digits < 64 THEN 64 ELSE digits
       IN  IF res.val_size < needed THEN needed ELSE res.val_size

\* A column bound with SQLBindCol is cut off at the end of its buffer.
Bound(v, size) == IF v = Null \/ v.len < size THEN v ELSE [text |-> "cut", len |-> size - 1]

\* SQLGetData: a value longer than its buffer is asked for again, with a larger
\* buffer; a second call continues where the first has stopped.
GetData(v, size) == IF v = Null \/ v.len < size THEN v ELSE [text |-> "rest", len |-> v.len - (size - 1)]

\* db2FetchNext, for the row that SQLFetch has reached.
FetchedValue(res, row) ==
  IF res.exact THEN GetData(row[res.resnum], BufferSize(res)) ELSE Bound(row[res.resnum], BufferSize(res))

OutOfRange == \E i \in DOMAIN query.results : query.results[i].resnum \notin 1..query.natts

\* convertTuple with DB2_TUPLE_INDEX_RESULT: every attribute is NULL first.
convertTuple(row) ==
  [j \in 1..query.natts |->
     LET here == {i \in DOMAIN query.results : query.results[i].resnum = j}
     IN  IF here = {} THEN Null ELSE FetchedValue(query.results[Max(here)], row)]

----------------------------------------------------------------------------

Scanning == scan = "run"

\* Without marker values there is no answer.
ScanError ==
  /\ scan' = "error"
  /\ UNCHANGED <<query, paramList, current, stmtOpen, cursor, fetched, slot, atEnd, rescans>>

db2BeginForeignScan ==
  /\ scan = "idle"
  /\ scan' = "run"
  /\ \E q \in Queries :
       /\ query' = q
       /\ paramList' = NowParam(q) \o addExprParams(q)
       /\ current' \in [DOMAIN q.types -> Values]
  /\ UNCHANGED <<stmtOpen, cursor, fetched, slot, atEnd, rescans>>

\* The next of these rows, or the end: then the statement is closed.
Fetch(rows) ==
  IF rows = <<>>
    THEN /\ stmtOpen' = FALSE /\ cursor' = <<>> /\ slot' = <<>> /\ atEnd' = TRUE
         /\ UNCHANGED <<scan, query, paramList, current, fetched, rescans>>
    ELSE /\ ~OutOfRange
         /\ stmtOpen' = TRUE /\ cursor' = Tail(rows)
         /\ fetched' = Append(fetched, Head(rows))
         /\ slot' = convertTuple(Head(rows))
         /\ UNCHANGED <<scan, query, paramList, current, atEnd, rescans>>

\* PostgreSQL does not ask again after an empty slot.
db2IterateForeignScan ==
  /\ Scanning /\ ~atEnd
  /\ \/ stmtOpen /\ Fetch(cursor)
     \/ /\ ~stmtOpen /\ ~Unbindable
        /\ Len(paramList) = Len(query.markers)
        /\ Fetch(Answer(query, setSelectParameters))

\* No type to bind, a marker without a value, an attribute the slot does not
\* have, or an error of DB2.
IterateFails ==
  /\ Scanning /\ ~atEnd
  /\ ScanError

\* Mutant: with the same values the statement stays open.
ReScanKeepsStatement ==
  /\ Scanning /\ rescans < MaxReScans
  /\ current' \in [DOMAIN query.types -> Values]
  /\ stmtOpen' = (stmtOpen /\ current' = current) /\ cursor' = IF stmtOpen' THEN cursor ELSE <<>>
  /\ fetched' = <<>> /\ slot' = <<>> /\ atEnd' = FALSE
  /\ rescans' = rescans + 1
  /\ UNCHANGED <<scan, query, paramList>>

\* The executor starts the scan again, with other values if it has any.
db2ReScanForeignScan ==
  /\ Scanning /\ rescans < MaxReScans
  /\ current' \in [DOMAIN query.types -> Values]
  /\ stmtOpen' = FALSE /\ cursor' = <<>>
  /\ fetched' = <<>> /\ slot' = <<>> /\ atEnd' = FALSE
  /\ rescans' = rescans + 1
  /\ UNCHANGED <<scan, query, paramList>>

db2EndForeignScan ==
  /\ Scanning
  /\ scan' = "ended" /\ stmtOpen' = FALSE /\ cursor' = <<>>
  /\ UNCHANGED <<query, paramList, current, fetched, slot, atEnd, rescans>>

ScanNext ==
  \/ db2BeginForeignScan \/ db2IterateForeignScan \/ IterateFails
  \/ db2ReScanForeignScan \/ db2EndForeignScan

----------------------------------------------------------------------------

\* With at most one marker, the rows a scan has handed out are the first rows,
\* and at its end all rows, of the answer to the values the executor has now:
\* across a scan that is stopped early, started again and given other values.
RowsOfOneRun ==
  Scanning /\ Len(query.markers) <= 1 =>
    /\ IsPrefix(fetched, Answer(query, Wanted))
    /\ atEnd => fetched = Answer(query, Wanted)

\* An exact number needs a sign and a point beside its digits, a DECFLOAT an
\* exponent of six characters.
Fits(res, v) ==
  \/ v = Null
  \/ res.exact /\ v.len <= res.colSize + 1 + (IF res.colScale > 0 THEN 1 ELSE 0) + (IF res.decfloat THEN 7 ELSE 0)
  \/ ~res.exact /\ v.len < res.val_size

\* A value of the size DB2 has described arrives whole, a NULL as NULL, and an
\* attribute the result does not have is NULL.
SlotIsRow ==
  slot # <<>> =>
    \A j \in DOMAIN slot :
      LET here == {i \in DOMAIN query.results : query.results[i].resnum = j}
      IN  IF here = {} THEN slot[j] = Null
          ELSE \A i \in here : Fits(query.results[i], Last(fetched)[j]) => slot[j] = Last(fetched)[j]
=============================================================================
