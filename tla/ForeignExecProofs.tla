------------------------- MODULE ForeignExecProofs -------------------------
(***************************************************************************)
(* Proofs about the executor with foreign tables, for every plan of a scan *)
(* and answer of DB2, every table and statement, and any number of nodes.  *)
(***************************************************************************)
EXTENDS ForeignExec, OrdersProofs

----------------------------------------------------------------------------
(* Scans: the rows of one run.                                             *)

\* What DB2 can answer at all.
AnyRow ==
  UNION {UNION {Range(Answer(q, mv)) : mv \in [DOMAIN q.markers -> Values \cup {Now}]} : q \in Queries}

LEMMA AnswerRows ==
  ASSUME NEW q \in Queries, NEW mv \in [DOMAIN q.markers -> Values \cup {Now}]
  PROVE  Answer(q, mv) \in Seq(AnyRow)
<1> DEFINE rows == Answer(q, mv)
<1>1. rows \in Seq(Range(rows))
  BY AnswerAssumption
<1>2. Range(rows) \subseteq AnyRow
  BY DEF AnyRow
<1> HIDE DEF rows
<1> QED BY <1>1, <1>2, SeqMonotonic DEF rows

\* What is known of a scan while it runs.
ScanState ==
  /\ query \in Queries
  /\ paramList = NowParam(query) \o addExprParams(query)
  /\ current \in [DOMAIN query.types -> Values]

\* The rows that were handed out and those that are to come are the answer.
RowsInv ==
  /\ scan \in {"idle", "run", "ended", "error"}
  /\ scan = "idle" => fetched = <<>> /\ cursor = <<>> /\ ~stmtOpen /\ ~atEnd
  /\ fetched \in Seq(AnyRow) /\ cursor \in Seq(AnyRow)
  /\ Scanning =>
       /\ ScanState
       /\ Len(query.markers) <= 1 =>
            /\ stmtOpen => fetched \o cursor = Answer(query, Wanted)
            /\ atEnd => fetched = Answer(query, Wanted)
            /\ ~stmtOpen /\ ~atEnd => fetched = <<>>

\* The values of the markers are values.
LEMMA ValuesOfMarkers ==
  ASSUME ScanState
  PROVE  Wanted \in [DOMAIN query.markers -> Values \cup {Now}]
<1>1. query.markers \in Seq(0 .. Len(query.types)) /\ query.types \in Seq({"string", "number"})
  BY QueriesAssumption DEF ScanState
<1>2. ASSUME NEW i \in DOMAIN query.markers, query.markers[i] # 0
      PROVE  current[query.markers[i]] \in Values
  <2>1. query.markers[i] \in 0 .. Len(query.types)
    BY <1>1
  <2>2. query.markers[i] \in DOMAIN query.types
    BY <1>1, <1>2, <2>1
  <2> QED BY <2>2 DEF ScanState
<1> QED BY <1>2 DEF Wanted

\* The parameters are those of the expressions, from the last to the first,
\* after the one for the time.
LEMMA ParamEntries ==
  ASSUME NEW q \in Queries
  PROVE  /\ addExprParams(q) \in Seq([expr : Nat, txts : BOOLEAN])
         /\ Len(addExprParams(q)) = Len(q.types) /\ Len(q.types) \in Nat
         /\ DOMAIN addExprParams(q) = 1 .. Len(q.types)
         /\ \A i \in 1 .. Len(q.types) :
              addExprParams(q)[i] = [expr |-> Len(q.types) - i + 1, txts |-> FALSE]
<1> DEFINE n == Len(q.types)
           f == [i \in DOMAIN q.types |-> [expr |-> i, txts |-> FALSE]]
<1>1. q.types \in Seq({"string", "number"}) /\ n \in Nat /\ DOMAIN q.types = 1 .. n
  BY QueriesAssumption
<1>2. f \in Seq([expr : Nat, txts : BOOLEAN]) /\ Len(f) = n
  <2>1. f \in [1 .. n -> [expr : Nat, txts : BOOLEAN]]
    BY <1>1
  <2> QED BY <1>1, <2>1
<1>3. \A i \in 1 .. n : n - i + 1 \in 1 .. n /\ f[n - i + 1] = [expr |-> n - i + 1, txts |-> FALSE]
  BY <1>1
<1>4. addExprParams(q) = Reverse(f)
  BY DEF addExprParams
<1> HIDE DEF f
<1>5. addExprParams(q) = [i \in 1 .. n |-> f[n - i + 1]]
  BY <1>2, <1>4 DEF Reverse
<1>6. ASSUME NEW i \in 1 .. n PROVE f[n - i + 1] \in [expr : Nat, txts : BOOLEAN]
  <2>1. n - i + 1 \in Nat
    BY <1>1, <1>3
  <2>2. [expr |-> n - i + 1, txts |-> FALSE] \in [expr : Nat, txts : BOOLEAN]
    BY <2>1
  <2>3. f[n - i + 1] = [expr |-> n - i + 1, txts |-> FALSE]
    BY <1>3
  <2> QED BY ONLY <2>2, <2>3
<1>7. /\ addExprParams(q) \in Seq([expr : Nat, txts : BOOLEAN])
      /\ Len(addExprParams(q)) = n /\ DOMAIN addExprParams(q) = 1 .. n
  <2> DEFINE R == [expr : Nat, txts : BOOLEAN]
             a == addExprParams(q)
  <2>1. a \in [1 .. n -> R]
    BY <1>5, <1>6
  <2> HIDE DEF R, a
  <2>2. a \in Seq(R) /\ Len(a) = n /\ DOMAIN a = 1 .. n
    BY <1>1, <2>1
  <2> QED BY <2>2 DEF R, a
<1> QED BY <1>1, <1>3, <1>5, <1>7

\* With one marker at most there is nothing to confuse.
LEMMA OneMarker ==
  ASSUME ScanState, Len(query.markers) <= 1, Len(paramList) = Len(query.markers)
  PROVE  setSelectParameters = Wanted
<1> DEFINE P == addExprParams(query)
           N == NowParam(query)
           m == query.markers
           t == query.types
<1>1. /\ query \in Queries /\ m \in Seq(0 .. Len(t)) /\ t \in Seq({"string", "number"})
      /\ \A e \in DOMAIN t : \E i \in DOMAIN m : m[i] = e
      /\ Len(m) \in Nat /\ DOMAIN m = 1 .. Len(m) /\ Len(t) \in Nat /\ DOMAIN t = 1 .. Len(t)
  BY QueriesAssumption DEF ScanState
<1>2. /\ Len(P) = Len(t) /\ DOMAIN P = 1 .. Len(t)
      /\ \A i \in 1 .. Len(t) : P[i] = [expr |-> Len(t) - i + 1, txts |-> FALSE]
  BY <1>1, ParamEntries
<1>3. paramList = N \o P
  BY DEF ScanState
<1>4. P \in Seq([expr : Nat, txts : BOOLEAN])
  BY <1>1, ParamEntries
<1> HIDE DEF P, N
<1>5. CASE Len(m) = 0
  <2>1. Len(t) = 0
    <3>1. \A e \in 1 .. Len(t) : FALSE
      BY <1>1, <1>5
    <3>2. Len(t) >= 1 => 1 \in 1 .. Len(t)
      BY <1>1
    <3> QED BY <1>1, <3>1, <3>2
  <2>2. N = <<>>
    BY <1>1, <1>5 DEF N, NowParam
  <2>3. P = <<>>
    BY <1>2, <1>4, <2>1
  <2>4. paramList = <<>>
    BY <1>3, <2>2, <2>3
  <2> QED BY <1>1, <1>5, <2>4 DEF setSelectParameters, Wanted
<1>6. CASE Len(m) = 1 /\ m[1] = 0
  <2>1. Len(t) = 0
    <3>1. \A e \in 1 .. Len(t) : e = 0
      BY <1>1, <1>6
    <3>2. Len(t) >= 1 => 1 \in 1 .. Len(t)
      BY <1>1
    <3> QED BY <1>1, <3>1, <3>2
  <2>2. N = <<[expr |-> 0, txts |-> TRUE]>>
    <3>1. 1 \in DOMAIN m /\ m[1] = 0
      BY <1>1, <1>6
    <3> QED BY <3>1 DEF N, NowParam
  <2>3. P = <<>>
    BY <1>2, <1>4, <2>1
  <2>4. N \in Seq([expr : Nat, txts : BOOLEAN])
    BY <2>2
  <2>5. paramList = <<[expr |-> 0, txts |-> TRUE]>>
    BY <1>3, <2>2, <2>3, <2>4, ConcatEmptySeq
  <2> QED BY <1>1, <1>6, <2>5 DEF setSelectParameters, Wanted
<1>7. CASE Len(m) = 1 /\ m[1] # 0
  <2>1. m[1] \in 1 .. Len(t)
    BY <1>1, <1>7
  <2>2. Len(t) = 1 /\ m[1] = 1
    <3>1. \A e \in 1 .. Len(t) : e = m[1]
      BY <1>1, <1>7
    <3>2. 1 \in 1 .. Len(t) /\ Len(t) \in 1 .. Len(t)
      BY <1>1, <2>1
    <3> QED BY <3>1, <3>2
  <2>3. N = <<>>
    BY <1>1, <1>7 DEF N, NowParam
  <2>4. paramList = P
    BY <1>3, <1>4, <2>3, ConcatEmptySeq
  <2>5. DOMAIN paramList = 1 .. 1 /\ paramList[1] = [expr |-> 1, txts |-> FALSE]
    BY <1>2, <2>2, <2>4
  <2> QED BY <1>1, <1>7, <2>2, <2>5 DEF setSelectParameters, Wanted
<1>8. Len(m) = 0 \/ Len(m) = 1
  <2>1. Len(m) \in Nat
    BY <1>1
  <2> QED BY <2>1
<1> QED BY <1>5, <1>6, <1>7, <1>8

LEMMA InFront ==
  ASSUME NEW T, NEW x \in T, NEW s \in Seq(T)
  PROVE  /\ <<x>> \o s \in Seq(T) /\ Len(<<x>> \o s) = Len(s) + 1
         /\ (<<x>> \o s)[1] = x
         /\ \A j \in 1 .. Len(s) : (<<x>> \o s)[j + 1] = s[j]
<1>1. <<x>> \in Seq(T) /\ Len(<<x>>) = 1 /\ Len(s) \in Nat
  OBVIOUS
<1>2. /\ <<x>> \o s \in Seq(T) /\ Len(<<x>> \o s) = 1 + Len(s)
      /\ \A i \in 1 .. 1 + Len(s) : (<<x>> \o s)[i] = IF i <= 1 THEN <<x>>[i] ELSE s[i - 1]
  OBVIOUS
<1> QED BY <1>1, <1>2

\* Every parameter has a value.
LEMMA ValuesOfParams ==
  ASSUME ScanState, Len(paramList) = Len(query.markers)
  PROVE  setSelectParameters \in [DOMAIN query.markers -> Values \cup {Now}]
<1> DEFINE P == addExprParams(query)
           N == NowParam(query)
           R == [expr : Nat, txts : BOOLEAN]
           n == Len(query.types)
<1>1. /\ query \in Queries /\ n \in Nat /\ DOMAIN query.types = 1 .. n
      /\ DOMAIN query.markers = 1 .. Len(query.markers)
      /\ paramList = N \o P /\ current \in [1 .. n -> Values]
  BY QueriesAssumption DEF ScanState
<1>2. /\ P \in Seq(R) /\ Len(P) = n
      /\ \A i \in 1 .. n : P[i] = [expr |-> n - i + 1, txts |-> FALSE]
  BY <1>1, ParamEntries
<1>3. N = <<>> \/ N = <<[expr |-> 0, txts |-> TRUE]>>
  BY DEF NowParam
<1>4. ASSUME NEW i \in 1 .. n
      PROVE  n - i + 1 \in 1 .. n /\ ~P[i].txts /\ P[i].expr = n - i + 1
  <2>1. P[i] = [expr |-> n - i + 1, txts |-> FALSE]
    BY <1>2
  <2>2. n - i + 1 \in 1 .. n
    BY <1>1
  <2> HIDE DEF P
  <2> QED BY <2>1, <2>2
<1>5. ASSUME NEW i \in DOMAIN paramList
      PROVE  paramList[i].txts \/ (~paramList[i].txts /\ paramList[i].expr \in 1 .. n)
  <2> HIDE DEF P, N, R
  <2>1. CASE N = <<>>
    <3>1. paramList = P
      BY <1>1, <1>2, <2>1, ConcatEmptySeq
    <3>2. i \in 1 .. n
      BY <1>2, <3>1
    <3> QED BY <1>4, <3>1, <3>2
  <2>2. CASE N = <<[expr |-> 0, txts |-> TRUE]>>
    <3>1. [expr |-> 0, txts |-> TRUE] \in R
      BY DEF R
    <3>2. /\ paramList \in Seq(R) /\ Len(paramList) = n + 1 /\ paramList[1].txts
          /\ \A j \in 1 .. n : paramList[j + 1] = P[j]
      BY <1>1, <1>2, <2>2, <3>1, InFront
    <3>3. i \in 1 .. n + 1
      BY <3>2
    <3>4. CASE i = 1
      BY <3>2, <3>4
    <3>5. CASE i # 1
      <4>1. i - 1 \in 1 .. n /\ (i - 1) + 1 = i
        BY <1>1, <3>3, <3>5
      <4>2. paramList[i] = P[i - 1]
        BY <3>2, <4>1
      <4>3. n - (i - 1) + 1 \in 1 .. n
        BY <1>4, <4>1
      <4> QED BY <1>4, <4>1, <4>2, <4>3
    <3> QED BY <3>4, <3>5
  <2> QED BY <1>3, <2>1, <2>2
<1>6. DOMAIN paramList = DOMAIN query.markers
  <2> HIDE DEF P, N, R
  <2>1. \E T : paramList \in Seq(T)
    <3>1. N \in Seq(R)
      <4>1. [expr |-> 0, txts |-> TRUE] \in R
        BY DEF R
      <4>2. <<>> \in Seq(R) /\ <<[expr |-> 0, txts |-> TRUE]>> \in Seq(R)
        BY <4>1
      <4> QED BY <1>3, <4>2
    <3> QED BY <1>1, <1>2, <3>1, ConcatProperties
  <2> QED BY <1>1, <2>1
<1> QED BY <1>1, <1>5, <1>6 DEF setSelectParameters

\* A row that is handed out moves from one list to the other.
LEMMA RowMoves ==
  ASSUME NEW T, NEW s \in Seq(T), NEW t \in Seq(T), t # <<>>
  PROVE  /\ Append(s, Head(t)) \in Seq(T) /\ Tail(t) \in Seq(T) /\ Head(t) \in T
         /\ Append(s, Head(t)) \o Tail(t) = s \o t
<1>1. Head(t) \in T /\ Tail(t) \in Seq(T) /\ Append(s, Head(t)) \in Seq(T)
  BY HeadTailProperties
<1>2. t = <<Head(t)>> \o Tail(t) /\ <<Head(t)>> \in Seq(T)
  BY <1>1
<1>3. Append(s, Head(t)) = s \o <<Head(t)>>
  BY <1>1
<1>4. (s \o <<Head(t)>>) \o Tail(t) = s \o (<<Head(t)>> \o Tail(t))
  BY <1>1, <1>2, ConcatAssociative
<1> QED BY <1>1, <1>2, <1>3, <1>4

\* Fetching the next of the rows that are to come.
LEMMA FetchRows ==
  ASSUME RowsInv, Scanning, ~atEnd, NEW rows \in Seq(AnyRow), Fetch(rows),
         Len(query.markers) <= 1 => fetched \o rows = Answer(query, Wanted)
  PROVE  RowsInv'
<1>1. UNCHANGED <<scan, query, paramList, current>> /\ fetched \in Seq(AnyRow) /\ ScanState
  BY DEF Fetch, RowsInv
<1>2. ScanState' /\ Wanted' = Wanted /\ scan' = "run" /\ Scanning'
  BY <1>1 DEF ScanState, Wanted, Scanning
<1>3. CASE rows = <<>>
  <2>1. ~stmtOpen' /\ cursor' = <<>> /\ atEnd' /\ fetched' = fetched
    BY <1>3 DEF Fetch
  <2>2. fetched \o rows = fetched
    BY <1>1, <1>3, ConcatEmptySeq
  <2> QED BY <1>1, <1>2, <2>1, <2>2 DEF RowsInv
<1>4. CASE rows # <<>>
  <2>1. /\ stmtOpen' /\ cursor' = Tail(rows) /\ atEnd' = atEnd
        /\ fetched' = Append(fetched, Head(rows))
    BY <1>4 DEF Fetch
  <2>2. fetched' \in Seq(AnyRow) /\ cursor' \in Seq(AnyRow) /\ fetched' \o cursor' = fetched \o rows
    BY <1>1, <1>4, <2>1, RowMoves
  <2> QED BY <1>1, <1>2, <2>1, <2>2 DEF RowsInv
<1> QED BY <1>3, <1>4

LEMMA RowsNext ==
  ASSUME RowsInv, ScanNext
  PROVE  RowsInv'
<1>1. CASE db2BeginForeignScan
  <2>1. ScanState' /\ scan' = "run" /\ UNCHANGED <<stmtOpen, cursor, fetched, atEnd>>
    BY <1>1 DEF db2BeginForeignScan, ScanState
  <2> QED BY <1>1, <2>1 DEF db2BeginForeignScan, RowsInv, Scanning
<1>2. CASE db2IterateForeignScan
  <2>1. Scanning /\ ~atEnd /\ ScanState /\ fetched \in Seq(AnyRow) /\ cursor \in Seq(AnyRow)
    BY <1>2 DEF db2IterateForeignScan, RowsInv
  <2>2. CASE stmtOpen /\ Fetch(cursor)
    BY <2>1, <2>2, FetchRows DEF RowsInv
  <2>3. CASE ~stmtOpen /\ Len(paramList) = Len(query.markers) /\ Fetch(Answer(query, setSelectParameters))
    <3>1. setSelectParameters \in [DOMAIN query.markers -> Values \cup {Now}] /\ query \in Queries
      BY <2>1, <2>3, ValuesOfParams DEF ScanState
    <3>2. Answer(query, setSelectParameters) \in Seq(AnyRow)
      BY <3>1, AnswerRows
    <3>3. Len(query.markers) <= 1 => fetched \o Answer(query, setSelectParameters) = Answer(query, Wanted)
      BY <2>1, <2>3, <3>2, OneMarker, ConcatEmptySeq DEF RowsInv
    <3> QED BY <2>1, <2>3, <3>2, <3>3, FetchRows
  <2> QED BY <1>2, <2>2, <2>3 DEF db2IterateForeignScan
<1>3. CASE IterateFails
  BY <1>3 DEF IterateFails, ScanError, RowsInv, Scanning
<1>4. CASE db2ReScanForeignScan
  <2>1. ScanState' /\ ~stmtOpen' /\ cursor' = <<>> /\ fetched' = <<>> /\ ~atEnd' /\ scan' = scan /\ scan = "run"
    BY <1>4 DEF db2ReScanForeignScan, ScanState, RowsInv, Scanning
  <2> QED BY <2>1 DEF RowsInv, Scanning
<1>5. CASE db2EndForeignScan
  BY <1>5 DEF db2EndForeignScan, RowsInv, Scanning
<1> QED BY <1>1, <1>2, <1>3, <1>4, <1>5 DEF ScanNext

\* What was handed out is a prefix.
LEMMA RowsInvRows ==
  ASSUME RowsInv
  PROVE  RowsOfOneRun
<1> SUFFICES ASSUME Scanning, Len(query.markers) <= 1
             PROVE  /\ IsPrefix(fetched, Answer(query, Wanted))
                    /\ atEnd => fetched = Answer(query, Wanted)
  BY DEF RowsOfOneRun
<1> DEFINE A == Answer(query, Wanted)
<1>1. fetched \in Seq(AnyRow) /\ cursor \in Seq(AnyRow) /\ A \in Seq(AnyRow)
  BY ValuesOfMarkers, AnswerRows DEF RowsInv, ScanState
<1>2. (atEnd => fetched = A) /\ \E rest \in Seq(AnyRow) : fetched = <<>> \/ fetched \o rest = A
  <2>1. /\ stmtOpen => fetched \o cursor = A
        /\ atEnd => fetched = A
        /\ ~stmtOpen /\ ~atEnd => fetched = <<>>
    BY DEF RowsInv
  <2> HIDE DEF A
  <2>2. <<>> \in Seq(AnyRow) /\ fetched \o <<>> = fetched
    BY <1>1, ConcatEmptySeq
  <2> QED BY <1>1, <2>1, <2>2
<1> HIDE DEF A
<1>3. Len(fetched) <= Len(A) /\ \A i \in 1 .. Len(fetched) : fetched[i] = A[i]
  <2>1. PICK rest \in Seq(AnyRow) : fetched = <<>> \/ fetched \o rest = A
    BY <1>2
  <2>2. CASE fetched = <<>>
    BY <1>1, <2>2
  <2>3. CASE fetched \o rest = A
    BY <1>1, <2>1, <2>3, ConcatProperties
  <2> QED BY <2>1, <2>2, <2>3
<1>4. IsPrefix(fetched, A)
  BY <1>1, <1>3 DEF IsPrefix
<1> QED BY <1>2, <1>4 DEF A

----------------------------------------------------------------------------
(* Scans: the slot.                                                        *)

\* Each of its values has a length or is NULL.
RowOk(q, row) ==
  \A i \in DOMAIN q.results : LET v == row[q.results[i].resnum] IN v = Null \/ v.len \in Nat

\* The slot is made from the row that was fetched last.
SlotInv ==
  /\ IF scan = "idle" THEN slot = <<>> ELSE query \in Queries
  /\ \A k \in DOMAIN cursor : RowOk(query, cursor[k])
  /\ slot # <<>> =>
       /\ fetched # <<>> /\ RowOk(query, Last(fetched))
       /\ slot = convertTuple(Last(fetched))

\* The buffer has room for every value of the size DB2 has described.
LEMMA BufferHolds ==
  ASSUME NEW res \in ResultColumn, res.decfloat => res.colSize \in {16, 34},
         NEW v, v # Null, v.len \in Nat, Fits(res, v)
  PROVE  v.len < BufferSize(res)
<1>1. /\ res.exact \in BOOLEAN /\ res.decfloat \in BOOLEAN
      /\ res.val_size \in Nat /\ res.colSize \in Nat /\ res.colScale \in Int
  BY DEF ResultColumn
<1>2. CASE ~res.exact
  BY <1>1, <1>2 DEF Fits, BufferSize
<1>3. CASE res.exact
  <2> DEFINE point == IF res.colScale > 0 THEN 1 ELSE 0
             digits == (IF res.colSize > 0 THEN res.colSize ELSE 32) + 2 + point
             needed == IF res.decfloat /\ digits < 64 THEN 64 ELSE digits
  <2>1. v.len <= res.colSize + 1 + point + (IF res.decfloat THEN 7 ELSE 0)
    BY <1>3 DEF Fits
  <2>2. BufferSize(res) = IF res.val_size < needed THEN needed ELSE res.val_size
    BY <1>3 DEF BufferSize
  <2>3. point \in {0, 1}
    OBVIOUS
  <2> HIDE DEF point
  <2>4. digits \in Nat /\ digits > res.colSize + 1 + point
    BY <1>1, <2>3
  <2>5. CASE res.decfloat
    <3>1. res.colSize + 8 + point < 64
      BY <2>3, <2>5
    <3>2. v.len < 64
      BY <1>1, <2>1, <2>3, <2>5, <3>1
    <3> HIDE DEF digits
    <3> QED BY <1>1, <2>2, <2>4, <2>5, <3>2
  <2>6. CASE ~res.decfloat
    <3>1. v.len < digits
      BY <1>1, <2>1, <2>3, <2>4, <2>6
    <3> HIDE DEF digits
    <3> QED BY <1>1, <2>2, <2>4, <2>6, <3>1
  <2> QED BY <1>1, <2>5, <2>6
<1> QED BY <1>1, <1>2, <1>3

LEMMA SlotInvSlot ==
  ASSUME SlotInv
  PROVE  SlotIsRow
<1> DEFINE row == Last(fetched)
           here(j) == {i \in DOMAIN query.results : query.results[i].resnum = j}
<1> SUFFICES ASSUME slot # <<>>, NEW j \in DOMAIN slot
             PROVE  IF here(j) = {} THEN slot[j] = Null
                    ELSE \A i \in here(j) : Fits(query.results[i], row[j]) => slot[j] = row[j]
  BY DEF SlotIsRow
<1>1. /\ RowOk(query, row) /\ query \in Queries
      /\ slot = [k \in 1 .. query.natts |-> IF here(k) = {} THEN Null
                                           ELSE FetchedValue(query.results[Max(here(k))], row)]
  BY DEF SlotInv, convertTuple
<1>2. slot[j] = IF here(j) = {} THEN Null ELSE FetchedValue(query.results[Max(here(j))], row)
  BY <1>1
<1>3. /\ query.results \in Seq(ResultColumn)
      /\ \A i, k \in DOMAIN query.results : query.results[i].resnum = query.results[k].resnum => i = k
      /\ \A i \in DOMAIN query.results : query.results[i].decfloat => query.results[i].colSize \in {16, 34}
  BY <1>1, QueriesAssumption
<1>4. ASSUME NEW i \in here(j), Fits(query.results[i], row[j]) PROVE slot[j] = row[j]
  <2>1. i \in DOMAIN query.results /\ query.results[i].resnum = j /\ i \in Nat
    BY <1>3
  <2>2. here(j) = {i}
    BY <1>3, <2>1
  <2>3. Max({i}) = i
    BY <2>1 DEF Max
  <2>4. slot[j] = FetchedValue(query.results[i], row)
    BY <1>2, <2>2, <2>3
  <2>5. query.results[i] \in ResultColumn
    BY <1>3, <2>1
  <2>6. row[j] = Null \/ row[j].len \in Nat
    BY <1>1, <2>1 DEF RowOk
  <2>7. row[j] = Null \/ row[j].len < BufferSize(query.results[i])
    BY <1>3, <1>4, <2>1, <2>5, <2>6, BufferHolds
  <2> QED BY <2>1, <2>4, <2>7 DEF FetchedValue, GetData, Bound
<1> QED BY <1>2, <1>4

\* Fetching the next of the rows that are to come.
LEMMA FetchSlot ==
  ASSUME SlotInv, Scanning, query \in Queries, fetched \in Seq(AnyRow), NEW rows \in Seq(AnyRow), Fetch(rows),
         \A k \in DOMAIN rows : RowOk(query, rows[k])
  PROVE  SlotInv'
<1>1. UNCHANGED <<scan, query>> /\ scan # "idle"
  BY DEF Fetch, Scanning
<1>2. CASE rows = <<>>
  BY <1>1, <1>2 DEF Fetch, SlotInv, RowOk
<1>3. CASE rows # <<>>
  <2>1. /\ cursor' = Tail(rows) /\ fetched' = Append(fetched, Head(rows)) /\ slot' = convertTuple(Head(rows))
    BY <1>3 DEF Fetch
  <2>2. /\ Head(rows) = rows[1] /\ 1 \in DOMAIN rows
        /\ \A k \in DOMAIN Tail(rows) : Tail(rows)[k] = rows[k + 1] /\ k + 1 \in DOMAIN rows
    BY <1>3
  <2>3. \A k \in DOMAIN cursor' : RowOk(query, cursor'[k])
    BY <2>1, <2>2
  <2>4. Head(rows) \in AnyRow
    BY <1>3
  <2>5. fetched' # <<>> /\ Last(fetched') = Head(rows)
    BY <2>1, <2>4 DEF Last
  <2>6. convertTuple(Last(fetched))' = convertTuple(Head(rows))
    BY <1>1, <2>5 DEF convertTuple
  <2>7. RowOk(query, Head(rows))
    BY <2>2
  <2> QED BY <1>1, <2>1, <2>3, <2>5, <2>6, <2>7 DEF SlotInv, RowOk
<1> QED BY <1>2, <1>3

LEMMA SlotNext ==
  ASSUME RowsInv, SlotInv, ScanNext
  PROVE  SlotInv'
<1>1. CASE db2BeginForeignScan
  <2>1. slot' = <<>> /\ cursor' = <<>> /\ query' \in Queries
    BY <1>1 DEF db2BeginForeignScan, RowsInv, SlotInv
  <2> QED BY <1>1, <2>1 DEF db2BeginForeignScan, SlotInv
<1>2. CASE db2IterateForeignScan
  <2>1. /\ Scanning /\ ScanState /\ query \in Queries
        /\ fetched \in Seq(AnyRow) /\ cursor \in Seq(AnyRow)
    BY <1>2 DEF db2IterateForeignScan, RowsInv, ScanState
  <2>2. CASE stmtOpen /\ Fetch(cursor)
    BY <2>1, <2>2, FetchSlot DEF SlotInv
  <2>3. CASE ~stmtOpen /\ Len(paramList) = Len(query.markers) /\ Fetch(Answer(query, setSelectParameters))
    <3>1. setSelectParameters \in [DOMAIN query.markers -> Values \cup {Now}]
      BY <2>1, <2>3, ValuesOfParams
    <3>2. Answer(query, setSelectParameters) \in Seq(AnyRow)
      BY <2>1, <3>1, AnswerRows
    <3>3. \A k \in DOMAIN Answer(query, setSelectParameters) : RowOk(query, Answer(query, setSelectParameters)[k])
      BY <2>1, <3>1, AnswerAssumption DEF RowOk
    <3> QED BY <2>1, <2>3, <3>2, <3>3, FetchSlot
  <2> QED BY <1>2, <2>2, <2>3 DEF db2IterateForeignScan
<1>3. CASE IterateFails
  BY <1>3 DEF IterateFails, ScanError, SlotInv, Scanning, RowOk, convertTuple, FetchedValue
<1>4. CASE db2ReScanForeignScan
  BY <1>4 DEF db2ReScanForeignScan, SlotInv, Scanning
<1>5. CASE db2EndForeignScan
  <2>1. scan = "run" /\ scan' = "ended" /\ cursor' = <<>> /\ UNCHANGED <<query, fetched, slot>>
    BY <1>5 DEF db2EndForeignScan, Scanning
  <2>2. convertTuple(Last(fetched))' = convertTuple(Last(fetched))
    BY <2>1 DEF convertTuple
  <2>3. RowOk(query, Last(fetched))' = RowOk(query, Last(fetched))
    BY <2>1 DEF RowOk
  <2> QED BY <2>1, <2>2, <2>3 DEF SlotInv
<1> QED BY <1>1, <1>2, <1>3, <1>4, <1>5 DEF ScanNext

----------------------------------------------------------------------------
(* Modifications: the columns of a statement.                              *)

LEMMA ColsOfTable ==
  ASSUME NEW s \in Statements
  PROVE  /\ Cols(s) \in Seq([name : STRING, attnum : Nat, key : BOOLEAN])
         /\ Len(Cols(s)) \in Nat /\ DOMAIN Cols(s) = 1 .. Len(Cols(s))
         /\ \A i, j \in DOMAIN Cols(s) : Cols(s)[i].name = Cols(s)[j].name => i = j
         /\ \A i, j \in DOMAIN Cols(s) : Cols(s)[i].attnum = Cols(s)[j].attnum /\ Cols(s)[i].attnum # 0 => i = j
         /\ \A i \in DOMAIN Cols(s) : Cols(s)[i].attnum \in Nat /\ Cols(s)[i].key \in BOOLEAN
         /\ s.table \in DOMAIN Table /\ s.op \in {"INSERT", "COPY", "UPDATE", "DELETE", "DIRECT"}
<1>1. s.table \in DOMAIN Table /\ s.op \in {"INSERT", "COPY", "UPDATE", "DELETE", "DIRECT"}
  BY StatementsAssumption
<1>2. Cols(s) \in Seq([name : STRING, attnum : Nat, key : BOOLEAN])
  BY <1>1, TableAssumption DEF Cols
<1>3. ASSUME NEW i \in DOMAIN Cols(s) PROVE Cols(s)[i].attnum \in Nat /\ Cols(s)[i].key \in BOOLEAN
  <2> DEFINE R == [name : STRING, attnum : Nat, key : BOOLEAN]
  <2>1. \A col \in R : col.attnum \in Nat /\ col.key \in BOOLEAN
    OBVIOUS
  <2> HIDE DEF R
  <2>2. Cols(s) \in Seq(R)
    BY <1>2 DEF R
  <2>3. Cols(s)[i] \in R
    BY <2>2
  <2> QED BY <2>1, <2>3
<1>4. Len(Cols(s)) \in Nat /\ DOMAIN Cols(s) = 1 .. Len(Cols(s))
  BY <1>2
<1>5. /\ \A i, j \in DOMAIN Cols(s) : Cols(s)[i].name = Cols(s)[j].name => i = j
      /\ \A i, j \in DOMAIN Cols(s) : Cols(s)[i].attnum = Cols(s)[j].attnum /\ Cols(s)[i].attnum # 0 => i = j
  BY <1>1, TableAssumption DEF Cols
<1> QED BY <1>1, <1>2, <1>3, <1>4, <1>5

\* Some of the columns, in their order.
LEMMA ColumnList ==
  ASSUME NEW s \in Statements, NEW S \in SUBSET DOMAIN Cols(s)
  PROVE  /\ Ascending(S) \in Seq(DOMAIN Cols(s)) /\ Cardinality(S) \in Nat
         /\ Len(Ascending(S)) = Cardinality(S) /\ DOMAIN Ascending(S) = 1 .. Cardinality(S)
         /\ \A k \in 1 .. Cardinality(S) : Ascending(S)[k] \in S
         /\ \A i, j \in 1 .. Cardinality(S) : i < j => Ascending(S)[i] < Ascending(S)[j]
         /\ \A x \in S : \E k \in 1 .. Cardinality(S) : Ascending(S)[k] = x
<1>1. PICK n \in Nat : DOMAIN Cols(s) = 1 .. n
  BY ColsOfTable
<1>2. IsFiniteSet(1 .. n)
  <2>1. 1 \in Int /\ n \in Int
    OBVIOUS
  <2> QED BY ONLY <2>1, FS_Interval
<1>3. S \in SUBSET Nat /\ IsFiniteSet(S)
  BY <1>1, <1>2, FS_Subset
<1>4. /\ Ascending(S) \in Seq(S) /\ Cardinality(S) \in Nat
      /\ Len(Ascending(S)) = Cardinality(S) /\ DOMAIN Ascending(S) = 1 .. Cardinality(S)
      /\ \A i, j \in 1 .. Cardinality(S) : i < j => Ascending(S)[i] < Ascending(S)[j]
      /\ \A x \in S : \E k \in 1 .. Cardinality(S) : Ascending(S)[k] = x
  BY <1>3, AscendingList
<1>5. Ascending(S) \in Seq(DOMAIN Cols(s))
  BY <1>4, SeqMonotonic
<1>6. \A k \in 1 .. Cardinality(S) : Ascending(S)[k] \in S
  BY <1>4
<1> QED BY <1>4, <1>5, <1>6

\* A column that is found is a column.
LEMMA FindColumnType ==
  ASSUME NEW s \in Statements, NEW found \in Seq(DOMAIN Cols(s)), NEW attno \in Nat
  PROVE  FindColumn(s, found, attno) \in Seq(DOMAIN Cols(s))
<1> DEFINE next == NextColumn(s, IF found = <<>> THEN 1 ELSE Last(found), attno)
<1>1. next \in SUBSET DOMAIN Cols(s) /\ next \in SUBSET Nat
  BY ColsOfTable DEF NextColumn
<1>2. FindColumn(s, found, attno) = IF next = {} THEN found ELSE Append(found, Min(next))
  BY DEF FindColumn
<1> HIDE DEF next
<1>3. next # {} => Min(next) \in DOMAIN Cols(s)
  BY <1>1, MinOfNumbers
<1>4. next # {} => Append(found, Min(next)) \in Seq(DOMAIN Cols(s))
  BY <1>3
<1> QED BY <1>2, <1>4

\* The columns found for the first k attributes: the provers have no induction
\* over data, so that there is a function by way of a smallest counterexample.
LEMMA FoundExists ==
  ASSUME NEW s \in Statements, NEW attnos \in Seq(Nat)
  PROVE  \E g \in [0 .. Len(attnos) -> Seq(DOMAIN Cols(s))] :
           g = [k \in 0 .. Len(attnos) |-> IF k = 0 THEN <<>> ELSE FindColumn(s, g[k - 1], attnos[k])]
<1> DEFINE n == Len(attnos)
           C == Seq(DOMAIN Cols(s))
           Upto(g, m) == /\ g[0] = <<>>
                         /\ \A k \in 1 .. m : g[k] = FindColumn(s, g[k - 1], attnos[k])
           T == {m \in 0 .. n : ~(\E g \in [0 .. m -> C] : Upto(g, m))}
<1>1. n \in Nat
  OBVIOUS
<1>2. T = {}
  <2> SUFFICES ASSUME T # {} PROVE FALSE
    OBVIOUS
  <2>1. T \in SUBSET Nat
    OBVIOUS
  <2>2. PICK m \in T : \A k \in T : m <= k
    BY <2>1, LeastNumber
  <2>3. m \in 0 .. n /\ m \in Nat /\ ~(\E g \in [0 .. m -> C] : Upto(g, m))
    <3> HIDE DEF C, Upto
    <3> QED BY <2>1
  <2>4. CASE m = 0
    <3> DEFINE g == [k \in 0 .. m |-> <<>>]
    <3>1. g \in [0 .. m -> C]
      OBVIOUS
    <3>2. Upto(g, m)
      BY <2>4
    <3> QED BY <2>3, <3>1, <3>2
  <2>5. CASE m # 0
    <3>1. m - 1 \in 0 .. n /\ m - 1 \notin T /\ m \in 1 .. n
      <4>1. m - 1 \in 0 .. n /\ m \in 1 .. n /\ ~(m <= m - 1)
        BY <1>1, <2>3, <2>5
      <4> HIDE DEF T
      <4> QED BY <2>2, <4>1
    <3>2. PICK h \in [0 .. (m - 1) -> C] : Upto(h, m - 1)
      BY <3>1
    <3> DEFINE g == [k \in 0 .. m |-> IF k = m THEN FindColumn(s, h[m - 1], attnos[m]) ELSE h[k]]
    <3>3. FindColumn(s, h[m - 1], attnos[m]) \in C
      <4>1. h[m - 1] \in C
        BY <3>1, <3>2
      <4>2. attnos[m] \in Nat
        BY <1>1, <3>1, ElementOfSeq
      <4> QED BY <4>1, <4>2, FindColumnType
    <3>4. \A k \in 0 .. m : k = m \/ k \in 0 .. (m - 1)
      BY <2>3
    <3>5. g \in [0 .. m -> C]
      <4> HIDE DEF C
      <4> QED BY <3>2, <3>3, <3>4
    <3>6. g[0] = <<>> /\ \A k \in 0 .. (m - 1) : g[k] = h[k]
      BY <2>3, <2>5, <3>2
    <3>7. ASSUME NEW k \in 1 .. m PROVE g[k] = FindColumn(s, g[k - 1], attnos[k])
      <4>1. k - 1 \in 0 .. (m - 1) /\ g[k - 1] = h[k - 1]
        BY <2>3, <3>6
      <4>2. CASE k = m
        BY <2>3, <4>1, <4>2
      <4>3. CASE k # m
        <5>1. k \in 1 .. (m - 1) /\ k \in 0 .. (m - 1)
          BY <2>3, <4>3
        <5>2. h[k] = FindColumn(s, h[k - 1], attnos[k])
          BY <3>2, <5>1
        <5> HIDE DEF g
        <5> QED BY <3>6, <4>1, <5>1, <5>2
      <4> QED BY <4>2, <4>3
    <3> HIDE DEF g, C
    <3> QED BY <2>3, <3>5, <3>6, <3>7
  <2> QED BY <2>4, <2>5
<1>3. PICK g \in [0 .. n -> C] : Upto(g, n)
  <2>1. n \in 0 .. n /\ n \notin T
    <3> HIDE DEF T
    <3> QED BY <1>1, <1>2
  <2> HIDE DEF C, Upto
  <2> QED BY <2>1
<1>4. \A k \in 0 .. n : k = 0 \/ k \in 1 .. n
  BY <1>1
<1>5. \A k \in 0 .. n : g[k] = IF k = 0 THEN <<>> ELSE FindColumn(s, g[k - 1], attnos[k])
  BY <1>3, <1>4
<1>6. g = [k \in 0 .. n |-> IF k = 0 THEN <<>> ELSE FindColumn(s, g[k - 1], attnos[k])]
  <2> HIDE DEF C
  <2> QED BY <1>3, <1>5
<1> QED BY <1>3, <1>6

\* Two such functions are the same, for there is no first difference.
LEMMA FoundUnique ==
  ASSUME NEW s \in Statements, NEW n \in Nat, NEW attnos
  PROVE  \A g, h : /\ g = [k \in 0 .. n |-> IF k = 0 THEN <<>> ELSE FindColumn(s, g[k - 1], attnos[k])]
                   /\ h = [k \in 0 .. n |-> IF k = 0 THEN <<>> ELSE FindColumn(s, h[k - 1], attnos[k])]
                   => g = h
<1> SUFFICES ASSUME NEW g, NEW h,
                    g = [k \in 0 .. n |-> IF k = 0 THEN <<>> ELSE FindColumn(s, g[k - 1], attnos[k])],
                    h = [k \in 0 .. n |-> IF k = 0 THEN <<>> ELSE FindColumn(s, h[k - 1], attnos[k])]
             PROVE  g = h
  OBVIOUS
<1>1. /\ \A k \in 0 .. n : g[k] = IF k = 0 THEN <<>> ELSE FindColumn(s, g[k - 1], attnos[k])
      /\ \A k \in 0 .. n : h[k] = IF k = 0 THEN <<>> ELSE FindColumn(s, h[k - 1], attnos[k])
      /\ g = [k \in 0 .. n |-> g[k]] /\ h = [k \in 0 .. n |-> h[k]]
  OBVIOUS
<1> DEFINE T == {k \in 0 .. n : g[k] # h[k]}
<1>2. T = {}
  <2> SUFFICES ASSUME T # {} PROVE FALSE
    OBVIOUS
  <2>1. T \in SUBSET Nat
    OBVIOUS
  <2>2. PICK m \in T : \A k \in T : m <= k
    BY <2>1, LeastNumber
  <2>3. m \in 0 .. n /\ g[m] # h[m] /\ m \in Nat
    OBVIOUS
  <2>4. m # 0
    BY <1>1, <2>3
  <2>5. m - 1 \in 0 .. n /\ m - 1 \notin T
    BY <2>2, <2>3, <2>4
  <2> QED BY <1>1, <2>3, <2>4, <2>5
<1> QED BY <1>1, <1>2

LEMMA SetColumnsFound ==
  ASSUME NEW s \in Statements
  PROVE  \E g \in [0 .. Len(Ascending(s.set)) -> Seq(DOMAIN Cols(s))] :
           /\ g = [k \in 0 .. Len(Ascending(s.set)) |->
                     IF k = 0 THEN <<>> ELSE FindColumn(s, g[k - 1], Ascending(s.set)[k])]
           /\ SetColumns(s) = g[Len(Ascending(s.set))]
<1> DEFINE a == Ascending(s.set)
           f == CHOOSE f : f = [k \in 0 .. Len(a) |-> IF k = 0 THEN <<>> ELSE FindColumn(s, f[k - 1], a[k])]
<1>1. a \in Seq(Nat) /\ Len(a) \in Nat
  <2>1. s.set \in SUBSET Nat /\ IsFiniteSet(s.set)
    BY StatementsAssumption
  <2>2. a \in Seq(s.set)
    BY <2>1, AscendingList
  <2> QED BY <2>1, <2>2, SeqMonotonic
<1>2. SetColumns(s) = f[Len(a)]
  BY DEF SetColumns
<1> HIDE DEF a
<1>3. PICK g \in [0 .. Len(a) -> Seq(DOMAIN Cols(s))] :
        g = [k \in 0 .. Len(a) |-> IF k = 0 THEN <<>> ELSE FindColumn(s, g[k - 1], a[k])]
  BY <1>1, FoundExists
<1>4. f = [k \in 0 .. Len(a) |-> IF k = 0 THEN <<>> ELSE FindColumn(s, f[k - 1], a[k])]
  BY <1>3
<1> HIDE DEF f
<1>5. f = g
  <2>1. PICK n \in Nat : n = Len(a)
    BY <1>1
  <2>2. /\ f = [k \in 0 .. n |-> IF k = 0 THEN <<>> ELSE FindColumn(s, f[k - 1], a[k])]
        /\ g = [k \in 0 .. n |-> IF k = 0 THEN <<>> ELSE FindColumn(s, g[k - 1], a[k])]
    BY <1>3, <1>4, <2>1
  <2>3. \A g1, h1 : /\ g1 = [k \in 0 .. n |-> IF k = 0 THEN <<>> ELSE FindColumn(s, g1[k - 1], a[k])]
                    /\ h1 = [k \in 0 .. n |-> IF k = 0 THEN <<>> ELSE FindColumn(s, h1[k - 1], a[k])]
                    => g1 = h1
    BY FoundUnique
  <2> QED BY <2>2, <2>3
<1> QED BY <1>2, <1>3, <1>5 DEF a

LEMMA ReverseOfSeq ==
  ASSUME NEW T, NEW s \in Seq(T)
  PROVE  /\ Reverse(s) \in Seq(T) /\ Len(Reverse(s)) = Len(s) /\ DOMAIN Reverse(s) = DOMAIN s
         /\ \A i \in 1 .. Len(s) : Reverse(s)[i] = s[Len(s) - i + 1]
         /\ Reverse(Reverse(s)) = s
<1>1. Len(s) \in Nat /\ DOMAIN s = 1 .. Len(s)
  OBVIOUS
<1>2. \A i \in 1 .. Len(s) : Len(s) - i + 1 \in 1 .. Len(s)
  BY <1>1
<1>3. Reverse(s) = [i \in 1 .. Len(s) |-> s[(Len(s) - i) + 1]]
  BY DEF Reverse
<1>4. /\ Reverse(s) \in Seq(T) /\ Len(Reverse(s)) = Len(s) /\ DOMAIN Reverse(s) = DOMAIN s
      /\ \A i \in 1 .. Len(s) : Reverse(s)[i] = s[Len(s) - i + 1]
  BY <1>1, <1>2, <1>3
<1>5. Reverse(Reverse(s)) = [i \in 1 .. Len(s) |-> Reverse(s)[(Len(s) - i) + 1]]
  BY <1>4 DEF Reverse
<1>6. \A i \in 1 .. Len(s) : Reverse(s)[(Len(s) - i) + 1] = s[i]
  <2> SUFFICES ASSUME NEW i \in 1 .. Len(s) PROVE Reverse(s)[(Len(s) - i) + 1] = s[i]
    OBVIOUS
  <2>1. Reverse(s)[(Len(s) - i) + 1] = s[Len(s) - ((Len(s) - i) + 1) + 1]
    BY <1>2, <1>4
  <2>2. Len(s) - ((Len(s) - i) + 1) + 1 = i
    BY <1>1
  <2> QED BY <2>1, <2>2
<1>7. Reverse(Reverse(s)) = [i \in 1 .. Len(s) |-> s[i]]
  BY <1>5, <1>6
<1> QED BY <1>1, <1>4, <1>7

\* The columns of the "?"s are columns of the table.
LEMMA MarkersAreColumns ==
  ASSUME NEW s \in Statements
  PROVE  /\ InTable(s) \in Seq(DOMAIN Cols(s)) /\ Keys(s) \in Seq(DOMAIN Cols(s))
         /\ Sql(s).columns \in Seq(DOMAIN Cols(s)) /\ Sql(s).keys \in Seq(DOMAIN Cols(s))
         /\ Markers(Sql(s)) \in Seq(DOMAIN Cols(s))
         /\ Len(Markers(Sql(s))) = Len(Sql(s).columns) + Len(Sql(s).keys)
<1>1. InTable(s) \in Seq(DOMAIN Cols(s)) /\ Keys(s) \in Seq(DOMAIN Cols(s))
  BY ColumnList DEF InTable, Keys, Having
<1>2. SetColumns(s) \in Seq(DOMAIN Cols(s))
  <2>1. Len(Ascending(s.set)) \in 0 .. Len(Ascending(s.set))
    <3>1. s.set \in SUBSET Nat /\ IsFiniteSet(s.set)
      BY StatementsAssumption
    <3>2. Len(Ascending(s.set)) \in Nat
      BY <3>1, AscendingList
    <3> QED BY <3>2
  <2> QED BY <2>1, SetColumnsFound
<1>3. <<>> \in Seq(DOMAIN Cols(s))
  OBVIOUS
<1>4. Sql(s).columns \in Seq(DOMAIN Cols(s)) /\ Sql(s).keys \in Seq(DOMAIN Cols(s))
  BY <1>1, <1>2, <1>3 DEF Sql
<1> HIDE DEF Sql
<1>5. /\ Markers(Sql(s)) \in Seq(DOMAIN Cols(s))
      /\ Len(Markers(Sql(s))) = Len(Sql(s).columns) + Len(Sql(s).keys)
  BY <1>4, ConcatProperties DEF Markers
<1> QED BY <1>1, <1>4, <1>5

\* Whichever way it takes, the list is that of the markers, from the last.
LEMMA ParamListReversed ==
  ASSUME NEW s \in Statements
  PROVE  /\ ParamList(s, Sql(s)) = Reverse(Markers(Sql(s)))
         /\ ParamList(s, Sql(s)) \in Seq(DOMAIN Cols(s))
         /\ DOMAIN ParamList(s, Sql(s)) = DOMAIN Markers(Sql(s))
<1> DEFINE m == Markers(Sql(s))
<1>1. m \in Seq(DOMAIN Cols(s))
  BY MarkersAreColumns
<1> HIDE DEF m
<1>2. Reverse(m) \in Seq(DOMAIN Cols(s)) /\ DOMAIN Reverse(m) = DOMAIN m /\ Reverse(Reverse(m)) = m
  BY <1>1, ReverseOfSeq
<1>3. ParamList(s, Sql(s)) = Reverse(m)
  BY <1>2 DEF ParamList, ParamsBuilt, reverseParamList, deserializePlanData, m
<1> QED BY <1>2, <1>3 DEF m

----------------------------------------------------------------------------
(* Modifications: what a node has.                                         *)

\* Once a node has begun, its text and its parameters are those of its statement.
PlansInv ==
  /\ DOMAIN state = Node /\ DOMAIN stmt = Node /\ DOMAIN sql = Node /\ DOMAIN params = Node /\ DOMAIN chosen = Node
  /\ \A n \in Node :
       Begun(n) => /\ stmt[n] \in Statements
                   /\ stmt[n].op # "DIRECT" => sql[n] = Sql(stmt[n]) /\ params[n] = ParamList(stmt[n], sql[n])

\* A node that begins.
LEMMA PlansBegin ==
  ASSUME PlansInv, NEW n \in Node, NEW s \in Statements, NEW q, NEW list,
         state' = [state EXCEPT ![n] = "run"], stmt' = [stmt EXCEPT ![n] = s],
         sql' = [sql EXCEPT ![n] = q], params' = [params EXCEPT ![n] = list], DOMAIN chosen' = Node,
         s.op # "DIRECT" => q = Sql(s) /\ list = ParamList(s, Sql(s))
  PROVE  PlansInv'
<1>1. ASSUME NEW m \in Node, Begun(m)'
      PROVE  /\ stmt'[m] \in Statements
             /\ stmt'[m].op # "DIRECT" => sql'[m] = Sql(stmt'[m]) /\ params'[m] = ParamList(stmt'[m], sql'[m])
  <2>1. CASE m = n
    BY <2>1 DEF PlansInv
  <2>2. CASE m # n
    BY <1>1, <2>2 DEF PlansInv, Begun
  <2> QED BY <2>1, <2>2
<1>2. DOMAIN state' = Node /\ DOMAIN stmt' = Node /\ DOMAIN sql' = Node /\ DOMAIN params' = Node
  BY DEF PlansInv
<1> QED BY <1>1, <1>2 DEF PlansInv

\* A node that goes on: it has begun already.
LEMMA PlansGoOn ==
  ASSUME PlansInv, UNCHANGED <<stmt, sql, params>>, DOMAIN chosen' = Node, DOMAIN state' = Node,
         \A m \in Node : Begun(m)' => Begun(m)
  PROVE  PlansInv'
BY DEF PlansInv, Begun

LEMMA PlansNext ==
  ASSUME PlansInv, ModifyNext
  PROVE  PlansInv'
<1>1. ASSUME NEW n \in Node, db2BeginForeignModify(n) PROVE PlansInv'
  <2>1. PICK s \in Statements :
          /\ s.op # "DIRECT"
          /\ IF PlanFails(s) \/ (s.op # "COPY" /\ Returned(s) # <<>>)
               THEN ModifyFails(n)
               ELSE /\ state' = [state EXCEPT ![n] = "run"]
                    /\ stmt' = [stmt EXCEPT ![n] = s]
                    /\ sql' = [sql EXCEPT ![n] = Sql(s)]
                    /\ params' = [params EXCEPT ![n] = ParamList(s, Sql(s))]
                    /\ chosen' = [chosen EXCEPT ![n] = IF s.op \in {"UPDATE", "DELETE"} THEN remote[s.table] ELSE {}]
    BY <1>1 DEF db2BeginForeignModify
  <2>2. CASE ModifyFails(n)
    BY <2>2 DEF ModifyFails, PlansInv, Begun
  <2>3. CASE ~(PlanFails(s) \/ (s.op # "COPY" /\ Returned(s) # <<>>))
    <3>1. DOMAIN chosen' = Node
      BY <2>1, <2>3 DEF PlansInv
    <3> DEFINE q == Sql(s)
               list == ParamList(s, q)
    <3>2. /\ state' = [state EXCEPT ![n] = "run"] /\ stmt' = [stmt EXCEPT ![n] = s]
          /\ sql' = [sql EXCEPT ![n] = q] /\ params' = [params EXCEPT ![n] = list]
      BY <2>1, <2>3
    <3>3. s.op # "DIRECT" => q = Sql(s) /\ list = ParamList(s, Sql(s))
      OBVIOUS
    <3> HIDE DEF q, list
    <3> QED BY ONLY <3>1, <3>2, <3>3, PlansBegin, PlansInv, n \in Node, s \in Statements
  <2> QED BY <2>1, <2>2, <2>3
<1>2. ASSUME NEW n \in Node, db2ExecForeignInsert(n) \/ db2ExecForeignBatchInsert(n) PROVE PlansInv'
  <2>1. UNCHANGED <<state, stmt, sql, params, chosen>>
    BY <1>2 DEF db2ExecForeignInsert, db2ExecForeignBatchInsert, Executed
  <2> QED BY <2>1 DEF PlansInv, Begun
<1>3. ASSUME NEW n \in Node, db2ExecForeignUpdate(n) \/ db2ExecForeignDelete(n) PROVE PlansInv'
  <2>1. UNCHANGED <<state, stmt, sql, params>> /\ DOMAIN chosen' = DOMAIN chosen
    BY <1>3 DEF db2ExecForeignUpdate, db2ExecForeignDelete, Executed
  <2> QED BY <2>1, PlansGoOn DEF PlansInv, Begun
<1>4. ASSUME NEW n \in Node, db2EndForeignModifyCommon(n) \/ db2EndDirectModify(n) PROVE PlansInv'
  <2>1. /\ UNCHANGED <<stmt, sql, params, chosen>> /\ state' = [state EXCEPT ![n] = "ended"] /\ Begun(n)
    BY <1>4 DEF db2EndForeignModifyCommon, db2EndDirectModify, Alive, Begun
  <2>2. \A m \in Node : Begun(m)' => Begun(m)
    BY <2>1 DEF PlansInv, Begun
  <2> QED BY <2>1, <2>2, PlansGoOn DEF PlansInv
<1>5. ASSUME NEW n \in Node, db2BeginDirectModify(n) PROVE PlansInv'
  <2>1. PICK s \in Statements : s.op = "DIRECT" /\ state' = [state EXCEPT ![n] = "run"] /\ stmt' = [stmt EXCEPT ![n] = s]
    BY <1>5 DEF db2BeginDirectModify
  <2>2. UNCHANGED <<sql, params, chosen>>
    BY <1>5 DEF db2BeginDirectModify
  <2>3. ASSUME NEW m \in Node, Begun(m)'
        PROVE  /\ stmt'[m] \in Statements
               /\ stmt'[m].op # "DIRECT" => sql'[m] = Sql(stmt'[m]) /\ params'[m] = ParamList(stmt'[m], sql'[m])
    BY <2>1, <2>2, <2>3 DEF PlansInv, Begun
  <2> QED BY <2>1, <2>2, <2>3 DEF PlansInv
<1>6. ASSUME NEW n \in Node, db2IterateDirectModify(n) PROVE PlansInv'
  <2>1. CASE stmt[n].params > 0
    BY <1>6, <2>1 DEF db2IterateDirectModify, ModifyFails, PlansInv, Begun
  <2>2. CASE ~(stmt[n].params > 0)
    <3>1. UNCHANGED <<stmt, sql, params, chosen>> /\ state' = [state EXCEPT ![n] = "called"] /\ Begun(n)
      BY <1>6, <2>2 DEF db2IterateDirectModify, CallOf, Begun
    <3>2. \A m \in Node : Begun(m)' => Begun(m)
      BY <3>1 DEF PlansInv, Begun
    <3> QED BY <3>1, <3>2, PlansGoOn DEF PlansInv
  <2> QED BY <2>1, <2>2
<1>7. CASE OtherSession
  BY <1>7 DEF OtherSession, PlansInv, Begun
<1> QED BY <1>1, <1>2, <1>3, <1>4, <1>5, <1>6, <1>7 DEF ModifyNext

----------------------------------------------------------------------------
(* Modifications: the tables in DB2.                                       *)

TablesInv ==
  /\ DOMAIN remote = DOMAIN Table /\ DOMAIN wanted = DOMAIN Table
  /\ \A t \in DOMAIN Table : IsFiniteSet(remote[t])

\* One row gives way to another or to none.
LEMMA OneReplaced ==
  ASSUME NEW s, NEW q, NEW bound, NEW rows, IsFiniteSet(rows), NEW matching \in SUBSET rows,
         Replaced(s, q, bound, rows, matching).ok, Replaced(s, q, bound, rows, matching).count = 1
  PROVE  LET after == Replaced(s, q, bound, rows, matching).rows
         IN  /\ IsFiniteSet(after) /\ Cardinality(rows \ after) <= 1
             /\ Cardinality(after) = Cardinality(rows) - (IF s.op = "DELETE" THEN 1 ELSE 0)
<1> DEFINE new == IF s.op = "DELETE" THEN {} ELSE {Changed(s, q, bound, r) : r \in matching}
           after == Replaced(s, q, bound, rows, matching).rows
<1>1. /\ new \cap (rows \ matching) = {} /\ Cardinality(matching) = 1
      /\ after = (rows \ matching) \cup new
  BY DEF Replaced, Done, Failed
<1>2. PICK x : matching = {x}
  BY <1>1, FS_Subset, FS_Singleton
<1>3. IsFiniteSet(rows \ {x}) /\ Cardinality(rows \ {x}) = Cardinality(rows) - 1 /\ Cardinality(rows) \in Nat
  BY <1>2, FS_RemoveElement, FS_CardinalityType
<1>4. Cardinality(rows \ after) <= 1
  <2>1. IsFiniteSet({x}) /\ Cardinality({x}) = 1
    BY FS_Singleton
  <2>2. rows \ after \in SUBSET {x}
    BY <1>1, <1>2
  <2> HIDE DEF after
  <2> QED BY <2>1, <2>2, FS_Subset
<1>5. CASE s.op = "DELETE"
  <2>1. after = rows \ {x}
    BY <1>1, <1>2, <1>5
  <2> QED BY <1>3, <1>4, <1>5, <2>1
<1>6. CASE s.op # "DELETE"
  <2>1. new = {Changed(s, q, bound, x)}
    BY <1>2, <1>6
  <2> DEFINE y == Changed(s, q, bound, x)
  <2>2. after = (rows \ {x}) \cup {y} /\ y \notin rows \ {x}
    BY <1>1, <1>2, <2>1
  <2> HIDE DEF y, after
  <2>3. IsFiniteSet(after) /\ Cardinality(after) = Cardinality(rows \ {x}) + 1
    BY <1>3, <2>2, FS_AddElement
  <2> QED BY <1>3, <1>4, <1>6, <2>3 DEF after
<1> QED BY <1>5, <1>6

LEMMA ExecutedRows ==
  ASSUME NEW s, NEW q, NEW list, NEW new, NEW old, NEW rows, IsFiniteSet(rows),
         ExecForeign(s, q, list, new, old, rows).ok
  PROVE  LET after == ExecForeign(s, q, list, new, old, rows).rows
         IN  /\ IsFiniteSet(after)
             /\ s.op \in {"UPDATE", "DELETE"} =>
                  /\ Cardinality(rows \ after) <= 1
                  /\ Cardinality(after) = Cardinality(rows) - (IF s.op = "DELETE" THEN 1 ELSE 0)
<1> DEFINE bound == BoundValues(s, list, Positions(s, list), new, old)
           result == Result(s, q, bound, rows)
           after == ExecForeign(s, q, list, new, old, rows).rows
<1>1. result.ok /\ result.count = 1 /\ after = result.rows
  BY DEF ExecForeign, OneRow, Failed
<1> HIDE DEF bound
<1>2. CASE s.op \in {"INSERT", "COPY"}
  <2>1. result = Insertion(s, q, bound, rows)
    BY <1>1, <1>2 DEF Result, Execution, Failed
  <2> DEFINE x == [c \in {Cols(s)[i].name : i \in DOMAIN Cols(s)} |-> Given(s, q, bound, c, NullValue)]
  <2>2. after = rows \cup {x}
    <3>1. Insertion(s, q, bound, rows) = IF x \in rows THEN Failed ELSE Done(s.table, 1, rows \cup {x})
      BY DEF Insertion
    <3> HIDE DEF x, after, result
    <3> QED BY <1>1, <2>1, <3>1 DEF Done, Failed
  <2> HIDE DEF after, x
  <2>3. IsFiniteSet(after)
    BY <2>2, FS_AddElement
  <2> QED BY <1>2, <2>3 DEF after
<1>3. CASE s.op \notin {"INSERT", "COPY"}
  <2> DEFINE matching == {r \in rows : Matches(s, q, bound, r)}
  <2>1. result = Replaced(s, q, bound, rows, matching)
    BY <1>1, <1>3 DEF Result, Execution, Failed
  <2>2. matching \in SUBSET rows
    OBVIOUS
  <2> HIDE DEF matching, result
  <2> QED BY <1>1, <1>3, <2>1, <2>2, OneReplaced
<1> QED BY <1>2, <1>3

\* What a call does to the tables.
LEMMA TablesExecuted ==
  ASSUME TablesInv, NEW n \in Node, stmt[n].table \in DOMAIN Table, NEW result, NEW ask, Executed(n, result, ask),
         result.ok => IsFiniteSet(result.rows)
  PROVE  TablesInv'
<1>1. CASE result.ok
  <2>1. /\ remote' = [remote EXCEPT ![stmt[n].table] = result.rows]
        /\ wanted' = [wanted EXCEPT ![stmt[n].table] = ask]
    BY <1>1 DEF Executed
  <2> QED BY <1>1, <2>1 DEF TablesInv
<1>2. CASE ~result.ok
  BY <1>2 DEF Executed, TablesInv
<1> QED BY <1>1, <1>2

LEMMA TablesNext ==
  ASSUME PlansInv, TablesInv, ModifyNext
  PROVE  TablesInv'
<1>1. ASSUME NEW n \in Node, Begun(n) PROVE stmt[n].table \in DOMAIN Table /\ IsFiniteSet(remote[stmt[n].table])
  BY <1>1, StatementsAssumption DEF PlansInv, TablesInv
<1>2. ASSUME NEW n \in Node, db2BeginForeignModify(n) \/ db2EndForeignModifyCommon(n) \/ db2BeginDirectModify(n) \/ db2EndDirectModify(n)
      PROVE  TablesInv'
  <2>1. UNCHANGED <<remote, wanted>>
    BY <1>2 DEF db2BeginForeignModify, ModifyFails, db2EndForeignModifyCommon, db2BeginDirectModify, db2EndDirectModify
  <2> QED BY <2>1 DEF TablesInv
<1>3. ASSUME NEW n \in Node, db2ExecForeignInsert(n) PROVE TablesInv'
  <2>1. Begun(n)
    BY <1>3 DEF db2ExecForeignInsert, CallOf, Begun
  <2>2. PICK new, ask : Executed(n, ExecForeign(stmt[n], sql[n], params[n], new, <<>>, remote[stmt[n].table]), ask)
    BY <1>3 DEF db2ExecForeignInsert
  <2> QED BY <1>1, <2>1, <2>2, ExecutedRows, TablesExecuted
<1>4. ASSUME NEW n \in Node, db2ExecForeignBatchInsert(n) PROVE TablesInv'
  <2>1. Begun(n)
    BY <1>4 DEF db2ExecForeignBatchInsert, CallOf, Begun
  <2>2. PICK new1, new2, ask :
          LET first == ExecForeign(stmt[n], sql[n], params[n], new1, <<>>, remote[stmt[n].table])
          IN  Executed(n, IF first.ok THEN ExecForeign(stmt[n], sql[n], params[n], new2, <<>>, first.rows) ELSE Failed, ask)
    BY <1>4 DEF db2ExecForeignBatchInsert
  <2> DEFINE first == ExecForeign(stmt[n], sql[n], params[n], new1, <<>>, remote[stmt[n].table])
             second == ExecForeign(stmt[n], sql[n], params[n], new2, <<>>, first.rows)
             result == IF first.ok THEN second ELSE Failed
  <2>3. result.ok => first.ok /\ second.ok
    BY DEF Failed
  <2>4. first.ok => IsFiniteSet(first.rows)
    BY <1>1, <2>1, ExecutedRows
  <2>5. first.ok /\ second.ok => IsFiniteSet(second.rows)
    <3> HIDE DEF first
    <3> QED BY <2>4, ExecutedRows
  <2>6. result.ok => IsFiniteSet(result.rows)
    <3> HIDE DEF first, second
    <3> QED BY <2>3, <2>5
  <2>7. Executed(n, result, ask)
    BY <2>2
  <2> HIDE DEF result
  <2> QED BY <1>1, <2>1, <2>6, <2>7, TablesExecuted
<1>5. ASSUME NEW n \in Node, db2ExecForeignUpdate(n) \/ db2ExecForeignDelete(n) PROVE TablesInv'
  <2>1. Begun(n)
    BY <1>5 DEF db2ExecForeignUpdate, db2ExecForeignDelete, CallOf, Begun
  <2>2. PICK new, old, ask : Executed(n, ExecForeign(stmt[n], sql[n], params[n], new, old, remote[stmt[n].table]), ask)
    BY <1>5 DEF db2ExecForeignUpdate, db2ExecForeignDelete
  <2> QED BY <1>1, <2>1, <2>2, ExecutedRows, TablesExecuted
<1>6. ASSUME NEW n \in Node, db2IterateDirectModify(n) PROVE TablesInv'
  <2>1. CASE stmt[n].params > 0
    BY <1>6, <2>1 DEF db2IterateDirectModify, ModifyFails, TablesInv
  <2>2. CASE ~(stmt[n].params > 0)
    <3> DEFINE t == stmt[n].table
               left == remote[t] \ stmt[n].where
    <3>1. remote' = [remote EXCEPT ![t] = left] /\ DOMAIN wanted' = DOMAIN wanted /\ Begun(n)
      BY <1>6, <2>2 DEF db2IterateDirectModify, CallOf, Begun
    <3>2. IsFiniteSet(left)
      <4>1. left \in SUBSET remote[t] /\ IsFiniteSet(remote[t])
        BY <1>1, <3>1
      <4> HIDE DEF left, t
      <4> QED BY <4>1, FS_Subset
    <3> HIDE DEF t, left
    <3> QED BY <3>1, <3>2 DEF TablesInv
  <2> QED BY <2>1, <2>2
<1>7. CASE OtherSession
  <2>1. PICK t \in {stmt[n].table : n \in {m \in Node : chosen[m] # {}}} :
          \E r \in remote[t] : \E c \in DOMAIN r : \E v \in ColValues :
            /\ remote' = [remote EXCEPT ![t] = {IF q = r THEN [r EXCEPT ![c] = v] ELSE q : q \in @}]
            /\ KeysUnique(t, remote'[t]) /\ Cardinality(remote'[t]) = Cardinality(remote[t])
            /\ wanted' = [wanted EXCEPT ![t] = {IF q = r THEN [r EXCEPT ![c] = v] ELSE q : q \in @}]
    BY <1>7 DEF OtherSession
  <2>2. PICK r \in remote[t] : \E c \in DOMAIN r : \E v \in ColValues :
          /\ remote' = [remote EXCEPT ![t] = {IF q = r THEN [r EXCEPT ![c] = v] ELSE q : q \in @}]
          /\ wanted' = [wanted EXCEPT ![t] = {IF q = r THEN [r EXCEPT ![c] = v] ELSE q : q \in @}]
    BY <2>1
  <2>3. PICK c \in DOMAIN r, v \in ColValues :
          /\ remote' = [remote EXCEPT ![t] = {IF q = r THEN [r EXCEPT ![c] = v] ELSE q : q \in @}]
          /\ wanted' = [wanted EXCEPT ![t] = {IF q = r THEN [r EXCEPT ![c] = v] ELSE q : q \in @}]
    BY <2>2
  <2> DEFINE rows == remote[t]
             x == [r EXCEPT ![c] = v]
             after == (rows \ {r}) \cup {x}
  <2>4. remote' = [remote EXCEPT ![t] = after] /\ DOMAIN wanted' = DOMAIN wanted
    <3>1. {IF q = r THEN x ELSE q : q \in rows} = after
      BY <2>2
    <3>2. remote' = [remote EXCEPT ![t] = {IF q = r THEN x ELSE q : q \in rows}]
      BY <2>3
    <3>3. DOMAIN wanted' = DOMAIN wanted
      BY <2>3
    <3> QED BY <3>1, <3>2, <3>3
  <2>5. t \in DOMAIN Table => IsFiniteSet(after)
    <3>1. t \in DOMAIN Table => IsFiniteSet(rows)
      BY DEF TablesInv
    <3> HIDE DEF rows
    <3> QED BY <3>1, FS_RemoveElement, FS_AddElement
  <2> HIDE DEF after
  <2> QED BY <2>4, <2>5 DEF TablesInv
<1> QED BY <1>2, <1>3, <1>4, <1>5, <1>6, <1>7 DEF ModifyNext

\* A step that takes a chosen row away is a call for this row.
LEMMA RowByRowStep ==
  ASSUME PlansInv, TablesInv, ModifyNext, NEW n \in Node,
         chosen'[n] # chosen[n], state'[n] = state[n], ~error', stmt[n].op \in {"UPDATE", "DELETE"}
  PROVE  /\ Cardinality(remote[stmt[n].table] \ remote'[stmt[n].table]) <= 1
         /\ Cardinality(remote'[stmt[n].table])
              = Cardinality(remote[stmt[n].table]) - (IF stmt[n].op = "DELETE" THEN 1 ELSE 0)
<1>1. ASSUME NEW m \in Node, db2BeginForeignModify(m) PROVE FALSE
  <2>1. PICK s \in Statements :
          IF PlanFails(s) \/ (s.op # "COPY" /\ Returned(s) # <<>>)
            THEN ModifyFails(m)
            ELSE /\ state' = [state EXCEPT ![m] = "run"]
                 /\ chosen' = [chosen EXCEPT ![m] = IF s.op \in {"UPDATE", "DELETE"} THEN remote[s.table] ELSE {}]
    BY <1>1 DEF db2BeginForeignModify
  <2>2. state[m] = "idle"
    BY <1>1 DEF db2BeginForeignModify
  <2>3. ~ModifyFails(m)
    BY DEF ModifyFails
  <2>4. /\ state' = [state EXCEPT ![m] = "run"]
        /\ chosen' = [chosen EXCEPT ![m] = IF s.op \in {"UPDATE", "DELETE"} THEN remote[s.table] ELSE {}]
    BY <2>1, <2>3
  <2>5. m # n
    BY <2>2, <2>4 DEF PlansInv
  <2> QED BY <2>4, <2>5 DEF PlansInv
<1>2. ASSUME NEW m \in Node,
             \/ db2ExecForeignInsert(m) \/ db2ExecForeignBatchInsert(m) \/ db2EndForeignModifyCommon(m)
             \/ db2BeginDirectModify(m) \/ db2IterateDirectModify(m) \/ db2EndDirectModify(m)
      PROVE  FALSE
  <2>1. chosen' = chosen
    BY <1>2 DEF db2ExecForeignInsert, db2ExecForeignBatchInsert, db2EndForeignModifyCommon,
                db2BeginDirectModify, db2IterateDirectModify, db2EndDirectModify, ModifyFails
  <2> QED BY <2>1
<1>3. ASSUME NEW m \in Node, db2ExecForeignUpdate(m) \/ db2ExecForeignDelete(m)
      PROVE  /\ Cardinality(remote[stmt[n].table] \ remote'[stmt[n].table]) <= 1
             /\ Cardinality(remote'[stmt[n].table])
                  = Cardinality(remote[stmt[n].table]) - (IF stmt[n].op = "DELETE" THEN 1 ELSE 0)
  <2>1. PICK new, old, ask :
          /\ Executed(m, ExecForeign(stmt[m], sql[m], params[m], new, old, remote[stmt[m].table]), ask)
          /\ chosen' = [chosen EXCEPT ![m] = @ \ {old}]
    BY <1>3 DEF db2ExecForeignUpdate, db2ExecForeignDelete
  <2>2. m = n /\ Begun(n)
    BY <1>3, <2>1 DEF PlansInv, db2ExecForeignUpdate, db2ExecForeignDelete, CallOf, Begun
  <2> DEFINE t == stmt[n].table
             result == ExecForeign(stmt[n], sql[n], params[n], new, old, remote[t])
  <2>3. t \in DOMAIN Table /\ IsFiniteSet(remote[t])
    BY <2>2, StatementsAssumption DEF PlansInv, TablesInv
  <2>4. Executed(n, result, ask)
    BY <2>1, <2>2
  <2>5. /\ result.ok => IsFiniteSet(result.rows)
        /\ result.ok => /\ Cardinality(remote[t] \ result.rows) <= 1
                        /\ Cardinality(result.rows) = Cardinality(remote[t]) - (IF stmt[n].op = "DELETE" THEN 1 ELSE 0)
    <3> SUFFICES ASSUME result.ok
                 PROVE  /\ IsFiniteSet(result.rows) /\ Cardinality(remote[t] \ result.rows) <= 1
                        /\ Cardinality(result.rows) = Cardinality(remote[t]) - (IF stmt[n].op = "DELETE" THEN 1 ELSE 0)
      OBVIOUS
    <3> DEFINE rows == remote[t]
               s == stmt[n]
               q == sql[n]
               list == params[n]
    <3>1. IsFiniteSet(rows) /\ ExecForeign(s, q, list, new, old, rows).ok /\ s.op \in {"UPDATE", "DELETE"}
      BY <2>3
    <3> HIDE DEF rows, s, q, list
    <3>2. LET after == ExecForeign(s, q, list, new, old, rows).rows
          IN  /\ IsFiniteSet(after) /\ Cardinality(rows \ after) <= 1
              /\ Cardinality(after) = Cardinality(rows) - (IF s.op = "DELETE" THEN 1 ELSE 0)
      BY <3>1, ExecutedRows
    <3> QED BY <3>2 DEF rows, s, q, list
  <2> HIDE DEF result
  <2>6. result.ok /\ remote' = [remote EXCEPT ![t] = result.rows]
    BY <2>4 DEF Executed
  <2>7. remote'[t] = result.rows
    <3> HIDE DEF t
    <3> QED BY <2>3, <2>6 DEF TablesInv
  <2> QED BY <2>5, <2>6, <2>7
<1>4. CASE OtherSession
  BY <1>4 DEF OtherSession
<1> QED BY <1>1, <1>2, <1>3, <1>4 DEF ModifyNext

----------------------------------------------------------------------------
(* Modifications: what the tables have been asked for.                     *)

\* A list of different columns that grows and has k entries, all from 1 to k,
\* is the list of these.
LEMMA GrowingIsIdentity ==
  ASSUME NEW k \in Nat, NEW S \in SUBSET (1 .. k), IsFiniteSet(S), Cardinality(S) = k
  PROVE  Ascending(S) = [i \in 1 .. k |-> i]
<1>1. S = 1 .. k
  <2>1. 1 \in Int /\ k \in Int
    OBVIOUS
  <2>2. IsFiniteSet(1 .. k) /\ Cardinality(1 .. k) = k
    <3>1. IsFiniteSet(1 .. k) /\ Cardinality(1 .. k) = IF 1 > k THEN 0 ELSE k - 1 + 1
      BY ONLY <2>1, FS_Interval
    <3> QED BY <3>1
  <2> QED BY <2>2, FS_Subset
<1>2. ASSUME NEW i \in S PROVE Cardinality(Below(S, i)) = i - 1
  <2>1. i \in Nat /\ i - 1 \in Int /\ 1 \in Int /\ i <= k /\ i >= 1
    BY <1>1
  <2>2. Below(S, i) = 1 .. (i - 1)
    BY <1>1, <2>1 DEF Below
  <2>3. Cardinality(1 .. (i - 1)) = IF 1 > i - 1 THEN 0 ELSE i - 1 - 1 + 1
    <3>1. \A a, b \in Int : Cardinality(a .. b) = IF a > b THEN 0 ELSE b - a + 1
      BY FS_Interval
    <3> QED BY <2>1, <3>1
  <2> QED BY <2>1, <2>2, <2>3
<1>3. ASSUME NEW i \in 1 .. k PROVE (CHOOSE j \in S : Cardinality(Below(S, j)) = i - 1) = i
  <2>1. i \in S /\ \A j \in S : Cardinality(Below(S, j)) = i - 1 => j = i
    BY <1>1, <1>2
  <2> QED BY <1>2, <2>1
<1>4. Ascending(S) = [i \in 1 .. k |-> CHOOSE j \in S : Cardinality(Below(S, j)) = i - 1]
  BY DEF Ascending
<1> QED BY <1>3, <1>4

\* The values of an INSERT that DB2 accepts are those of its columns.
LEMMA InsertBound ==
  ASSUME NEW s \in Statements, s.op \in {"INSERT", "COPY"}, NEW new, NEW bound,
         bound = BoundValues(s, ParamList(s, Sql(s)), Positions(s, ParamList(s, Sql(s))), new, <<>>),
         DOMAIN bound = DOMAIN Markers(Sql(s))
  PROVE  LET S == {i \in DOMAIN Cols(s) : Cols(s)[i].attnum > 0}
         IN  /\ DOMAIN Sql(s).columns = S /\ S \subseteq Nat
             /\ \A i \in S : Sql(s).columns[i] = i /\ bound[i] = new[Cols(s)[i].attnum]
<1> DEFINE S == {i \in DOMAIN Cols(s) : Cols(s)[i].attnum > 0}
           m == Ascending(S)
           k == Cardinality(S)
           list == Reverse(m)
<1>1. S \in SUBSET DOMAIN Cols(s) /\ DOMAIN Cols(s) \subseteq Nat /\ DOMAIN Cols(s) = 1 .. Len(Cols(s))
  BY ColsOfTable
<1>2. InTable(s) = m
  BY DEF InTable, Having
<1> HIDE DEF S
<1>3. /\ m \in Seq(DOMAIN Cols(s)) /\ k \in Nat /\ Len(m) = k /\ DOMAIN m = 1 .. k
      /\ \A i \in 1 .. k : m[i] \in S
      /\ \A x \in S : \E i \in 1 .. k : m[i] = x
  BY <1>1, ColumnList
<1> HIDE DEF m, k
<1>4. Sql(s).columns = m /\ Sql(s).keys = <<>>
  BY <1>2 DEF Sql
<1>5. Markers(Sql(s)) = m
  BY <1>3, <1>4, ConcatEmptySeq DEF Markers
<1>6. ParamList(s, Sql(s)) = list
  BY <1>5, ParamListReversed
<1>7. /\ DOMAIN list = 1 .. k /\ \A i \in 1 .. k : list[i] = m[k - i + 1] /\ k - i + 1 \in 1 .. k
  <2>1. DOMAIN list = DOMAIN m /\ \A i \in 1 .. Len(m) : list[i] = m[Len(m) - i + 1]
    BY <1>3, ReverseOfSeq
  <2>2. \A i \in 1 .. k : k - i + 1 \in 1 .. k
    BY <1>3
  <2> HIDE DEF list
  <2> QED BY <1>3, <2>1, <2>2
<1> HIDE DEF list
<1>8. {list[i] : i \in DOMAIN list} = S
  <2>1. \A i \in 1 .. k : list[i] \in S
    BY <1>3, <1>7
  <2>2. ASSUME NEW x \in S PROVE \E i \in 1 .. k : list[i] = x
    <3>1. PICK j \in 1 .. k : m[j] = x
      BY <1>3
    <3>2. k - j + 1 \in 1 .. k /\ k - (k - j + 1) + 1 = j
      BY <1>3
    <3>3. list[k - j + 1] = m[k - (k - j + 1) + 1]
      BY <1>7, <3>2
    <3>4. list[k - j + 1] = x
      BY <3>1, <3>2, <3>3
    <3> QED BY <3>2, <3>4
  <2> QED BY <1>7, <2>1, <2>2
<1>9. bound = [pos \in S |-> ParamValue(s, list[CHOOSE i \in DOMAIN list : list[i] = pos], new, <<>>)]
  BY <1>6, <1>8 DEF BoundValues, Positions
<1>10. S = 1 .. k
  BY <1>3, <1>5, <1>9
<1>11. \A i \in S : m[i] = i
  <2>1. IsFiniteSet(1 .. k)
    <3>1. 1 \in Int /\ k \in Int
      BY <1>3
    <3> QED BY ONLY <3>1, FS_Interval
  <2>2. m = [i \in 1 .. k |-> i]
    BY <1>3, <1>10, <2>1, GrowingIsIdentity DEF m, k
  <2> QED BY <1>10, <2>2
<1>12. ASSUME NEW p \in S PROVE bound[p] = new[Cols(s)[p].attnum]
  <2>1. \E i \in DOMAIN list : list[i] = p
    BY <1>8
  <2>2. list[CHOOSE i \in DOMAIN list : list[i] = p] = p
    BY <2>1
  <2>3. bound[p] = ParamValue(s, p, new, <<>>)
    BY <1>9, <2>2
  <2> QED BY <2>3 DEF ParamValue
<1> QED BY <1>1, <1>3, <1>4, <1>10, <1>11, <1>12 DEF S

\* An INSERT adds the row it was asked to add.
LEMMA InsertDone ==
  ASSUME NEW s \in Statements, s.op \in {"INSERT", "COPY"}, NEW new, NEW rows,
         ExecForeign(s, Sql(s), ParamList(s, Sql(s)), new, <<>>, rows).ok
  PROVE  ExecForeign(s, Sql(s), ParamList(s, Sql(s)), new, <<>>, rows).rows = Asked(s, new, <<>>, rows)
<1> DEFINE q == Sql(s)
           bound == BoundValues(s, ParamList(s, q), Positions(s, ParamList(s, q)), new, <<>>)
           result == ExecForeign(s, q, ParamList(s, q), new, <<>>, rows)
           names == {Cols(s)[i].name : i \in DOMAIN Cols(s)}
           attr == [c \in names |-> Cols(s)[CHOOSE i \in DOMAIN Cols(s) : Cols(s)[i].name = c].attnum]
           asked == [c \in names |-> IF attr[c] = 0 THEN NullValue ELSE new[attr[c]]]
           added == [c \in names |-> Given(s, q, bound, c, NullValue)]
           S == {i \in DOMAIN Cols(s) : Cols(s)[i].attnum > 0}
<1>1. DOMAIN bound = DOMAIN Markers(q) /\ result.rows = rows \cup {added}
  <2>1. result = OneRow(Result(s, q, bound, rows)) /\ result.ok
    BY DEF ExecForeign
  <2> HIDE DEF bound, q, result
  <2>2. DOMAIN bound = DOMAIN Markers(q) /\ result = Execution(s, q, bound, rows)
    BY <2>1 DEF OneRow, Result, Failed
  <2>3. result = Insertion(s, q, bound, rows)
    BY <2>1, <2>2 DEF Execution, Failed
  <2>4. Insertion(s, q, bound, rows) = IF added \in rows THEN Failed ELSE Done(s.table, 1, rows \cup {added})
    BY DEF Insertion
  <2> HIDE DEF added
  <2> QED BY <2>1, <2>2, <2>3, <2>4 DEF Done, Failed
<1>2. /\ DOMAIN q.columns = S /\ S \subseteq Nat
      /\ \A i \in S : q.columns[i] = i /\ bound[i] = new[Cols(s)[i].attnum]
  <2> DEFINE b == bound
  <2>1. b = BoundValues(s, ParamList(s, Sql(s)), Positions(s, ParamList(s, Sql(s))), new, <<>>) /\ DOMAIN b = DOMAIN Markers(Sql(s))
    BY <1>1
  <2> HIDE DEF b
  <2> QED BY <2>1, InsertBound DEF b
<1> HIDE DEF bound, q
<1>3. ASSUME NEW c \in names PROVE asked[c] = added[c]
  <2>1. PICK j \in DOMAIN Cols(s) : Cols(s)[j].name = c
    OBVIOUS
  <2>2. \A i \in DOMAIN Cols(s) : Cols(s)[i].name = c => i = j
    BY <2>1, ColsOfTable
  <2>3. (CHOOSE i \in DOMAIN Cols(s) : Cols(s)[i].name = c) = j
    BY <2>1, <2>2
  <2>4. attr[c] = Cols(s)[j].attnum /\ Cols(s)[j].attnum \in Nat
    BY <2>3, ColsOfTable
  <2> DEFINE at == {i \in DOMAIN q.columns : Cols(s)[q.columns[i]].name = c}
  <2>5. added[c] = IF at = {} THEN NullValue ELSE bound[Max(at)]
    BY DEF Given
  <2>6. CASE Cols(s)[j].attnum = 0
    <3>1. at = {}
      BY <1>2, <2>2, <2>6
    <3> QED BY <2>4, <2>5, <2>6, <3>1
  <2>7. CASE Cols(s)[j].attnum # 0
    <3>1. j \in S
      BY <2>4, <2>7
    <3>2. at = {j} /\ j \in Nat
      BY <1>2, <2>1, <2>2, <3>1
    <3>3. Max({j}) = j
      BY <3>2 DEF Max
    <3>4. added[c] = new[Cols(s)[j].attnum]
      <4> HIDE DEF at, added, S
      <4> QED BY <1>2, <2>5, <3>1, <3>2, <3>3
    <3> HIDE DEF added
    <3> QED BY <2>4, <2>7, <3>4
  <2> QED BY <2>6, <2>7
<1>4. asked = added
  BY <1>3
<1>5. Asked(s, new, <<>>, rows) = rows \cup {asked}
  BY DEF Asked
<1> QED BY <1>1, <1>4, <1>5 DEF q

\* A DELETE by a single key column, which is the primary key, removes the rows
\* that have the key it was called with.
LEMMA DeleteDone ==
  ASSUME NEW s \in Statements, s.op = "DELETE", Unambiguous(s, Sql(s)), NEW old, NEW rows,
         ExecForeign(s, Sql(s), ParamList(s, Sql(s)), [a \in Attnums(s) |-> NullValue], old, rows).ok
  PROVE  ExecForeign(s, Sql(s), ParamList(s, Sql(s)), [a \in Attnums(s) |-> NullValue], old, rows).rows
           = Asked(s, <<>>, old, rows)
<1> DEFINE q == Sql(s)
           list == ParamList(s, q)
           new == [a \in Attnums(s) |-> NullValue]
           bound == BoundValues(s, list, Positions(s, list), new, old)
           result == ExecForeign(s, q, list, new, old, rows)
           col == Keys(s)[1]
           name == Cols(s)[col].name
           matching == {r \in rows : Matches(s, q, bound, r)}
<1>1. q.columns = <<>> /\ q.keys = Keys(s)
  BY DEF Sql
<1>2. Keys(s) \in Seq(DOMAIN Cols(s)) /\ Len(Keys(s)) = 1 /\ Table[s.table].primary = {name}
  BY <1>1, MarkersAreColumns DEF Unambiguous
<1>3. DOMAIN Keys(s) = {1} /\ col \in DOMAIN Cols(s)
  BY <1>2
<1>4. Cols(s)[col].key /\ Cols(s)[col].attnum \in Attnums(s)
  <2> DEFINE S == {i \in DOMAIN Cols(s) : Cols(s)[i].attnum > 0 /\ Cols(s)[i].key}
  <2>1. Keys(s) = Ascending(S) /\ S \in SUBSET DOMAIN Cols(s)
    BY DEF Keys, Having
  <2> HIDE DEF S
  <2>2. Ascending(S)[1] \in S
    <3>1. DOMAIN Ascending(S) = 1 .. Cardinality(S) /\ \A k \in 1 .. Cardinality(S) : Ascending(S)[k] \in S
      BY <2>1, ColumnList
    <3> QED BY <1>3, <2>1, <3>1
  <2> QED BY <1>3, <2>1, <2>2 DEF S, Attnums
<1>5. Markers(q) = Keys(s)
  BY <1>1, <1>2, ConcatEmptySeq DEF Markers
<1>6. DOMAIN list = {1} /\ list[1] = col
  <2>1. list = Reverse(Keys(s))
    BY <1>5, ParamListReversed
  <2>2. \A i \in 1 .. Len(Keys(s)) : Reverse(Keys(s))[i] = Keys(s)[Len(Keys(s)) - i + 1]
    BY <1>2, ReverseOfSeq
  <2>3. DOMAIN Reverse(Keys(s)) = DOMAIN Keys(s)
    BY <1>2, ReverseOfSeq
  <2>4. Reverse(Keys(s))[1] = Keys(s)[1 - 1 + 1]
    BY <1>2, <2>2
  <2> QED BY <1>3, <2>1, <2>3, <2>4
<1>7. DOMAIN bound = {1} /\ bound[1] = ParamValue(s, col, new, old)
  <2> HIDE DEF list, col, new
  <2>1. Positions(s, list) = [i \in {1} |-> i]
    BY <1>6 DEF Positions
  <2>2. bound = [pos \in {1} |-> ParamValue(s, list[CHOOSE i \in {1} : i = pos], new, old)]
    BY <2>1 DEF BoundValues
  <2> QED BY <1>6, <2>2
<1>8. bound[1] = old[name]
  <2>1. new[Cols(s)[col].attnum] = NullValue
    BY <1>4
  <2> HIDE DEF new, bound, col
  <2> QED BY <1>4, <1>7, <2>1 DEF ParamValue
<1>9. \A r \in rows : Matches(s, q, bound, r) <=> old[name] # NullValue /\ r[name] = old[name]
  <2>1. Len(q.columns) + 1 = 1 /\ DOMAIN q.keys = {1} /\ q.keys[1] = col
    BY <1>1, <1>3
  <2> HIDE DEF q, bound, col
  <2> QED BY <1>8, <2>1 DEF Matches
<1>10. result.ok /\ result = OneRow(Result(s, q, bound, rows))
  BY DEF ExecForeign
<1> HIDE DEF result, bound, q, list
<1>11. /\ Cardinality(matching) = 1 /\ result.rows = rows \ matching
  <2>1. result.count = 1 /\ result = Execution(s, q, bound, rows)
    BY <1>10 DEF OneRow, Result, Failed
  <2> HIDE DEF matching
  <2>2. result = Replaced(s, q, bound, rows, matching)
    BY <1>10, <2>1 DEF Execution, Failed, matching
  <2> QED BY <1>10, <2>1, <2>2 DEF Replaced, Done, Failed
<1>12. matching = {r \in rows : r[name] = old[name]}
  <2>1. matching # {}
    <3> HIDE DEF matching
    <3> QED BY <1>11, FS_EmptySet
  <2> QED BY <1>9, <2>1
<1>13. Asked(s, <<>>, old, rows) = {r \in rows : ~(r[name] = old[name])}
  BY <1>2 DEF Asked, SameKey
<1> QED BY <1>11, <1>12, <1>13 DEF result, q, list

\* A node that has begun keeps its statement, and an ERROR is not taken back.
LEMMA NothingTakenBack ==
  ASSUME PlansInv, ModifyNext
  PROVE  /\ error => error'
         /\ garbled => garbled'
         /\ \A n \in Node : Begun(n) => Begun(n)' /\ stmt'[n] = stmt[n] /\ sql'[n] = sql[n]
<1> DEFINE Kept == \A n \in Node : Begun(n) => Begun(n)' /\ stmt'[n] = stmt[n] /\ sql'[n] = sql[n]
           Goal == (error => error') /\ (garbled => garbled') /\ Kept
<1>1. ASSUME NEW n \in Node, db2BeginForeignModify(n) PROVE Goal
  <2>1. PICK s \in Statements :
          IF PlanFails(s) \/ (s.op # "COPY" /\ Returned(s) # <<>>)
            THEN ModifyFails(n)
            ELSE /\ state' = [state EXCEPT ![n] = "run"]
                 /\ stmt' = [stmt EXCEPT ![n] = s]
                 /\ sql' = [sql EXCEPT ![n] = Sql(s)]
                 /\ UNCHANGED <<error, garbled>>
    BY <1>1 DEF db2BeginForeignModify
  <2>2. state[n] = "idle"
    BY <1>1 DEF db2BeginForeignModify
  <2>3. CASE ModifyFails(n)
    BY <2>3 DEF ModifyFails, Begun
  <2>4. CASE ~ModifyFails(n)
    BY <2>1, <2>2, <2>4 DEF PlansInv, Begun
  <2> QED BY <2>3, <2>4
<1>2. ASSUME NEW n \in Node,
             \/ db2ExecForeignInsert(n) \/ db2ExecForeignBatchInsert(n)
             \/ db2ExecForeignUpdate(n) \/ db2ExecForeignDelete(n)
      PROVE  Goal
  <2>1. \E result, ask : Executed(n, result, ask)
    BY <1>2 DEF db2ExecForeignInsert, db2ExecForeignBatchInsert, db2ExecForeignUpdate, db2ExecForeignDelete
  <2>2. /\ UNCHANGED <<state, stmt, sql>> /\ (error => error') /\ (garbled => garbled')
    BY <2>1 DEF Executed
  <2> QED BY <2>2 DEF Begun
<1>3. ASSUME NEW n \in Node, db2EndForeignModifyCommon(n) \/ db2EndDirectModify(n) PROVE Goal
  <2>1. state' = [state EXCEPT ![n] = "ended"] /\ UNCHANGED <<stmt, sql, error, garbled>>
    BY <1>3 DEF db2EndForeignModifyCommon, db2EndDirectModify
  <2> QED BY <2>1 DEF PlansInv, Begun
<1>4. ASSUME NEW n \in Node, db2BeginDirectModify(n) PROVE Goal
  <2>1. PICK s \in Statements : state' = [state EXCEPT ![n] = "run"] /\ stmt' = [stmt EXCEPT ![n] = s]
    BY <1>4 DEF db2BeginDirectModify
  <2>2. state[n] = "idle" /\ UNCHANGED <<sql, error, garbled>>
    BY <1>4 DEF db2BeginDirectModify
  <2> QED BY <2>1, <2>2 DEF PlansInv, Begun
<1>5. ASSUME NEW n \in Node, db2IterateDirectModify(n) PROVE Goal
  <2>1. CASE stmt[n].params > 0
    BY <1>5, <2>1 DEF db2IterateDirectModify, ModifyFails, Begun
  <2>2. CASE ~(stmt[n].params > 0)
    <3>1. state' = [state EXCEPT ![n] = "called"] /\ UNCHANGED <<stmt, sql, error, garbled>>
      BY <1>5, <2>2 DEF db2IterateDirectModify
    <3> QED BY <3>1 DEF PlansInv, Begun
  <2> QED BY <2>1, <2>2
<1>6. CASE OtherSession
  BY <1>6 DEF OtherSession, Begun
<1> QED BY <1>1, <1>2, <1>3, <1>4, <1>5, <1>6 DEF ModifyNext

\* A call that does what was asked for.
LEMMA ExecutedAsAsked ==
  ASSUME remote = wanted, NEW n \in Node, NEW result, NEW ask, Executed(n, result, ask), ~error',
         result.ok => result.rows = ask
  PROVE  remote' = wanted'
BY DEF Executed

LEMMA ChosenNext ==
  ASSUME PlansInv, ChosenRowsOnly, ModifyNext
  PROVE  ChosenRowsOnly'
<1> SUFFICES ASSUME ~error', ~garbled', \A n \in Node : Begun(n)' => Unambiguous(stmt'[n], sql'[n])
             PROVE  remote' = wanted'
  BY DEF ChosenRowsOnly, Unambiguous, Cols
<1>1. \A n \in Node : Begun(n) => Unambiguous(stmt[n], sql[n])
  BY NothingTakenBack
<1>2. remote = wanted
  BY <1>1, NothingTakenBack DEF ChosenRowsOnly
<1>3. ASSUME NEW n \in Node, state[n] = "run", stmt[n].op # "DIRECT"
      PROVE  /\ stmt[n] \in Statements /\ sql[n] = Sql(stmt[n]) /\ params[n] = ParamList(stmt[n], Sql(stmt[n]))
             /\ Unambiguous(stmt[n], Sql(stmt[n]))
  BY <1>1, <1>3 DEF PlansInv, Begun
<1>4. ASSUME NEW n \in Node, db2BeginForeignModify(n) \/ db2EndForeignModifyCommon(n) \/ db2BeginDirectModify(n) \/ db2EndDirectModify(n)
      PROVE  remote' = wanted'
  <2>1. UNCHANGED <<remote, wanted>>
    BY <1>4 DEF db2BeginForeignModify, ModifyFails, db2EndForeignModifyCommon, db2BeginDirectModify, db2EndDirectModify
  <2> QED BY <1>2, <2>1
<1>5. ASSUME NEW n \in Node, db2ExecForeignInsert(n) PROVE remote' = wanted'
  <2>1. state[n] = "run" /\ stmt[n].op \in {"INSERT", "COPY"}
    BY <1>5 DEF db2ExecForeignInsert, CallOf
  <2> DEFINE s == stmt[n]
             result(new) == ExecForeign(s, Sql(s), ParamList(s, Sql(s)), new, <<>>, remote[s.table])
  <2>2. PICK new : Executed(n, result(new), Asked(s, new, <<>>, wanted[s.table]))
    BY <1>3, <1>5, <2>1 DEF db2ExecForeignInsert
  <2>3. result(new).ok => result(new).rows = Asked(s, new, <<>>, wanted[s.table])
    BY <1>2, <1>3, <2>1, InsertDone
  <2> HIDE DEF result
  <2> QED BY <1>2, <2>2, <2>3, ExecutedAsAsked
<1>6. ASSUME NEW n \in Node, db2ExecForeignBatchInsert(n) PROVE remote' = wanted'
  <2>1. state[n] = "run" /\ stmt[n].op \in {"INSERT", "COPY"}
    BY <1>6 DEF db2ExecForeignBatchInsert, CallOf
  <2> DEFINE s == stmt[n]
             rows == remote[s.table]
             result(new, from) == ExecForeign(s, Sql(s), ParamList(s, Sql(s)), new, <<>>, from)
             both(new1, new2) == IF result(new1, rows).ok THEN result(new2, result(new1, rows).rows) ELSE Failed
  <2>2. PICK new1, new2 :
          Executed(n, both(new1, new2), Asked(s, new2, <<>>, Asked(s, new1, <<>>, wanted[s.table])))
    BY <1>3, <1>6, <2>1 DEF db2ExecForeignBatchInsert
  <2>3. \A new, from : result(new, from).ok => result(new, from).rows = Asked(s, new, <<>>, from)
    BY <1>3, <2>1, InsertDone
  <2>4. both(new1, new2).ok => both(new1, new2).rows = Asked(s, new2, <<>>, Asked(s, new1, <<>>, rows))
    <3> HIDE DEF result
    <3> QED BY <2>3 DEF Failed
  <2> HIDE DEF both
  <2> QED BY <1>2, <2>2, <2>4, ExecutedAsAsked
<1>7. ASSUME NEW n \in Node, db2ExecForeignUpdate(n) PROVE FALSE
  <2>1. state[n] = "run" /\ stmt[n].op = "UPDATE" /\ Begun(n)
    BY <1>7 DEF db2ExecForeignUpdate, CallOf, Begun
  <2> QED BY <1>1, <2>1 DEF Unambiguous
<1>8. ASSUME NEW n \in Node, db2ExecForeignDelete(n) PROVE remote' = wanted'
  <2>1. state[n] = "run" /\ stmt[n].op = "DELETE"
    BY <1>8 DEF db2ExecForeignDelete, CallOf
  <2> DEFINE s == stmt[n]
             result(old) == ExecForeign(s, Sql(s), ParamList(s, Sql(s)), [a \in Attnums(s) |-> NullValue], old, remote[s.table])
  <2>2. PICK old : Executed(n, result(old), Asked(s, <<>>, old, wanted[s.table]))
    BY <1>3, <1>8, <2>1 DEF db2ExecForeignDelete
  <2>3. result(old).ok => result(old).rows = Asked(s, <<>>, old, wanted[s.table])
    BY <1>2, <1>3, <2>1, DeleteDone
  <2> HIDE DEF result
  <2> QED BY <1>2, <2>2, <2>3, ExecutedAsAsked
<1>9. ASSUME NEW n \in Node, db2IterateDirectModify(n) PROVE remote' = wanted'
  <2>1. CASE stmt[n].params > 0
    BY <1>2, <1>9, <2>1 DEF db2IterateDirectModify, ModifyFails
  <2>2. CASE ~(stmt[n].params > 0)
    BY <1>2, <1>9, <2>2 DEF db2IterateDirectModify
  <2> QED BY <2>1, <2>2
<1>10. CASE OtherSession
  BY <1>2, <1>10 DEF OtherSession
<1> QED BY <1>4, <1>5, <1>6, <1>7, <1>8, <1>9, <1>10 DEF ModifyNext

----------------------------------------------------------------------------
(* Modifications: the columns of an UPDATE.                                *)

\* The column after those that were found is that of the attribute.
LEMMA NextFound ==
  ASSUME NEW s \in Statements, InOrder(Cols(s)), NEW found \in Seq(DOMAIN Cols(s)),
         NEW c \in DOMAIN Cols(s), Cols(s)[c].attnum > 0,
         found # <<>> => Cols(s)[Last(found)].attnum > 0 /\ Cols(s)[Last(found)].attnum < Cols(s)[c].attnum
  PROVE  FindColumn(s, found, Cols(s)[c].attnum) = Append(found, c)
<1> DEFINE from == IF found = <<>> THEN 1 ELSE Last(found)
           next == NextColumn(s, from, Cols(s)[c].attnum)
<1>1. /\ \A i, j \in DOMAIN Cols(s) : i < j /\ Cols(s)[j].attnum > 0 => Cols(s)[i].attnum < Cols(s)[j].attnum
      /\ \A i \in DOMAIN Cols(s) : Cols(s)[i].attnum \in Nat /\ i \in Nat /\ i >= 1
  BY ColsOfTable DEF InOrder
<1>2. from \in Nat /\ c >= from
  <2>1. CASE found = <<>>
    BY <1>1, <2>1
  <2>2. CASE found # <<>>
    <3>1. Last(found) \in DOMAIN Cols(s)
      BY <2>2 DEF Last
    <3>2. ~(c < Last(found))
      BY <1>1, <2>2, <3>1
    <3> QED BY <1>1, <2>2, <3>1, <3>2
  <2> QED BY <2>1, <2>2
<1> HIDE DEF from
<1>3. next = {i \in DOMAIN Cols(s) : i >= from /\ Cols(s)[i].attnum >= Cols(s)[c].attnum}
  BY DEF NextColumn
<1> HIDE DEF next
<1>4. c \in next /\ next \in SUBSET Nat
  BY <1>1, <1>2, <1>3
<1>5. \A i \in next : i >= c
  BY <1>1, <1>3
<1>6. Min(next) = c
  <2>1. Min(next) \in next /\ \A i \in next : Min(next) <= i
    BY <1>4, MinOfNumbers
  <2>2. Min(next) >= c /\ Min(next) <= c /\ Min(next) \in Nat /\ c \in Nat
    BY <1>4, <1>5, <2>1
  <2> QED BY <2>2
<1> QED BY <1>4, <1>6 DEF FindColumn, next, from

\* In the order of the attributes the columns of all of them are found.
LEMMA SetColumnsRight ==
  ASSUME NEW s \in Statements, InOrder(Cols(s)), s.set \subseteq {Cols(s)[i].attnum : i \in DOMAIN Cols(s)}
  PROVE  {Cols(s)[i].attnum : i \in Range(SetColumns(s))} = s.set
<1> DEFINE a == Ascending(s.set)
           n == Len(a)
<1>1. /\ s.set \in SUBSET Nat /\ 0 \notin s.set /\ IsFiniteSet(s.set)
  BY StatementsAssumption
<1>2. /\ a \in Seq(s.set) /\ n \in Nat /\ DOMAIN a = 1 .. n
      /\ \A i, j \in 1 .. n : i < j => a[i] < a[j]
      /\ \A x \in s.set : \E k \in 1 .. n : a[k] = x
      /\ \A k \in 1 .. n : a[k] \in s.set
  <2>1. /\ a \in Seq(s.set) /\ n \in Nat /\ DOMAIN a = 1 .. n
        /\ \A i, j \in 1 .. n : i < j => a[i] < a[j]
        /\ \A x \in s.set : \E k \in 1 .. n : a[k] = x
    BY <1>1, AscendingList
  <2> HIDE DEF a, n
  <2> QED BY <2>1
<1>3. PICK g \in [0 .. n -> Seq(DOMAIN Cols(s))] :
        /\ g = [k \in 0 .. n |-> IF k = 0 THEN <<>> ELSE FindColumn(s, g[k - 1], a[k])]
        /\ SetColumns(s) = g[n]
  BY SetColumnsFound
<1> HIDE DEF a, n
<1>4. g[0] = <<>> /\ \A k \in 1 .. n : g[k] = FindColumn(s, g[k - 1], a[k])
  <2>1. 0 \in 0 .. n /\ \A k \in 1 .. n : k \in 0 .. n /\ k # 0
    BY <1>2
  <2>2. \A k \in 0 .. n : g[k] = IF k = 0 THEN <<>> ELSE FindColumn(s, g[k - 1], a[k])
    BY <1>3
  <2> QED BY <2>1, <2>2
<1> DEFINE Attnum(i) == Cols(s)[i].attnum
           Right(k) == /\ {Attnum(i) : i \in Range(g[k])} = {a[j] : j \in 1 .. k}
                       /\ k = 0 => g[k] = <<>>
                       /\ k # 0 => g[k] # <<>> /\ Attnum(Last(g[k])) = a[k]
           T == {k \in 0 .. n : ~Right(k)}
<1>5. Right(0)
  BY <1>4 DEF Range
<1>6. ASSUME NEW k \in 1 .. n, Right(k - 1) PROVE Right(k)
  <2>1. k - 1 \in 0 .. n /\ g[k - 1] \in Seq(DOMAIN Cols(s)) /\ a[k] \in s.set /\ k # 0
    <3>1. k - 1 \in 0 .. n /\ k # 0
      BY <1>2
    <3> QED BY <1>2, <1>3, <3>1
  <2>2. PICK c \in DOMAIN Cols(s) : Cols(s)[c].attnum = a[k]
    BY <2>1
  <2>3. Cols(s)[c].attnum > 0
    BY <1>1, <2>1, <2>2
  <2>4. g[k - 1] # <<>> => /\ Cols(s)[Last(g[k - 1])].attnum > 0
                            /\ Cols(s)[Last(g[k - 1])].attnum < Cols(s)[c].attnum
    <3> SUFFICES ASSUME g[k - 1] # <<>>
                 PROVE  /\ Cols(s)[Last(g[k - 1])].attnum > 0
                        /\ Cols(s)[Last(g[k - 1])].attnum < Cols(s)[c].attnum
      OBVIOUS
    <3>1. k - 1 # 0
      BY <1>6
    <3>2. k - 1 \in 1 .. n /\ k - 1 < k
      BY <1>2, <3>1
    <3>3. a[k - 1] < a[k] /\ a[k - 1] > 0
      <4>1. a[k - 1] \in s.set
        BY <1>2, <3>2
      <4>2. a[k - 1] < a[k]
        BY <1>2, <3>2
      <4> QED BY <1>1, <4>1, <4>2
    <3> QED BY <1>6, <2>2, <3>1, <3>3
  <2>5. g[k] = Append(g[k - 1], c)
    <3>1. FindColumn(s, g[k - 1], Cols(s)[c].attnum) = Append(g[k - 1], c)
      BY <2>1, <2>3, <2>4, NextFound
    <3> QED BY <1>4, <2>2, <3>1
  <2> DEFINE h == g[k - 1]
  <2>6. h \in Seq(DOMAIN Cols(s)) /\ {Attnum(i) : i \in Range(h)} = {a[j] : j \in 1 .. (k - 1)}
    BY <1>6, <2>1
  <2> HIDE DEF h
  <2>7. /\ Append(h, c) # <<>> /\ Last(Append(h, c)) = c
        /\ Range(Append(h, c)) = Range(h) \cup {c}
    <3>1. /\ Len(h) \in Nat /\ DOMAIN h = 1 .. Len(h) /\ Append(h, c) \in Seq(DOMAIN Cols(s))
          /\ Len(Append(h, c)) = Len(h) + 1 /\ DOMAIN Append(h, c) = 1 .. (Len(h) + 1)
          /\ \A i \in 1 .. Len(h) : Append(h, c)[i] = h[i]
          /\ Append(h, c)[Len(h) + 1] = c
      BY <2>6
    <3>2. DOMAIN Append(h, c) = DOMAIN h \cup {Len(h) + 1}
      BY <3>1
    <3>3. Last(Append(h, c)) = c /\ Append(h, c) # <<>>
      BY <3>1 DEF Last
    <3> QED BY <3>1, <3>2, <3>3 DEF Range
  <2>8. 1 .. k = (1 .. (k - 1)) \cup {k}
    BY <1>2
  <2>9. {a[j] : j \in 1 .. k} = {a[j] : j \in 1 .. (k - 1)} \cup {a[k]}
    BY <2>8
  <2>10. g[k] = Append(h, c)
    BY <2>5 DEF h
  <2>11. {Attnum(i) : i \in Range(g[k])} = {Attnum(i) : i \in Range(h)} \cup {Attnum(c)}
    BY <2>7, <2>10
  <2> QED BY <2>1, <2>2, <2>6, <2>7, <2>9, <2>10, <2>11
<1> HIDE DEF Right
<1>7. T = {}
  <2> SUFFICES ASSUME T # {} PROVE FALSE
    OBVIOUS
  <2>1. T \in SUBSET Nat
    OBVIOUS
  <2>2. PICK k \in T : \A m \in T : k <= m
    BY <2>1, LeastNumber
  <2>3. k \in 0 .. n /\ ~Right(k) /\ k # 0
    BY <1>5
  <2>4. k \in 1 .. n /\ k - 1 \in 0 .. n /\ ~(k <= k - 1)
    BY <1>2, <2>3
  <2>5. Right(k - 1)
    BY <2>2, <2>4
  <2> QED BY <1>6, <2>3, <2>4, <2>5
<1>8. Right(n)
  <2>1. n \in 0 .. n
    BY <1>2
  <2> QED BY <1>7, <2>1
<1>9. {a[j] : j \in 1 .. n} = s.set
  BY <1>2
<1> QED BY <1>3, <1>8, <1>9 DEF Right

LEMMA PlansInvUpdates ==
  ASSUME PlansInv
  PROVE  UpdateNamesItsColumns
<1> SUFFICES ASSUME NEW n \in Node, Begun(n), stmt[n].op = "UPDATE", InOrder(Cols(stmt[n])),
                    stmt[n].set \subseteq {Cols(stmt[n])[i].attnum : i \in DOMAIN Cols(stmt[n])}
             PROVE  {Cols(stmt[n])[i].attnum : i \in Range(sql[n].columns)} = stmt[n].set
  BY DEF UpdateNamesItsColumns
<1>1. stmt[n] \in Statements /\ sql[n] = Sql(stmt[n])
  BY DEF PlansInv
<1>2. sql[n].columns = SetColumns(stmt[n])
  BY <1>1 DEF Sql
<1> QED BY <1>1, <1>2, SetColumnsRight

----------------------------------------------------------------------------
(* The executor.                                                           *)

\* What holds of every state the executor reaches.
ExecInv ==
  /\ RowsInv /\ SlotInv
  /\ PlansInv /\ TablesInv /\ ChosenRowsOnly

LEMMA ScanUnchanged ==
  ASSUME RowsInv, SlotInv, UNCHANGED scanVars
  PROVE  RowsInv' /\ SlotInv'
BY DEF scanVars, RowsInv, SlotInv, ScanState, Scanning, Wanted, RowOk, convertTuple, FetchedValue

LEMMA ModifyUnchanged ==
  ASSUME PlansInv, TablesInv, ChosenRowsOnly, UNCHANGED modifyVars
  PROVE  PlansInv' /\ TablesInv' /\ ChosenRowsOnly'
<1> USE DEF modifyVars
<1>1. PlansInv'
  BY DEF PlansInv, Begun
<1>2. TablesInv'
  BY DEF TablesInv
<1>3. ChosenRowsOnly'
  BY DEF ChosenRowsOnly, Begun, Unambiguous, Cols
<1> QED BY <1>1, <1>2, <1>3

LEMMA ExecInvInit ==
  ASSUME Init
  PROVE  ExecInv
<1> USE DEF Init, ScanInit, ModifyInit
<1>1. RowsInv /\ SlotInv
  BY DEF RowsInv, SlotInv, Scanning
<1>2. PlansInv /\ TablesInv /\ ChosenRowsOnly
  BY TableAssumption DEF PlansInv, TablesInv, ChosenRowsOnly, Begun
<1> QED BY <1>1, <1>2 DEF ExecInv

LEMMA ExecInvNext ==
  ASSUME ExecInv, [Next]_vars
  PROVE  ExecInv'
<1>1. CASE ScanNext /\ UNCHANGED modifyVars
  BY <1>1, RowsNext, SlotNext, ModifyUnchanged DEF ExecInv
<1>2. CASE ModifyNext /\ UNCHANGED scanVars
  BY <1>2, PlansNext, TablesNext, ChosenNext, ScanUnchanged DEF ExecInv
<1>3. CASE UNCHANGED vars
  BY <1>3, ScanUnchanged, ModifyUnchanged DEF ExecInv, vars
<1> QED BY <1>1, <1>2, <1>3 DEF Next

\* The inductive invariant of the executor.
THEOREM ExecInvariant == Spec => []ExecInv
<1>1. Init => ExecInv
  BY ExecInvInit
<1>2. ExecInv /\ [Next]_vars => ExecInv'
  BY ExecInvNext
<1> QED BY <1>1, <1>2, PTL DEF Spec

\* A scan with at most one marker hands out the rows of the answer to the values
\* the executor has now, from the first on, however it is stopped and started
\* again (db2IterateForeignScan, db2ReScanForeignScan).
THEOREM ScanRowsOfOneRun == Spec => []RowsOfOneRun
<1>1. ExecInv => RowsOfOneRun
  BY RowsInvRows DEF ExecInv
<1> QED BY <1>1, ExecInvariant, PTL

\* Whatever buffers a query needs, a value of the described size arrives whole
\* (db2PrepareQuery, db2FetchNext, convertTuple).
THEOREM ScanSlotIsRow == Spec => []SlotIsRow
<1>1. ExecInv => SlotIsRow
  BY SlotInvSlot DEF ExecInv
<1> QED BY <1>1, ExecInvariant, PTL

\* INSERTs, DELETEs by one key column and remote statements do what they are
\* asked for, with any tables, any number of nodes and other sessions.
THEOREM ModifyChosenRowsOnly == Spec => []ChosenRowsOnly
<1>1. ExecInv => ChosenRowsOnly
  BY DEF ExecInv
<1> QED BY <1>1, ExecInvariant, PTL

\* An UPDATE of any columns in the order of the attributes names just these.
THEOREM ModifyUpdateNamesItsColumns == Spec => []UpdateNamesItsColumns
<1>1. ExecInv => UpdateNamesItsColumns
  BY PlansInvUpdates DEF ExecInv
<1> QED BY <1>1, ExecInvariant, PTL

\* No call changes more than one row or leaves the table with a wrong number of
\* rows, whatever its parameters are and whatever other sessions did.
THEOREM ModifyRowByRow == Spec => RowByRow
<1> DEFINE Step == \A n \in Node : chosen'[n] # chosen[n] /\ state'[n] = state[n] /\ ~error' /\ stmt[n].op \in {"UPDATE", "DELETE"} =>
       LET old == remote[stmt[n].table]
           new == remote'[stmt[n].table]
       IN  /\ Cardinality(old \ new) <= 1
           /\ Cardinality(new) = Cardinality(old) - (IF stmt[n].op = "DELETE" THEN 1 ELSE 0)
<1>1. ExecInv /\ [Next]_vars => [Step]_vars
  <2> SUFFICES ASSUME ExecInv, Next PROVE Step
    OBVIOUS
  <2>1. CASE UNCHANGED modifyVars
    BY <2>1 DEF modifyVars
  <2>2. CASE ModifyNext
    BY <2>2, RowByRowStep DEF ExecInv
  <2> QED BY <2>1, <2>2 DEF Next
<1> QED BY <1>1, ExecInvariant, PTL DEF Spec, RowByRow
=============================================================================
