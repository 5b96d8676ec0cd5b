----------------------------- MODULE PlanData ------------------------------
(***************************************************************************)
(* The plan's private data: serializePlanData writes the state of a scan   *)
(* or a modification as a flat list of constants, the executor's           *)
(* deserializePlanData reads them by their position.  The orders of both   *)
(* are written down here as they are in the code, apart.                   *)
(***************************************************************************)
EXTENDS Naturals, Sequences, FiniteSets, SequencesExt

CONSTANTS MaxCols, MaxParams, MaxResults   \* bounds on the lengths of the lists

VARIABLES
  planState,  \* the planner's state: functions from field names to values
  flat,       \* the list of constants in the plan
  execState   \* what the executor has read

planVars == <<planState, flat, execState>>

Null == "null"
NoState == [head |-> <<>>, cols |-> <<>>, params |-> <<>>, results |-> <<>>]

PlanInit == planState = NoState /\ flat = <<>> /\ execState = NoState

WrittenHead ==
  <<"retrieved_attr", "dbserver", "user", "password", "jwt_token", "query", "prefetch", "fetch_size",
    "relation_name", "name", "table_pgname", "batchsz", "ncols", "npgcols">>
WrittenCol ==
  <<"colName", "colType", "colSize", "colScale", "colNulls", "colChars", "colBytes", "colPrimKeyPart", "colCodepage",
    "pgname", "pgattnum", "pgtype", "pgtypmod", "used", "pkey", "val_size", "noencerr">>
WrittenParam == <<"colName", "colType", "colSize", "type", "bindType", "val_size", "colnum", "txts">>
WrittenResult ==
  <<"colName", "colType", "colSize", "colScale", "colNulls", "colChars", "colBytes", "colPrimKeyPart", "colCodepage",
    "pgname", "pgattnum", "pgtype", "pgtypmod", "pkey", "val_size", "noencerr", "resnum">>

Consts(record, fields) == [i \in DOMAIN fields |-> record[fields[i]]]
AllConsts(list, fields) == FlattenSeq([i \in DOMAIN list |-> Consts(list[i], fields)])

serializePlanData(s) ==
  Consts(s.head, WrittenHead) \o AllConsts(s.cols, WrittenCol)
    \o <<Len(s.params)>> \o AllConsts(s.params, WrittenParam)
    \o <<Len(s.results)>> \o AllConsts(s.results, WrittenResult)

ReadHead ==
  <<"retrieved_attr", "dbserver", "user", "password", "jwt_token", "query", "prefetch", "fetch_size",
    "relation_name", "name", "table_pgname", "batchsz", "ncols", "npgcols">>
ReadCol ==
  <<"colName", "colType", "colSize", "colScale", "colNulls", "colChars", "colBytes", "colPrimKeyPart", "colCodepage",
    "pgname", "pgattnum", "pgtype", "pgtypmod", "used", "pkey", "val_size", "noencerr">>
ReadParam == <<"colName", "colType", "colSize", "type", "bindType", "val_size", "colnum", "txts">>
\* Mutant: a result column is read as a column of the table is.
ReadAsCol == SubSeq(ReadCol, 1, 16) \o <<"resnum">>

ReadResult ==
  <<"colName", "colType", "colSize", "colScale", "colNulls", "colChars", "colBytes", "colPrimKeyPart", "colCodepage",
    "pgname", "pgattnum", "pgtype", "pgtypmod", "pkey", "val_size", "noencerr", "resnum">>

\* The constants from index idx on, as n records with these fields.
Records(list, idx, n, fields) ==
  [k \in 1 .. n |->
     [f \in ToSet(fields) |-> LET i == CHOOSE j \in DOMAIN fields : fields[j] = f
                                  at == idx + (k - 1) * Len(fields) + i - 1
                              IN  IF at \in DOMAIN list THEN list[at] ELSE Null]]

\* Each parameter and each result column goes in front of those read before.
deserializePlanData(list) ==
  LET head == Records(list, 1, 1, ReadHead)[1]
      atCols == 1 + Len(ReadHead)
      atParams == atCols + head["ncols"] * Len(ReadCol)
      atResults == atParams + 1 + list[atParams] * Len(ReadParam)
  IN  [head |-> head,
       cols |-> Records(list, atCols, head["ncols"], ReadCol),
       params |-> Reverse(Records(list, atParams + 1, list[atParams], ReadParam)),
       results |-> Reverse(Records(list, atResults + 1, list[atResults], ReadResult))]

\* Every value is marked with its place; a password or a token is missing.
Marked(kind, i, fields) == [f \in ToSet(fields) |-> <<kind, i, f>>]

MakePlan(ncols, nparams, nresults, login) ==
  /\ planState = NoState
  /\ planState' = [head |-> [f \in ToSet(WrittenHead) |->
                               IF f = "ncols" THEN ncols
                               ELSE IF f \in {"user", "password", "jwt_token"} \ login THEN Null
                               ELSE <<"head", 1, f>>],
                   cols |-> [i \in 1 .. ncols |-> Marked("col", i, WrittenCol)],
                   params |-> [i \in 1 .. nparams |-> Marked("param", i, WrittenParam)],
                   results |-> [i \in 1 .. nresults |-> Marked("result", i, WrittenResult)]]
  /\ flat' = serializePlanData(planState')
  /\ UNCHANGED execState

BeginWithPlan ==
  /\ flat # <<>> /\ execState = NoState
  /\ execState' = deserializePlanData(flat) /\ UNCHANGED <<planState, flat>>

\* The plan may be a cached one that is executed again.
EndWithPlan == execState # NoState /\ execState' = NoState /\ UNCHANGED <<planState, flat>>
PlanDropped == flat # <<>> /\ execState = NoState /\ planState' = NoState /\ flat' = <<>> /\ UNCHANGED execState

PlanDataNext ==
  \/ \E ncols \in 0 .. MaxCols, nparams \in 0 .. MaxParams, nresults \in 0 .. MaxResults,
        login \in {{"user", "password"}, {"jwt_token"}} : MakePlan(ncols, nparams, nresults, login)
  \/ BeginWithPlan \/ EndWithPlan \/ PlanDropped

\* The executor's fields have the values the planner gave them, whatever the
\* lengths of the lists, which are read in the opposite order.
DeserializedAsWritten ==
  execState # NoState =>
    execState = [planState EXCEPT !.params = Reverse(@), !.results = Reverse(@)]
=============================================================================
