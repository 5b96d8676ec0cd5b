------------------------------ MODULE MCTables ------------------------------
(* Three schemas: plain tables, one with a column of every type, and one     *)
(* with two tables whose names differ in case only.                          *)
EXTENDS Tables

N(base, case) == [base |-> base, case |-> case]
Col(name, type, size, scale) ==
  [name |-> name, type |-> type, size |-> size, scale |-> scale, chars |-> size, bytes |-> 2 * size,
   codepage |-> 1208, keyseq |-> 0, hidden |-> FALSE]
Tab(name, type, cols) == [name |-> name, type |-> type, cols |-> cols]

Plain ==
  {Tab(N("emp", "upper"), "T", <<[Col(N("id", "upper"), "INTEGER", 10, 0) EXCEPT !.keyseq = 1],
                                 [Col(N("stamp", "upper"), "TIMESTAMP", 26, 6) EXCEPT !.hidden = TRUE],
                                 Col(N("midinit", "upper"), "CHAR", 1, 0),
                                 Col(N("lastname", "upper"), "VARCHAR", 15, 0)>>),
   Tab(N("dept", "mixed"), "T", <<Col(N("no", "upper"), "SMALLINT", 5, 0), Col(N("name", "mixed"), "VARCHAR", 9, 0)>>),
   Tab(N("view", "upper"), "V", <<Col(N("a", "upper"), "DOUBLE", 15, 0), Col(N("a", "lower"), "DATE", 10, 0)>>),
   Tab(N("alias", "upper"), "A", <<Col(N("id", "upper"), "INTEGER", 10, 0)>>)}

AllTypes == <<"CHAR", "VARCHAR", "LONGVARCHAR", "CLOB", "GRAPHIC", "VARGRAPHIC", "DBCLOB", "SMALLINT", "INTEGER", "BIGINT",
              "BOOLEAN", "NUMERIC", "DECIMAL", "REAL", "DOUBLE", "FLOAT", "DECFLOAT", "DATE", "TIME", "TIMESTAMP",
              "TIMESTAMPTZ", "XML", "BINARY", "VARBINARY", "BLOB">>
Typed(i) ==
  [Col(N(ToString(i), "upper"), AllTypes[i], IF AllTypes[i] = "XML" THEN 0 ELSE 10 + i, IF AllTypes[i] \in {"DECIMAL", "TIMESTAMP"} THEN 3 ELSE 0)
     EXCEPT !.codepage = IF i = 3 THEN 0 ELSE 1208]

MCRemote ==
  [plain |-> Plain,
   types |-> {Tab(N("types", "upper"), "T", [i \in DOMAIN AllTypes |-> Typed(i)])},
   twins |-> {Tab(N("note", c), "T", <<Col(N("id", "upper"), "INTEGER", 10, 0)>>) : c \in {"upper", "mixed"}}]

MCLists == {{N("emp", "lower")}, {N("emp", "upper"), N("dept", "mixed")}, {N("dept", "lower")}, {N("view", "lower")}}
=============================================================================
