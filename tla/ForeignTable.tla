---------------------------- MODULE ForeignTable ----------------------------
(***************************************************************************)
(* The catalog's side of db2_fdw: the options db2_fdw_validator lets in,   *)
(* the tables IMPORT FOREIGN SCHEMA creates, and the description           *)
(* db2GetFdwState makes of one, from its options if they are complete and  *)
(* from DB2 if not.  A name is a record [base, case], and an option's      *)
(* value its kind: "bool", "number" or "name".                             *)
(***************************************************************************)
EXTENDS Naturals, Integers, Sequences, FiniteSets, FiniteSetsExt, SequencesExt, Orders

CONSTANTS Remote,     \* the tables of DB2's schemas, records [name, type, cols]
          Schemas,    \* the names of schemas IMPORT FOREIGN SCHEMA is given
          Lists,      \* what LIMIT TO and EXCEPT may name: sets of names
          Readonly,   \* values of its option readonly
          MaxImports, \* bound on its executions
          Alterable,  \* the attributes that are changed after the import
          MaxAlters   \* and how often

Name == [base : STRING, case : {"upper", "lower", "mixed"}]
Column ==
  [name : Name, type : STRING, size : Nat, scale : Int, chars : Nat, bytes : Nat, codepage : Int, keyseq : Nat,
   hidden : BOOLEAN]

\* DB2 has no two tables of a schema, and no two columns of a table, with one
\* name, and no table all of whose columns are hidden; an integer has no scale,
\* a decimal number and a time have a size.
ASSUME RemoteAssumption ==
  \A s \in DOMAIN Remote :
    /\ \A t, u \in Remote[s] : t.name = u.name => t = u
    /\ \A t \in Remote[s] :
         /\ t.name \in Name /\ t.cols \in Seq(Column)
         /\ \A i, j \in DOMAIN t.cols : t.cols[i].name = t.cols[j].name => i = j
         /\ \E i \in DOMAIN t.cols : ~t.cols[i].hidden
         /\ \A i \in DOMAIN t.cols :
              /\ t.cols[i].type \in {"SMALLINT", "INTEGER", "BIGINT", "BOOLEAN"} => t.cols[i].scale = 0
              /\ t.cols[i].type \in {"NUMERIC", "DECIMAL", "DATE", "TIME", "TIMESTAMP", "TIMESTAMPTZ"} => t.cols[i].size > 0

ASSUME ListsAssumption == \A list \in Lists : list \subseteq Name

VARIABLES
  mapping,     \* options of the user mapping
  tables,      \* the foreign tables, by their local names
  lastImport,  \* the last IMPORT FOREIGN SCHEMA and the DB2 tables it created
  desc,        \* descriptions made since the last change, by local names
  crashed,     \* the backend has left the memory of an array
  imports, alters

tableVars == <<mapping, tables, lastImport, desc, crashed, imports, alters>>

NoImport == [schema |-> "none", case |-> "smart", list_type |-> "ALL", list |-> {}, from |-> {}]

TableInit ==
  /\ mapping = {} /\ tables = <<>> /\ lastImport = NoImport /\ desc = <<>>
  /\ crashed = FALSE /\ imports = 0 /\ alters = 0

----------------------------------------------------------------------------
(* Options.                                                                *)

NumberOptions == {"db2type", "db2size", "db2bytes", "db2chars", "db2scale", "db2null", "db2ccsid"}

valid_options ==
  [server  |-> {"dbserver", "batch_size"},
   mapping |-> {"user", "password", "jwt_token"},
   table   |-> {"schema", "table", "max_long", "readonly", "sample_percent", "prefetch", "fetchsize",
                "batch_size", "no_encoding_error"},
   column  |-> NumberOptions \cup {"key", "no_encoding_error"},
   wrapper |-> {"no_encoding_error"}]

optrequired == [server |-> {"dbserver"}, mapping |-> {}, table |-> {"table"}, column |-> {}, wrapper |-> {}]

ValidKind(option, kind) ==
  /\ option \in {"readonly", "key", "no_encoding_error"} => kind = "bool"
  /\ option \in NumberOptions \cup {"max_long", "sample_percent", "prefetch", "fetchsize", "batch_size"} => kind = "number"

db2_fdw_validator(catalog, opts) ==
  /\ DOMAIN opts \subseteq valid_options[catalog]
  /\ \A o \in DOMAIN opts : ValidKind(o, opts[o])
  /\ optrequired[catalog] \subseteq DOMAIN opts
  /\ catalog = "mapping" => DOMAIN opts \in {{"jwt_token"}, {"user", "password"}}

----------------------------------------------------------------------------
(* Names.                                                                  *)

Upper(n) == [n EXCEPT !.case = "upper"]
Lower(n) == [n EXCEPT !.case = "lower"]

fold_case(n, case) ==
  IF case = "lower" \/ (case = "smart" /\ n = Upper(n)) THEN Lower(n) ELSE n

----------------------------------------------------------------------------
(* Descriptions from DB2.                                                  *)

\* LONG VARCHAR FOR BIT DATA is told apart by its code page.
TypeOf(c) == IF c.type = "LONGVARCHAR" /\ c.codepage = 0 THEN "LONGVARBINARY" ELSE c.type

\* Bytes of the buffer for a value.
ValSize(type, c) ==
  CASE type \in {"INTEGER", "SMALLINT"}                     -> c.chars + 2
    [] type \in {"NUMERIC", "DECIMAL"} /\ c.scale # 0       -> Max({c.scale, c.size}) + 5
    [] type \in {"REAL", "DOUBLE", "FLOAT", "DECFLOAT", "BIGINT"} -> 25
    [] type \in {"DATE", "TIME", "TIMESTAMP", "TIMESTAMPTZ"} -> c.size + 1
    [] type = "XML"                                         -> 8193
    [] type \in {"BINARY", "VARBINARY", "LONGVARBINARY"}    -> c.bytes
    [] OTHER                                                -> c.bytes + 1

\* SELECT * leaves the others out.
Visible(t) ==
  LET shown == Ascending({i \in DOMAIN t.cols : ~t.cols[i].hidden})
  IN  [k \in DOMAIN shown |-> t.cols[shown[k]]]

\* A pointer that is left empty.
NoEntry == [colName |-> [base |-> "none", case |-> "upper"], pgattnum |-> 0]

\* One without an attribute.
Entry(name, type, c) ==
  [colName |-> name, colType |-> type, colScale |-> c.scale, val_size |-> ValSize(type, c),
   pgattnum |-> 0, pgtype |-> "none", pkey |-> FALSE]

db2Describe(t) == [i \in DOMAIN Visible(t) |-> LET c == Visible(t)[i] IN Entry(c.name, TypeOf(c), c)]

RemoteTable(t) == CHOOSE r \in Remote[t.schema] : r.name = t.table

\* Options of the column, for an undropped attribute.
IsTrue(a) == "key" \in a.options

PgSide(entry, a, i) == [entry EXCEPT !.pgattnum = i, !.pgtype = a.pgtype, !.pkey = IsTrue(a)]

\* Each attribute goes to the entry with its upper-cased name.
Matching(cols, t, j) == {i \in DOMAIN t.attrs : ~t.attrs[i].dropped /\ Upper(t.attrs[i].name) = cols[j].colName}

\* Mutant: attribute and entry are matched by their position.
MatchedByOrdinal(cols, t) ==
  [j \in DOMAIN cols |->
     IF j \in DOMAIN t.attrs /\ ~t.attrs[j].dropped THEN PgSide(cols[j], t.attrs[j], j) ELSE cols[j]]

getColumnData(cols, t) ==
  [j \in DOMAIN cols |->
     IF Matching(cols, t, j) = {} THEN cols[j]
     ELSE LET i == Max(Matching(cols, t, j)) IN PgSide(cols[j], t.attrs[i], i)]

\* From the options, which have the values DB2 gave at the import: entries of
\* the undropped attributes, then one pointer left empty for each dropped one.
describeForeignTable(t) ==
  LET live == Ascending({i \in DOMAIN t.attrs : ~t.attrs[i].dropped})
  IN  [k \in DOMAIN t.attrs |->
         IF k \notin DOMAIN live THEN NoEntry
         ELSE LET a == t.attrs[live[k]]
              IN  PgSide(Entry(Upper(a.name), a.column.type, a.column), a, live[k])]

Complete(t) == \A i \in DOMAIN t.attrs : ~t.attrs[i].dropped => NumberOptions \subseteq t.attrs[i].options

db2GetFdwState(t) ==
  IF Complete(t) THEN describeForeignTable(t) ELSE getColumnData(db2Describe(RemoteTable(t)), t)

----------------------------------------------------------------------------
(* Types.                                                                  *)

\* Mutant: a decimal number becomes a bigint.
DecimalAsBigint(type) == IF type = "DECIMAL" THEN "BIGINT" ELSE "numeric"

NumberType(type) == IF type \in {"NUMERIC", "DECIMAL", "DECFLOAT"} THEN "numeric" ELSE "DOUBLE"

\* The type generateForeignTableCreate declares.
PgType(type) ==
  CASE type = "CHAR" -> "bpchar" [] type = "VARCHAR" -> "varchar"
    [] type \in {"SMALLINT", "INTEGER", "BIGINT", "BOOLEAN", "DATE", "TIMESTAMP", "TIMESTAMPTZ", "TIME", "XML", "REAL"} -> type
    [] type \in {"NUMERIC", "DECIMAL", "DECFLOAT", "DOUBLE", "FLOAT"} -> NumberType(type)
    [] type \in {"BINARY", "VARBINARY", "LONGVARBINARY", "BLOB"} -> "bytea"
    [] OTHER -> "text"

checkDataType(type, scale, pgtype) ==
  \/ type = "BLOB" /\ pgtype = "bytea"
  \/ type = "XML" /\ pgtype = "XML"
  \/ type # "BLOB" /\ pgtype \in {"text", "varchar", "bpchar"}
  \/ /\ type \in {"INTEGER", "SMALLINT", "BIGINT", "FLOAT", "DOUBLE", "REAL", "DECIMAL", "DECFLOAT"}
     /\ pgtype \in {"numeric", "REAL", "DOUBLE"}
  \/ /\ type \in {"INTEGER", "SMALLINT", "BIGINT", "BOOLEAN"} /\ scale <= 0
     /\ pgtype \in {"SMALLINT", "INTEGER", "BIGINT", "BOOLEAN"}
  \/ {type, pgtype} \subseteq {"DATE", "TIME", "TIMESTAMP", "TIMESTAMPTZ"}
  \/ type \in {"VARCHAR", "CLOB"} /\ pgtype = "json"

----------------------------------------------------------------------------
(* IMPORT FOREIGN SCHEMA.                                                  *)

Listed(name, list) == \E n \in list : Upper(n) = Upper(name)

isForeignSchema(schema) == schema \in DOMAIN Remote

getForeignTableList(schema, list_type, list) ==
  {t \in Remote[schema] : /\ t.type \in {"T", "V"}
                          /\ list_type = "LIMIT TO" => Listed(t.name, list)
                          /\ list_type = "EXCEPT" => ~Listed(t.name, list)}

\* Mutant: PostgreSQL sees them as they were written.
ListAsWritten(list, case) == list

\* The names of the list are folded in place, for PostgreSQL reads them later.
FoldedList(list, case) == {fold_case(n, case) : n \in list}

\* PostgreSQL skips the statements that create something else.
IsImportable(name, list_type, list) ==
  /\ list_type = "LIMIT TO" => name \in list
  /\ list_type = "EXCEPT" => name \notin list

\* describeForeignColumns writes one entry of the array for each column of
\* any table of this name, whatever its case.
Overruns(schema, t) == \E u \in Remote[schema] \ {t} : Upper(u.name) = Upper(t.name) /\ Visible(u) # <<>>

Attribute(c, case) ==
  [name |-> fold_case(c.name, case), pgtype |-> PgType(TypeOf(c)), dropped |-> FALSE,
   column |-> [c EXCEPT !.type = TypeOf(c), !.size = Max({1, c.size})],
   options |-> NumberOptions \cup (IF c.keyseq > 0 THEN {"key"} ELSE {})]

generateForeignTableCreate(schema, t, case, readonly) ==
  [schema |-> schema, table |-> t.name, readonly |-> readonly, attrs |-> [i \in DOMAIN Visible(t) |-> Attribute(Visible(t)[i], case)]]

Kinds(options) == [o \in options |-> IF o = "key" THEN "bool" ELSE "number"]

\* PostgreSQL executes the statements and takes all of them back at an ERROR.
Creatable(t) ==
  /\ \A i, j \in DOMAIN t.attrs : i # j => t.attrs[i].name # t.attrs[j].name
  /\ \A i \in DOMAIN t.attrs : db2_fdw_validator("column", Kinds(t.attrs[i].options))
  /\ db2_fdw_validator("table", [o \in {"schema", "table"} \cup (IF t.readonly THEN {"readonly"} ELSE {}) |->
                                   IF o = "readonly" THEN "bool" ELSE "name"])

db2ImportForeignSchema(schema, case, list_type, list, readonly) ==
  LET found == getForeignTableList(schema, list_type, list)
      made == {t \in found : IsImportable(fold_case(t.name, case), list_type, FoldedList(list, case))}
      names == {fold_case(t.name, case) : t \in made}
      new == [n \in names |-> generateForeignTableCreate(schema, CHOOSE t \in made : fold_case(t.name, case) = n, case, readonly)]
  IN  /\ mapping # {} /\ ~crashed
      /\ imports < MaxImports /\ imports' = imports + 1
      /\ IF \E t \in found : Overruns(schema, t)
         THEN crashed' = TRUE /\ UNCHANGED <<tables, lastImport>>
         ELSE /\ Cardinality(names) = Cardinality(made) /\ names \cap DOMAIN tables = {}
              /\ {n \in names : ~Creatable(new[n])} = {}
              /\ tables' = [n \in names \cup DOMAIN tables |-> IF n \in names THEN new[n] ELSE tables[n]]
              /\ lastImport' = [schema |-> schema, case |-> case, list_type |-> list_type, list |-> list, from |-> made]
              /\ UNCHANGED crashed
      /\ UNCHANGED <<mapping, desc, alters>>

----------------------------------------------------------------------------
(* Other commands.                                                         *)

CreateUserMapping(options) ==
  /\ mapping = {}
  /\ db2_fdw_validator("mapping", [o \in options |-> "name"])
  /\ mapping' = options /\ UNCHANGED <<tables, lastImport, desc, crashed, imports, alters>>

Alter(n, attrs) ==
  /\ alters < MaxAlters /\ alters' = alters + 1 /\ ~crashed
  /\ tables' = [tables EXCEPT ![n].attrs = attrs]
  /\ desc' = [m \in DOMAIN desc \ {n} |-> desc[m]]
  /\ UNCHANGED <<mapping, lastImport, crashed, imports>>

Live(n) == {i \in DOMAIN tables[n].attrs \cap Alterable : ~tables[n].attrs[i].dropped}

DropColumn(n, i) ==
  /\ i \in Live(n)
  /\ Alter(n, [tables[n].attrs EXCEPT ![i].dropped = TRUE])

\* A column is added again, now the last one, and without options.
AddColumn(n, i) ==
  LET a == tables[n].attrs[i]
  IN  /\ i \in DOMAIN tables[n].attrs /\ a.dropped
      /\ \A j \in DOMAIN tables[n].attrs : tables[n].attrs[j].name = a.name => tables[n].attrs[j].dropped
      /\ Alter(n, Append(tables[n].attrs, [a EXCEPT !.dropped = FALSE, !.options = {}]))

SetOptions(n, i, options) ==
  /\ i \in Live(n) /\ db2_fdw_validator("column", Kinds(options))
  /\ options # tables[n].attrs[i].options
  /\ Alter(n, [tables[n].attrs EXCEPT ![i].options = options])

\* A statement that uses the table asks for its description.
Describe(n) ==
  /\ mapping # {} /\ ~crashed /\ n \notin DOMAIN desc
  /\ desc' = [m \in {n} \cup DOMAIN desc |-> IF m = n THEN db2GetFdwState(tables[n]) ELSE desc[m]]
  /\ UNCHANGED <<mapping, tables, lastImport, crashed, imports, alters>>

TableNext ==
  \/ \E options \in SUBSET {"user", "password", "jwt_token"} : CreateUserMapping(options)
  \/ \E schema \in Schemas, case \in {"keep", "lower", "smart"}, readonly \in Readonly :
       /\ isForeignSchema(schema)
       /\ \/ db2ImportForeignSchema(schema, case, "ALL", {}, readonly)
          \/ \E list_type \in {"LIMIT TO", "EXCEPT"}, list \in Lists :
               db2ImportForeignSchema(schema, case, list_type, list, readonly)
  \/ \E n \in DOMAIN tables :
       \/ Describe(n)
       \/ \E i \in Alterable :
            \/ DropColumn(n, i) \/ AddColumn(n, i)
            \/ \E options \in {{"key"}, {"table"}, NumberOptions, NumberOptions \cup {"key"}} : SetOptions(n, i, options)

----------------------------------------------------------------------------

\* Each attribute has one entry of the description, with the type, the size
\* and the scale DB2 has for its column, whichever way it was described and
\* whatever was dropped, added and set after the import.  The column's name
\* must be upper case in DB2, for the code looks for it so, and not be that of
\* another attribute but for the case.
ColumnsDescribed ==
  \A n \in DOMAIN desc :
    LET t == tables[n]
        cols == Visible(RemoteTable(t))
        alone(i) == \A j \in DOMAIN t.attrs : Upper(t.attrs[j].name) = Upper(t.attrs[i].name) => j = i \/ t.attrs[j].dropped
    IN  \A i \in DOMAIN t.attrs : \A c \in ToSet(cols) :
          ~t.attrs[i].dropped /\ alone(i) /\ c.name = t.attrs[i].column.name /\ c.name = Upper(c.name) =>
            LET mine == {k \in DOMAIN desc[n] : desc[n][k].pgattnum = i}
            IN  /\ Cardinality(mine) = 1
                /\ \A k \in mine : desc[n][k] = PgSide(Entry(c.name, TypeOf(c), c), t.attrs[i], i)

\* LIMIT TO imports the tables it names and EXCEPT the others, though the
\* names are compared twice, once in DB2 and once in PostgreSQL after the
\* folding: whenever the case is folded to lower, or if the list is written
\* as PostgreSQL shows the names.
ImportedAsListed ==
  LET i == lastImport
      shown == {fold_case(t.name, i.case) : t \in Remote[i.schema]}
      wanted(t) == CASE i.list_type = "ALL" -> TRUE
                     [] i.list_type = "LIMIT TO" -> Listed(t.name, i.list)
                     [] i.list_type = "EXCEPT" -> ~Listed(t.name, i.list)
  IN  i # NoImport /\ ~crashed /\ (i.case = "lower" \/ i.list \subseteq shown) =>
        i.from = {t \in Remote[i.schema] : t.type \in {"T", "V"} /\ wanted(t)}

\* Every column IMPORT FOREIGN SCHEMA declares has a type the column can be
\* read with, but for three binary types and NUMERIC, for which checkDataType
\* knows none that is declared.
ImportedIsUsable ==
  \A n \in DOMAIN tables : \A i \in DOMAIN tables[n].attrs :
    LET a == tables[n].attrs[i]
    IN  a.column.type \notin {"BINARY", "VARBINARY", "LONGVARBINARY", "NUMERIC"} =>
          checkDataType(a.column.type, a.column.scale, a.pgtype)
=============================================================================
