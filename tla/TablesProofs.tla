---------------------------- MODULE TablesProofs ----------------------------
(***************************************************************************)
(* The properties of what a backend does with its foreign tables, one      *)
(* thing at a time: the columns and their import for every database with   *)
(* tables of the kind `RemoteAssumption' allows and however often the      *)
(* foreign tables are altered, the rest for every size of a plan, of a LOB *)
(* and of a sample.                                                        *)
(***************************************************************************)
EXTENDS Tables, OrdersProofs

LEMMA MaxOfTwo ==
  ASSUME NEW a \in Int, NEW b \in Int
  PROVE  Max({a, b}) = IF a >= b THEN a ELSE b
<1> DEFINE m == IF a >= b THEN a ELSE b
<1>1. m \in {a, b} /\ \A y \in {a, b} : m >= y
  OBVIOUS
<1>2. \A x \in {a, b} : (\A y \in {a, b} : x >= y) => x = m
  OBVIOUS
<1> QED BY <1>1, <1>2 DEF Max

----------------------------------------------------------------------------
(* The columns of a table of DB2.                                          *)

\* The tables of a schema.
DB2Table(t) == \E s \in DOMAIN Remote : t \in Remote[s]

LEMMA ColumnFields ==
  ASSUME NEW c \in Column
  PROVE  /\ c.name \in Name /\ c.size \in Nat /\ c.scale \in Int /\ c.chars \in Nat /\ c.bytes \in Nat
         /\ [c EXCEPT !.type = TypeOf(c), !.size = Max({1, c.size})].name = c.name
         /\ [c EXCEPT !.type = TypeOf(c), !.size = Max({1, c.size})].type = TypeOf(c)
         /\ [c EXCEPT !.type = TypeOf(c), !.size = Max({1, c.size})].size = Max({1, c.size})
         /\ [c EXCEPT !.type = TypeOf(c), !.size = Max({1, c.size})].scale = c.scale
         /\ [c EXCEPT !.type = TypeOf(c), !.size = Max({1, c.size})].chars = c.chars
         /\ [c EXCEPT !.type = TypeOf(c), !.size = Max({1, c.size})].bytes = c.bytes
BY DEF Column

\* The columns that are not hidden, in their order.
LEMMA VisibleColumns ==
  ASSUME NEW t, DB2Table(t)
  PROVE  /\ Visible(t) \in Seq(Column) /\ Len(Visible(t)) \in Nat
         /\ DOMAIN Visible(t) = 1 .. Len(Visible(t)) /\ Visible(t) # <<>>
         /\ \A k \in DOMAIN Visible(t) : \E i \in DOMAIN t.cols : Visible(t)[k] = t.cols[i]
         /\ \A k, l \in DOMAIN Visible(t) : Visible(t)[k].name = Visible(t)[l].name => k = l
<1> DEFINE S == {i \in DOMAIN t.cols : ~t.cols[i].hidden}
           a == Ascending(S)
<1>1. /\ t.cols \in Seq(Column)
      /\ \A i, j \in DOMAIN t.cols : t.cols[i].name = t.cols[j].name => i = j
      /\ \E i \in DOMAIN t.cols : ~t.cols[i].hidden
  BY RemoteAssumption DEF DB2Table
<1>2. PICK n \in Nat : DOMAIN t.cols = 1 .. n
  BY <1>1
<1>3. S \in SUBSET Nat /\ IsFiniteSet(S) /\ S # {} /\ S \subseteq DOMAIN t.cols
  <2>1. IsFiniteSet(1 .. n)
    <3>1. 1 \in Int /\ n \in Int
      OBVIOUS
    <3> QED BY ONLY <3>1, FS_Interval
  <2>2. S \subseteq DOMAIN t.cols
    OBVIOUS
  <2> HIDE DEF S
  <2>3. IsFiniteSet(S) /\ S \in SUBSET Nat
    BY <1>2, <2>1, <2>2, FS_Subset
  <2> QED BY <1>1, <2>2, <2>3 DEF S
<1>4. Visible(t) = [k \in DOMAIN a |-> t.cols[a[k]]]
  BY DEF Visible
<1> HIDE DEF S
<1>5. /\ a \in Seq(S) /\ Cardinality(S) \in Nat /\ Cardinality(S) # 0
      /\ DOMAIN a = 1 .. Cardinality(S) /\ Len(a) = Cardinality(S)
      /\ \A i, j \in 1 .. Cardinality(S) : i < j => a[i] < a[j]
  BY <1>3, AscendingList, FS_EmptySet
<1> HIDE DEF a
<1>6. \A k \in 1 .. Cardinality(S) : a[k] \in S /\ a[k] \in DOMAIN t.cols /\ a[k] \in Nat
  <2>1. \A k \in 1 .. Cardinality(S) : a[k] \in S
    BY <1>5
  <2> QED BY <1>3, <2>1
<1>7. /\ Visible(t) \in Seq(Column) /\ Len(Visible(t)) = Cardinality(S) /\ Visible(t) # <<>>
  <2>1. \A k \in 1 .. Cardinality(S) : t.cols[a[k]] \in Column
    BY <1>1, <1>6
  <2>2. Visible(t) \in [1 .. Cardinality(S) -> Column]
    BY <1>4, <1>5, <2>1
  <2>3. Visible(t) \in Seq(Column) /\ Len(Visible(t)) = Cardinality(S)
    BY <1>5, <2>2
  <2> QED BY <1>5, <2>3
<1>8. ASSUME NEW k \in DOMAIN Visible(t), NEW l \in DOMAIN Visible(t), Visible(t)[k].name = Visible(t)[l].name
      PROVE  k = l
  <2>1. k \in 1 .. Cardinality(S) /\ l \in 1 .. Cardinality(S)
    BY <1>4, <1>5
  <2>2. a[k] = a[l]
    BY <1>1, <1>4, <1>5, <1>6, <1>8, <2>1
  <2>3. k \in Nat /\ l \in Nat /\ a[k] \in Nat /\ a[l] \in Nat
    BY <1>6, <2>1
  <2> QED BY <1>5, <2>1, <2>2, <2>3
<1> QED BY <1>4, <1>5, <1>6, <1>7, <1>8

----------------------------------------------------------------------------
(* Names.                                                                  *)

LEMMA Folding ==
  ASSUME NEW m \in Name, NEW n \in Name, NEW case
  PROVE  /\ fold_case(n, case) \in Name /\ Upper(n) \in Name
         /\ Upper(fold_case(n, case)) = Upper(n)
         /\ fold_case(fold_case(n, case), case) = fold_case(n, case)
         /\ case = "lower" /\ Upper(m) = Upper(n) => fold_case(m, case) = fold_case(n, case)
BY DEF Name, Upper, Lower, fold_case

----------------------------------------------------------------------------
(* The foreign tables.                                                     *)

\* What the options have of a column.
Written(c) == [c EXCEPT !.type = TypeOf(c), !.size = Max({1, c.size})]

\* An attribute that keeps the name, the type and the column it was imported with.
Attr(r, k) ==
  [name : {n \in Name : Upper(n) = Upper(Visible(r)[k].name)}, pgtype : {PgType(TypeOf(Visible(r)[k]))},
   dropped : BOOLEAN, column : {Written(Visible(r)[k])}, options : SUBSET (NumberOptions \cup {"key", "table"})]

AttrOf(r) == UNION {Attr(r, k) : k \in DOMAIN Visible(r)}

ForeignTable(t) ==
  /\ t.schema \in DOMAIN Remote
  /\ \E r \in Remote[t.schema] : r.name = t.table /\ t.attrs \in Seq(AttrOf(r))

\* Descriptions are those of the tables as they are.
CatalogInv ==
  /\ \A n \in DOMAIN tables :
       /\ tables[n] = [schema |-> tables[n].schema, table |-> tables[n].table, readonly |-> tables[n].readonly,
                       attrs |-> tables[n].attrs]
       /\ ForeignTable(tables[n])
  /\ \A n \in DOMAIN desc : n \in DOMAIN tables /\ desc[n] = db2GetFdwState(tables[n])

LEMMA RemoteOf ==
  ASSUME NEW t, ForeignTable(t)
  PROVE  /\ DB2Table(RemoteTable(t)) /\ t.attrs \in Seq(AttrOf(RemoteTable(t)))
<1>1. PICK r \in Remote[t.schema] : r.name = t.table /\ t.attrs \in Seq(AttrOf(r))
  BY DEF ForeignTable
<1>2. RemoteTable(t) = r
  BY <1>1, RemoteAssumption DEF RemoteTable, ForeignTable
<1> QED BY <1>1, <1>2 DEF ForeignTable, DB2Table

\* What is declared for a column of DB2.
LEMMA AttributeDeclares ==
  ASSUME NEW r, DB2Table(r), NEW k \in DOMAIN Visible(r), NEW case
  PROVE  Attribute(Visible(r)[k], case) \in AttrOf(r)
<1> DEFINE c == Visible(r)[k]
           o == NumberOptions \cup (IF c.keyseq > 0 THEN {"key"} ELSE {})
           f == fold_case(c.name, case)
           p == PgType(TypeOf(c))
           w == Written(c)
<1>1. c.name \in Name
  <2>1. c \in Column
    BY VisibleColumns
  <2> QED BY <2>1, ColumnFields
<1>2. f \in {n \in Name : Upper(n) = Upper(c.name)} /\ p \in {p} /\ w \in {w}
  BY <1>1, Folding
<1>3. o \in SUBSET (NumberOptions \cup {"key", "table"})
  OBVIOUS
<1>4. Attribute(c, case) = [name |-> f, pgtype |-> p, dropped |-> FALSE, column |-> w, options |-> o]
  BY DEF Attribute, Written
<1>5. Attribute(c, case) \in Attr(r, k)
  <2> HIDE DEF c, o, f, p, w
  <2> QED BY <1>2, <1>3, <1>4 DEF Attr, c, p, w
<1> QED BY <1>5 DEF AttrOf

\* Every attribute of a foreign table is one of some column.
LEMMA DeclaredColumn ==
  ASSUME NEW t, ForeignTable(t), NEW i \in DOMAIN t.attrs
  PROVE  \E k \in DOMAIN Visible(RemoteTable(t)) : t.attrs[i] \in Attr(RemoteTable(t), k)
<1>1. t.attrs[i] \in AttrOf(RemoteTable(t))
  BY RemoteOf
<1> QED BY <1>1 DEF AttrOf

----------------------------------------------------------------------------
(* Steps of the catalog.                                                   *)

\* A table whose attributes change but still are attributes of its columns.
LEMMA CatalogAltered ==
  ASSUME CatalogInv, NEW n \in DOMAIN tables, NEW attrs, Alter(n, attrs),
         attrs \in Seq(AttrOf(RemoteTable(tables[n])))
  PROVE  CatalogInv'
<1> DEFINE t == tables[n]
           after == [schema |-> t.schema, table |-> t.table, readonly |-> t.readonly, attrs |-> attrs]
<1>1. /\ t = [schema |-> t.schema, table |-> t.table, readonly |-> t.readonly, attrs |-> t.attrs]
      /\ ForeignTable(t)
  BY DEF CatalogInv
<1>2. /\ tables' = [tables EXCEPT ![n].attrs = attrs] /\ desc' = [m \in DOMAIN desc \ {n} |-> desc[m]]
  BY DEF Alter
<1>3. /\ DOMAIN tables' = DOMAIN tables /\ tables'[n] = [t EXCEPT !.attrs = attrs]
      /\ \A m \in DOMAIN tables \ {n} : tables'[m] = tables[m]
  BY <1>2
<1>4. tables'[n] = after
  <2> HIDE DEF t
  <2> QED BY <1>1, <1>3
<1>5. ForeignTable(after)
  <2>1. PICK r \in Remote[t.schema] : r.name = t.table /\ t.attrs \in Seq(AttrOf(r))
    BY <1>1 DEF ForeignTable
  <2>2. RemoteTable(t) = r
    BY <1>1, <2>1, RemoteAssumption DEF RemoteTable, ForeignTable
  <2>3. attrs \in Seq(AttrOf(r))
    BY <2>2
  <2>4. after.schema = t.schema /\ after.table = t.table /\ after.attrs = attrs
    OBVIOUS
  <2> HIDE DEF after, t
  <2> QED BY <1>1, <2>1, <2>3, <2>4 DEF ForeignTable
<1>6. after = [schema |-> after.schema, table |-> after.table, readonly |-> after.readonly, attrs |-> after.attrs]
  OBVIOUS
<1> HIDE DEF after, t
<1>7. \A m \in DOMAIN tables' :
        /\ tables'[m] = [schema |-> tables'[m].schema, table |-> tables'[m].table, readonly |-> tables'[m].readonly,
                         attrs |-> tables'[m].attrs]
        /\ ForeignTable(tables'[m])
  BY <1>3, <1>4, <1>5, <1>6 DEF CatalogInv
<1>8. \A m \in DOMAIN desc' : m \in DOMAIN tables' /\ desc'[m] = db2GetFdwState(tables'[m])
  BY <1>2, <1>3 DEF CatalogInv
<1> QED BY <1>7, <1>8 DEF CatalogInv, ForeignTable, db2GetFdwState

\* Dropping, adding again and changing the options make an attribute of the
\* same column.
LEMMA AttributeChanged ==
  ASSUME NEW r, NEW a \in AttrOf(r)
  PROVE  /\ [a EXCEPT !.dropped = TRUE] \in AttrOf(r)
         /\ [a EXCEPT !.dropped = FALSE, !.options = {}] \in AttrOf(r)
         /\ \A o \in SUBSET (NumberOptions \cup {"key", "table"}) : [a EXCEPT !.options = o] \in AttrOf(r)
<1>1. PICK k \in DOMAIN Visible(r) : a \in Attr(r, k)
  BY DEF AttrOf
<1>2. [a EXCEPT !.dropped = TRUE] \in Attr(r, k)
  BY <1>1 DEF Attr
<1>3. [a EXCEPT !.dropped = FALSE, !.options = {}] \in Attr(r, k)
  BY <1>1 DEF Attr
<1>4. ASSUME NEW o \in SUBSET (NumberOptions \cup {"key", "table"}) PROVE [a EXCEPT !.options = o] \in Attr(r, k)
  BY <1>1 DEF Attr
<1> QED BY <1>2, <1>3, <1>4 DEF AttrOf

\* One entry of a sequence changes.
LEMMA EntryChanged ==
  ASSUME NEW S, NEW s \in Seq(S), NEW i \in DOMAIN s, NEW x \in S
  PROVE  [s EXCEPT ![i] = x] \in Seq(S) /\ Append(s, x) \in Seq(S)
OBVIOUS

LEMMA CatalogImport ==
  ASSUME CatalogInv, NEW schema \in DOMAIN Remote, NEW case, NEW list_type, NEW list, NEW readonly,
         db2ImportForeignSchema(schema, case, list_type, list, readonly)
  PROVE  CatalogInv'
<1> DEFINE found == getForeignTableList(schema, list_type, list)
           made == {t \in found : IsImportable(fold_case(t.name, case), list_type, FoldedList(list, case))}
           names == {fold_case(t.name, case) : t \in made}
           pick(n) == CHOOSE t \in made : fold_case(t.name, case) = n
           new == [n \in names |-> generateForeignTableCreate(schema, pick(n), case, readonly)]
<1>1. desc' = desc
  BY DEF db2ImportForeignSchema
<1>2. CASE tables' = tables
  BY <1>1, <1>2 DEF CatalogInv, ForeignTable, db2GetFdwState
<1>3. CASE tables' # tables
  <2>1. names \cap DOMAIN tables = {} /\ tables' = [n \in names \cup DOMAIN tables |-> IF n \in names THEN new[n] ELSE tables[n]]
    BY <1>3 DEF db2ImportForeignSchema
  <2>2. ASSUME NEW n \in names
        PROVE  /\ new[n] = [schema |-> new[n].schema, table |-> new[n].table, readonly |-> new[n].readonly, attrs |-> new[n].attrs]
               /\ ForeignTable(new[n])
    <3> DEFINE t == pick(n)
    <3>1. t \in made
      <4>1. \E u \in made : fold_case(u.name, case) = n
        OBVIOUS
      <4> HIDE DEF made
      <4> QED BY <4>1
    <3>2. t \in Remote[schema] /\ DB2Table(t)
      BY <3>1 DEF getForeignTableList, DB2Table
    <3> HIDE DEF t
    <3>3. DOMAIN Visible(t) = 1 .. Len(Visible(t)) /\ Len(Visible(t)) \in Nat
      BY <3>2, VisibleColumns
    <3> DEFINE attrs == [i \in DOMAIN Visible(t) |-> Attribute(Visible(t)[i], case)]
    <3>4. attrs \in Seq(AttrOf(t))
      <4>1. \A i \in DOMAIN Visible(t) : Attribute(Visible(t)[i], case) \in AttrOf(t)
        BY <3>2, AttributeDeclares
      <4>2. attrs \in [1 .. Len(Visible(t)) -> AttrOf(t)]
        BY <3>3, <4>1
      <4> HIDE DEF attrs
      <4> QED BY <3>3, <4>2
    <3>5. new[n] = [schema |-> schema, table |-> t.name, readonly |-> readonly, attrs |-> attrs]
      BY DEF generateForeignTableCreate, t
    <3> HIDE DEF attrs, new
    <3> QED BY <3>2, <3>4, <3>5 DEF ForeignTable
  <2> HIDE DEF names, new
  <2>3. ASSUME NEW n \in DOMAIN tables'
        PROVE  /\ tables'[n] = [schema |-> tables'[n].schema, table |-> tables'[n].table, readonly |-> tables'[n].readonly,
                                attrs |-> tables'[n].attrs]
               /\ ForeignTable(tables'[n])
    <3>1. CASE n \in names
      <4>1. tables'[n] = new[n]
        BY <2>1, <3>1
      <4> QED BY <2>2, <3>1, <4>1
    <3>2. CASE n \notin names
      <4>1. n \in DOMAIN tables /\ tables'[n] = tables[n]
        BY <2>1, <3>2
      <4> QED BY <4>1 DEF CatalogInv
    <3> QED BY <3>1, <3>2
  <2>4. ASSUME NEW n \in DOMAIN desc' PROVE n \in DOMAIN tables' /\ desc'[n] = db2GetFdwState(tables'[n])
    <3>1. n \in DOMAIN tables /\ desc[n] = db2GetFdwState(tables[n])
      BY <1>1, <2>4 DEF CatalogInv
    <3>2. n \in DOMAIN tables' /\ tables'[n] = tables[n]
      BY <2>1, <3>1
    <3> QED BY <1>1, <3>1, <3>2
  <2> QED BY <2>3, <2>4 DEF CatalogInv, ForeignTable, db2GetFdwState
<1> QED BY <1>2, <1>3

LEMMA CatalogNext ==
  ASSUME CatalogInv, TableNext
  PROVE  CatalogInv'
<1>1. ASSUME NEW options, CreateUserMapping(options) PROVE CatalogInv'
  <2>1. UNCHANGED <<tables, desc>>
    BY <1>1 DEF CreateUserMapping
  <2> QED BY <2>1 DEF CatalogInv, ForeignTable, db2GetFdwState
<1>2. ASSUME NEW n \in DOMAIN tables, Describe(n) PROVE CatalogInv'
  <2>1. /\ tables' = tables
        /\ desc' = [m \in {n} \cup DOMAIN desc |-> IF m = n THEN db2GetFdwState(tables[n]) ELSE desc[m]]
    BY <1>2 DEF Describe
  <2>2. \A m \in DOMAIN desc' : m \in DOMAIN tables /\ desc'[m] = db2GetFdwState(tables[m])
    BY <2>1 DEF CatalogInv
  <2> QED BY <2>1, <2>2 DEF CatalogInv, ForeignTable, db2GetFdwState
<1>3. ASSUME NEW n \in DOMAIN tables PROVE ForeignTable(tables[n]) /\ tables[n].attrs \in Seq(AttrOf(RemoteTable(tables[n])))
  BY RemoteOf DEF CatalogInv
<1>4. ASSUME NEW n \in DOMAIN tables, NEW i, DropColumn(n, i) PROVE CatalogInv'
  <2> DEFINE attrs == tables[n].attrs
             R == RemoteTable(tables[n])
  <2>1. i \in DOMAIN attrs /\ Alter(n, [attrs EXCEPT ![i].dropped = TRUE])
    BY <1>4 DEF DropColumn, Live
  <2>2. attrs \in Seq(AttrOf(R)) /\ attrs[i] \in AttrOf(R)
    BY <1>3, <2>1
  <2>3. [attrs EXCEPT ![i] = [attrs[i] EXCEPT !.dropped = TRUE]] \in Seq(AttrOf(R))
    <3> HIDE DEF attrs, R
    <3> QED BY <2>1, <2>2, AttributeChanged, EntryChanged
  <2> QED BY <2>1, <2>3, CatalogAltered
<1>5. ASSUME NEW n \in DOMAIN tables, NEW i, AddColumn(n, i) PROVE CatalogInv'
  <2> DEFINE attrs == tables[n].attrs
             R == RemoteTable(tables[n])
  <2>1. i \in DOMAIN attrs /\ Alter(n, Append(attrs, [attrs[i] EXCEPT !.dropped = FALSE, !.options = {}]))
    BY <1>5 DEF AddColumn
  <2>2. attrs \in Seq(AttrOf(R)) /\ attrs[i] \in AttrOf(R)
    BY <1>3, <2>1
  <2>3. Append(attrs, [attrs[i] EXCEPT !.dropped = FALSE, !.options = {}]) \in Seq(AttrOf(R))
    <3> HIDE DEF attrs, R
    <3> QED BY <2>1, <2>2, AttributeChanged, EntryChanged
  <2> QED BY <2>1, <2>3, CatalogAltered
<1>6. ASSUME NEW n \in DOMAIN tables, NEW i, NEW options \in {{"key"}, {"table"}, NumberOptions, NumberOptions \cup {"key"}},
             SetOptions(n, i, options)
      PROVE  CatalogInv'
  <2> DEFINE attrs == tables[n].attrs
             R == RemoteTable(tables[n])
  <2>1. i \in DOMAIN attrs /\ Alter(n, [attrs EXCEPT ![i].options = options])
    BY <1>6 DEF SetOptions, Live
  <2>2. attrs \in Seq(AttrOf(R)) /\ attrs[i] \in AttrOf(R)
    BY <1>3, <2>1
  <2>3. options \in SUBSET (NumberOptions \cup {"key", "table"})
    OBVIOUS
  <2>4. [attrs EXCEPT ![i] = [attrs[i] EXCEPT !.options = options]] \in Seq(AttrOf(R))
    <3> HIDE DEF attrs, R
    <3> QED BY <2>1, <2>2, <2>3, AttributeChanged, EntryChanged
  <2> QED BY <2>1, <2>4, CatalogAltered
<1> QED BY <1>1, <1>2, <1>4, <1>5, <1>6, CatalogImport DEF TableNext, isForeignSchema

\* Types are declared so that checkDataType accepts them.
LEMMA DeclaredTypes ==
  ASSUME NEW type, NEW scale \in Int,
         type \in {"SMALLINT", "INTEGER", "BIGINT", "BOOLEAN"} => scale = 0,
         type \notin {"BINARY", "VARBINARY", "LONGVARBINARY", "NUMERIC"}
  PROVE  checkDataType(type, scale, PgType(type))
<1>1. CASE type \in {"SMALLINT", "INTEGER", "BIGINT", "BOOLEAN"}
  BY <1>1 DEF checkDataType, PgType
<1>2. CASE type \in {"DATE", "TIME", "TIMESTAMP", "TIMESTAMPTZ"}
  BY <1>2 DEF checkDataType, PgType
<1>3. CASE type \in {"DECIMAL", "DECFLOAT", "REAL", "DOUBLE", "FLOAT"}
  BY <1>3 DEF checkDataType, PgType, NumberType
<1>4. CASE type \in {"CHAR", "VARCHAR", "XML", "BLOB"}
  BY <1>4 DEF checkDataType, PgType
<1>5. CASE type \notin {"SMALLINT", "INTEGER", "BIGINT", "BOOLEAN", "DATE", "TIME", "TIMESTAMP", "TIMESTAMPTZ",
                        "DECIMAL", "DECFLOAT", "REAL", "DOUBLE", "FLOAT", "CHAR", "VARCHAR", "XML", "BLOB"}
  <2>1. PgType(type) = "text"
    BY <1>5 DEF PgType
  <2> QED BY <1>5, <2>1 DEF checkDataType
<1> QED BY <1>1, <1>2, <1>3, <1>4, <1>5

LEMMA CatalogUsable ==
  ASSUME CatalogInv
  PROVE  ImportedIsUsable
<1> SUFFICES ASSUME NEW n \in DOMAIN tables, NEW i \in DOMAIN tables[n].attrs,
                    tables[n].attrs[i].column.type \notin {"BINARY", "VARBINARY", "LONGVARBINARY", "NUMERIC"}
             PROVE  checkDataType(tables[n].attrs[i].column.type, tables[n].attrs[i].column.scale, tables[n].attrs[i].pgtype)
  BY DEF ImportedIsUsable
<1> DEFINE t == tables[n]
           a == t.attrs[i]
           R == RemoteTable(t)
<1>1. ForeignTable(t) /\ DB2Table(R)
  BY RemoteOf DEF CatalogInv
<1>2. PICK k \in DOMAIN Visible(R) : a \in Attr(R, k)
  BY <1>1, DeclaredColumn
<1> DEFINE c == Visible(R)[k]
<1>3. c \in Column /\ \E j \in DOMAIN R.cols : c = R.cols[j]
  BY <1>1, VisibleColumns
<1>4. a.pgtype = PgType(TypeOf(c)) /\ a.column = Written(c)
  BY <1>2 DEF Attr
<1> HIDE DEF a, c, R, t
<1>5. a.column.type = TypeOf(c) /\ a.column.scale = c.scale /\ c.scale \in Int
  BY <1>3, <1>4, ColumnFields DEF Written
<1>6. c.type \in {"SMALLINT", "INTEGER", "BIGINT", "BOOLEAN"} => c.scale = 0
  <2>1. \A j \in DOMAIN R.cols : R.cols[j].type \in {"SMALLINT", "INTEGER", "BIGINT", "BOOLEAN"} => R.cols[j].scale = 0
    BY <1>1, RemoteAssumption DEF DB2Table
  <2> QED BY <1>3, <2>1
<1>7. TypeOf(c) \in {"SMALLINT", "INTEGER", "BIGINT", "BOOLEAN"} => c.scale = 0
  BY <1>6 DEF TypeOf
<1>8. checkDataType(a.column.type, a.column.scale, a.pgtype)
  BY <1>4, <1>5, <1>7, DeclaredTypes DEF a, t
<1> QED BY <1>8 DEF a, t

----------------------------------------------------------------------------
(* What was imported.                                                      *)

LEMMA ImportedNext ==
  ASSUME ImportedAsListed, TableNext
  PROVE  ImportedAsListed'
<1> DEFINE shown(s, case) == {fold_case(t.name, case) : t \in Remote[s]}
           wanted(t, list_type, list) ==
             CASE list_type = "ALL" -> TRUE
               [] list_type = "LIMIT TO" -> Listed(t.name, list)
               [] list_type = "EXCEPT" -> ~Listed(t.name, list)
<1>1. CASE UNCHANGED lastImport /\ (crashed => crashed')
  BY <1>1 DEF ImportedAsListed
<1>2. ASSUME NEW schema \in DOMAIN Remote, NEW case, NEW list_type \in {"ALL", "LIMIT TO", "EXCEPT"}, NEW list \in SUBSET Name, NEW readonly,
             db2ImportForeignSchema(schema, case, list_type, list, readonly)
      PROVE  ImportedAsListed'
  <2> DEFINE found == getForeignTableList(schema, list_type, list)
             made == {t \in found : IsImportable(fold_case(t.name, case), list_type, FoldedList(list, case))}
  <2>1. CASE \E t \in found : Overruns(schema, t)
    <3>1. crashed'
      BY <1>2, <2>1 DEF db2ImportForeignSchema
    <3> QED BY <3>1 DEF ImportedAsListed
  <2>2. CASE ~(\E t \in found : Overruns(schema, t))
    <3>1. lastImport' = [schema |-> schema, case |-> case, list_type |-> list_type, list |-> list, from |-> made]
      BY <1>2, <2>2 DEF db2ImportForeignSchema
    <3>2. ASSUME case = "lower" \/ list \subseteq shown(schema, case)
          PROVE  made = {t \in Remote[schema] : t.type \in {"T", "V"} /\ wanted(t, list_type, list)}
      <4>1. ASSUME NEW t \in Remote[schema], t.type \in {"T", "V"}, wanted(t, list_type, list) PROVE t \in made
        <5>1. t \in found
          BY <4>1 DEF getForeignTableList
        <5>2. t.name \in Name
          BY RemoteAssumption
        <5>3. CASE list_type = "ALL"
          BY <5>1, <5>3 DEF IsImportable
        <5>4. CASE list_type = "LIMIT TO"
          <6>1. PICK n \in list : Upper(n) = Upper(t.name)
            BY <4>1, <5>4 DEF Listed
          <6>2. fold_case(n, case) = fold_case(t.name, case)
            <7>1. n \in Name
              OBVIOUS
            <7>2. CASE case = "lower"
              BY <5>2, <6>1, <7>1, <7>2, Folding
            <7>3. CASE case # "lower"
              <8>1. PICK u \in Remote[schema] : n = fold_case(u.name, case)
                BY <3>2, <7>3
              <8>2. u.name \in Name /\ DB2Table(u)
                BY RemoteAssumption DEF DB2Table
              <8>3. Upper(u.name) = Upper(t.name) /\ Visible(u) # <<>>
                BY <6>1, <8>1, <8>2, Folding, VisibleColumns
              <8>4. u = t
                BY <2>2, <5>1, <8>3 DEF Overruns
              <8> QED BY <8>1, <8>2, <8>4, Folding
            <7> QED BY <7>2, <7>3
          <6>3. fold_case(t.name, case) \in FoldedList(list, case)
            BY <6>2 DEF FoldedList
          <6> QED BY <5>1, <5>4, <6>3 DEF IsImportable
        <5>5. CASE list_type = "EXCEPT"
          <6>1. ASSUME NEW n \in list, fold_case(t.name, case) = fold_case(n, case) PROVE FALSE
            <7>1. Upper(n) = Upper(t.name)
              <8>1. n \in Name
                OBVIOUS
              <8>2. Upper(fold_case(n, case)) = Upper(n) /\ Upper(fold_case(t.name, case)) = Upper(t.name)
                BY <5>2, <8>1, Folding
              <8> QED BY <6>1, <8>2
            <7> QED BY <4>1, <5>5, <7>1 DEF Listed
          <6>2. fold_case(t.name, case) \notin FoldedList(list, case)
            BY <6>1 DEF FoldedList
          <6> QED BY <5>1, <5>5, <6>2 DEF IsImportable
        <5> QED BY <5>3, <5>4, <5>5
      <4>2. ASSUME NEW t \in made PROVE t \in Remote[schema] /\ t.type \in {"T", "V"} /\ wanted(t, list_type, list)
        BY DEF getForeignTableList
      <4> QED BY <4>1, <4>2 DEF getForeignTableList
    <3> DEFINE i == lastImport'
    <3>3. ImportedAsListed' <=>
            (i # NoImport /\ ~crashed' /\ (i.case = "lower" \/ i.list \subseteq shown(i.schema, i.case)) =>
               i.from = {t \in Remote[i.schema] : t.type \in {"T", "V"} /\ wanted(t, i.list_type, i.list)})
      BY DEF ImportedAsListed
    <3> HIDE DEF made, shown, wanted, i
    <3>4. i = [schema |-> schema, case |-> case, list_type |-> list_type, list |-> list, from |-> made]
      BY <3>1 DEF i
    <3>5. i.schema = schema /\ i.case = case /\ i.list_type = list_type /\ i.list = list /\ i.from = made
      BY <3>4
    <3>6. i.case = "lower" \/ i.list \subseteq shown(i.schema, i.case) =>
            i.from = {t \in Remote[i.schema] : t.type \in {"T", "V"} /\ wanted(t, i.list_type, i.list)}
      BY <3>2, <3>5
    <3> QED BY <3>3, <3>6
  <2> QED BY <2>1, <2>2
<1>3. ASSUME NEW n, NEW i, NEW options, DropColumn(n, i) \/ AddColumn(n, i) \/ SetOptions(n, i, options)
      PROVE  UNCHANGED lastImport /\ (crashed => crashed')
  BY <1>3 DEF DropColumn, AddColumn, SetOptions, Alter
<1>4. ASSUME NEW n, NEW options, CreateUserMapping(options) \/ Describe(n)
      PROVE  UNCHANGED lastImport /\ (crashed => crashed')
  BY <1>4 DEF CreateUserMapping, Describe
<1>5. {} \in SUBSET Name /\ \A list \in Lists : list \in SUBSET Name
  BY ListsAssumption
<1> QED BY <1>1, <1>2, <1>3, <1>4, <1>5 DEF TableNext, isForeignSchema

----------------------------------------------------------------------------
(* Descriptions.                                                           *)

\* The options describe a column as DB2 does, though an option is at least 1.
LEMMA WrittenDescribes ==
  ASSUME NEW r, DB2Table(r), NEW k \in DOMAIN Visible(r), NEW name
  PROVE  LET c == Visible(r)[k] IN Entry(name, TypeOf(c), Written(c)) = Entry(name, TypeOf(c), c)
<1> DEFINE c == Visible(r)[k]
           w == Written(c)
<1>1. c \in Column
  BY VisibleColumns
<1>2. c.type \in {"NUMERIC", "DECIMAL", "DATE", "TIME", "TIMESTAMP", "TIMESTAMPTZ"} => c.size > 0
  <2>1. PICK j \in DOMAIN r.cols : c = r.cols[j]
    BY VisibleColumns
  <2>2. r.cols[j].type \in {"NUMERIC", "DECIMAL", "DATE", "TIME", "TIMESTAMP", "TIMESTAMPTZ"} => r.cols[j].size > 0
    BY RemoteAssumption DEF DB2Table
  <2> HIDE DEF c
  <2> QED BY <2>1, <2>2
<1> HIDE DEF c
<1>3. /\ c.size \in Nat /\ c.scale \in Int
      /\ w.size = Max({1, c.size}) /\ w.scale = c.scale /\ w.chars = c.chars /\ w.bytes = c.bytes
  BY <1>1, ColumnFields DEF Written
<1> HIDE DEF w
<1>4. c.size > 0 => w.size = c.size
  BY <1>3, MaxOfTwo
<1>5. TypeOf(c) \in {"NUMERIC", "DECIMAL", "DATE", "TIME", "TIMESTAMP", "TIMESTAMPTZ"} => w.size = c.size
  BY <1>2, <1>4 DEF TypeOf
<1>6. \A type : (type \in {"NUMERIC", "DECIMAL", "DATE", "TIME", "TIMESTAMP", "TIMESTAMPTZ"} => w.size = c.size)
                  => ValSize(type, w) = ValSize(type, c)
  <2> SUFFICES ASSUME NEW type, type \in {"NUMERIC", "DECIMAL", "DATE", "TIME", "TIMESTAMP", "TIMESTAMPTZ"} => w.size = c.size
               PROVE  ValSize(type, w) = ValSize(type, c)
    OBVIOUS
  <2>1. CASE type \in {"NUMERIC", "DECIMAL", "DATE", "TIME", "TIMESTAMP", "TIMESTAMPTZ"}
    BY <1>3, <2>1 DEF ValSize
  <2>2. CASE type \notin {"NUMERIC", "DECIMAL", "DATE", "TIME", "TIMESTAMP", "TIMESTAMPTZ"}
    BY <1>3, <2>2 DEF ValSize
  <2> QED BY <2>1, <2>2
<1>7. Entry(name, TypeOf(c), w) = Entry(name, TypeOf(c), c)
  BY <1>3, <1>5, <1>6 DEF Entry
<1> QED BY <1>7 DEF w, c

\* An attribute's entry has its number.
LEMMA PgSideFields ==
  ASSUME NEW name, NEW type, NEW c, NEW a, NEW i
  PROVE  /\ PgSide(Entry(name, type, c), a, i).pgattnum = i
         /\ Entry(name, type, c).pgattnum = 0 /\ Entry(name, type, c).colName = name
BY DEF PgSide, Entry

\* The attribute of a column, and its column.
LEMMA AttributeColumn ==
  ASSUME NEW t, ForeignTable(t), NEW i \in DOMAIN t.attrs, NEW k \in DOMAIN Visible(RemoteTable(t)),
         Visible(RemoteTable(t))[k].name = t.attrs[i].column.name
  PROVE  t.attrs[i] \in Attr(RemoteTable(t), k)
<1> DEFINE R == RemoteTable(t)
<1>1. PICK l \in DOMAIN Visible(R) : t.attrs[i] \in Attr(R, l)
  BY DeclaredColumn
<1>2. t.attrs[i].column = Written(Visible(R)[l])
  BY <1>1 DEF Attr
<1>3. Visible(R)[l] \in Column /\ DB2Table(R)
  BY RemoteOf, VisibleColumns
<1>4. t.attrs[i].column.name = Visible(R)[l].name
  BY <1>2, <1>3, ColumnFields DEF Written
<1>5. k = l
  BY <1>3, <1>4, VisibleColumns
<1> QED BY <1>1, <1>5

\* Described from the options.
LEMMA DescribedFromOptions ==
  ASSUME NEW t, ForeignTable(t), NEW i \in DOMAIN t.attrs, ~t.attrs[i].dropped,
         NEW k \in DOMAIN Visible(RemoteTable(t)),
         Visible(RemoteTable(t))[k].name = t.attrs[i].column.name,
         Visible(RemoteTable(t))[k].name = Upper(Visible(RemoteTable(t))[k].name)
  PROVE  LET d == describeForeignTable(t)
             c == Visible(RemoteTable(t))[k]
         IN  \E x \in DOMAIN d :
               /\ \A y \in DOMAIN d : d[y].pgattnum = i <=> y = x
               /\ d[x] = PgSide(Entry(c.name, TypeOf(c), c), t.attrs[i], i)
<1> DEFINE R == RemoteTable(t)
           c == Visible(R)[k]
           d == describeForeignTable(t)
           L == {j \in DOMAIN t.attrs : ~t.attrs[j].dropped}
           live == Ascending(L)
<1>1. t.attrs \in Seq(AttrOf(R)) /\ DB2Table(R)
  BY RemoteOf
<1>2. PICK n \in Nat : DOMAIN t.attrs = 1 .. n
  BY <1>1
<1>3. L \in SUBSET Nat /\ IsFiniteSet(L) /\ L \subseteq 1 .. n /\ Cardinality(L) <= n
  <2>1. IsFiniteSet(1 .. n) /\ Cardinality(1 .. n) = n
    <3>1. 1 \in Int /\ n \in Int
      OBVIOUS
    <3>2. IsFiniteSet(1 .. n) /\ Cardinality(1 .. n) = IF 1 > n THEN 0 ELSE n - 1 + 1
      BY ONLY <3>1, FS_Interval
    <3> QED BY <3>2
  <2>2. L \in SUBSET (1 .. n)
    BY <1>2
  <2> HIDE DEF L
  <2>3. IsFiniteSet(L) /\ Cardinality(L) <= Cardinality(1 .. n)
    BY <2>1, <2>2, FS_Subset
  <2> QED BY <2>1, <2>2, <2>3
<1>4. d = [j \in 1 .. n |->
             IF j \notin DOMAIN live THEN NoEntry
             ELSE PgSide(Entry(Upper(t.attrs[live[j]].name), t.attrs[live[j]].column.type, t.attrs[live[j]].column), t.attrs[live[j]], live[j])]
  BY <1>2 DEF describeForeignTable
<1> HIDE DEF L
<1>5. /\ live \in Seq(L) /\ Cardinality(L) \in Nat /\ DOMAIN live = 1 .. Cardinality(L)
      /\ \A x, y \in 1 .. Cardinality(L) : x < y => live[x] < live[y]
      /\ \A x \in L : \E y \in 1 .. Cardinality(L) : live[y] = x
  BY <1>3, AscendingList
<1>6. i \in L /\ i \in Nat /\ i # 0
  BY <1>2, <1>3 DEF L
<1> HIDE DEF live, d
<1>7. PICK x \in 1 .. Cardinality(L) : live[x] = i
  BY <1>5, <1>6
<1>8. x \in DOMAIN d /\ x \in DOMAIN live
  BY <1>3, <1>4, <1>5
<1>9. ASSUME NEW y \in DOMAIN d, d[y].pgattnum = i PROVE y = x
  <2>1. y \in 1 .. n
    BY <1>4
  <2>2. CASE y \notin DOMAIN live
    <3>1. d[y] = NoEntry
      BY <1>4, <2>1, <2>2
    <3> QED BY <1>6, <1>9, <3>1 DEF NoEntry
  <2>3. CASE y \in DOMAIN live
    <3>1. d[y].pgattnum = live[y]
      BY <1>4, <2>1, <2>3, PgSideFields
    <3>2. live[y] = i /\ i \in Nat /\ y \in 1 .. Cardinality(L) /\ y \in Nat /\ x \in Nat
      BY <1>5, <1>6, <1>9, <2>3, <3>1
    <3> QED BY <1>5, <1>7, <3>2
  <2> QED BY <2>2, <2>3
<1>10. d[x] = PgSide(Entry(Upper(t.attrs[i].name), t.attrs[i].column.type, t.attrs[i].column), t.attrs[i], i)
  BY <1>4, <1>7, <1>8
<1>11. t.attrs[i] \in Attr(R, k)
  BY AttributeColumn
<1>12. Upper(t.attrs[i].name) = c.name /\ t.attrs[i].column = Written(c)
  BY <1>11 DEF Attr
<1>13. c \in Column
  BY <1>1, VisibleColumns
<1>14. t.attrs[i].column.type = TypeOf(c)
  BY <1>12, <1>13, ColumnFields DEF Written
<1>15. d[x] = PgSide(Entry(c.name, TypeOf(c), c), t.attrs[i], i)
  <2>1. Entry(c.name, TypeOf(c), Written(c)) = Entry(c.name, TypeOf(c), c)
    BY <1>1, WrittenDescribes
  <2> HIDE DEF c
  <2> QED BY <1>10, <1>12, <1>14, <2>1
<1>16. d[x].pgattnum = i
  BY <1>15, PgSideFields
<1> QED BY <1>8, <1>9, <1>15, <1>16 DEF d

\* Described by DB2.
LEMMA DescribedByDB2 ==
  ASSUME NEW t, ForeignTable(t), NEW i \in DOMAIN t.attrs, ~t.attrs[i].dropped,
         \A j \in DOMAIN t.attrs : Upper(t.attrs[j].name) = Upper(t.attrs[i].name) => j = i \/ t.attrs[j].dropped,
         NEW k \in DOMAIN Visible(RemoteTable(t)),
         Visible(RemoteTable(t))[k].name = t.attrs[i].column.name,
         Visible(RemoteTable(t))[k].name = Upper(Visible(RemoteTable(t))[k].name)
  PROVE  LET d == getColumnData(db2Describe(RemoteTable(t)), t)
             c == Visible(RemoteTable(t))[k]
         IN  \E x \in DOMAIN d :
               /\ \A y \in DOMAIN d : d[y].pgattnum = i <=> y = x
               /\ d[x] = PgSide(Entry(c.name, TypeOf(c), c), t.attrs[i], i)
<1> DEFINE R == RemoteTable(t)
           V == Visible(R)
           cols == db2Describe(R)
           d == getColumnData(cols, t)
           M(j) == Matching(cols, t, j)
<1>1. t.attrs \in Seq(AttrOf(R)) /\ DB2Table(R)
  BY RemoteOf
<1>2. PICK n \in Nat : DOMAIN t.attrs = 1 .. n
  BY <1>1
<1>3. /\ DOMAIN V = DOMAIN cols /\ k \in DOMAIN V
      /\ \A j \in DOMAIN V : cols[j] = Entry(V[j].name, TypeOf(V[j]), V[j]) /\ cols[j].colName = V[j].name /\ cols[j].pgattnum = 0
      /\ \A j, l \in DOMAIN V : V[j].name = V[l].name => j = l
  <2>1. \A j \in DOMAIN V : cols[j] = Entry(V[j].name, TypeOf(V[j]), V[j])
    BY DEF db2Describe
  <2>2. DOMAIN V = DOMAIN cols
    BY DEF db2Describe
  <2>3. \A j \in DOMAIN V : Entry(V[j].name, TypeOf(V[j]), V[j]).colName = V[j].name /\ Entry(V[j].name, TypeOf(V[j]), V[j]).pgattnum = 0
    BY PgSideFields
  <2> QED BY <1>1, <2>1, <2>2, <2>3, VisibleColumns
<1>4. t.attrs[i] \in Attr(R, k)
  BY AttributeColumn
<1>5. Upper(t.attrs[i].name) = V[k].name
  BY <1>4 DEF Attr
<1> HIDE DEF V, cols
<1>6. DOMAIN d = DOMAIN cols /\ \A j \in DOMAIN cols : d[j] = IF M(j) = {} THEN cols[j] ELSE PgSide(cols[j], t.attrs[Max(M(j))], Max(M(j)))
  BY DEF getColumnData
<1> HIDE DEF d
<1>7. \A j \in DOMAIN V : M(j) = {x \in DOMAIN t.attrs : ~t.attrs[x].dropped /\ Upper(t.attrs[x].name) = V[j].name}
  BY <1>3 DEF Matching
<1> HIDE DEF M
<1>8. M(k) = {i} /\ i \in Nat /\ i # 0
  BY <1>2, <1>3, <1>5, <1>7
<1>9. Max({i}) = i
  BY <1>8 DEF Max
<1>10. d[k] = PgSide(Entry(V[k].name, TypeOf(V[k]), V[k]), t.attrs[i], i)
  <2>1. k \in DOMAIN cols /\ M(k) # {}
    BY <1>3, <1>8
  <2>2. d[k] = PgSide(cols[k], t.attrs[Max(M(k))], Max(M(k)))
    BY <1>6, <2>1
  <2>3. Max(M(k)) = i
    BY <1>8, <1>9
  <2>4. cols[k] = Entry(V[k].name, TypeOf(V[k]), V[k])
    BY <1>3
  <2> QED BY <2>2, <2>3, <2>4
<1>11. ASSUME NEW y \in DOMAIN d, d[y].pgattnum = i PROVE y = k
  <2>1. y \in DOMAIN V
    BY <1>3, <1>6
  <2>2. CASE M(y) = {}
    <3>1. d[y].pgattnum = 0
      BY <1>3, <1>6, <2>1, <2>2
    <3> QED BY <1>8, <1>11, <3>1
  <2>3. CASE M(y) # {}
    <3>1. M(y) \in SUBSET (1 .. n)
      BY <1>2, <1>7, <2>1
    <3>2. M(y) \in SUBSET Nat /\ IsFiniteSet(M(y))
      <4>1. IsFiniteSet(1 .. n)
        <5>1. 1 \in Int /\ n \in Int
          OBVIOUS
        <5> QED BY ONLY <5>1, FS_Interval
      <4>2. IsFiniteSet(M(y))
        BY <3>1, <4>1, FS_Subset
      <4> QED BY <3>1, <4>2
    <3>3. Max(M(y)) \in M(y)
      BY <2>3, <3>2, MaxOfNumbers
    <3>4. d[y] = PgSide(Entry(V[y].name, TypeOf(V[y]), V[y]), t.attrs[Max(M(y))], Max(M(y)))
      BY <1>3, <1>6, <2>1, <2>3
    <3>5. d[y].pgattnum = Max(M(y))
      BY <3>4, PgSideFields
    <3>6. i \in M(y)
      BY <1>11, <3>3, <3>5
    <3>7. V[y].name = V[k].name
      BY <1>5, <1>7, <2>1, <3>6
    <3> QED BY <1>3, <2>1, <3>7
  <2> QED BY <2>2, <2>3
<1>12. d[k].pgattnum = i /\ k \in DOMAIN d
  BY <1>3, <1>6, <1>10, PgSideFields
<1> QED BY <1>10, <1>11, <1>12 DEF d, cols, V

LEMMA CatalogDescribed ==
  ASSUME CatalogInv
  PROVE  ColumnsDescribed
<1> SUFFICES ASSUME NEW n \in DOMAIN desc,
                    NEW i \in DOMAIN tables[n].attrs, NEW c \in ToSet(Visible(RemoteTable(tables[n]))),
                    ~tables[n].attrs[i].dropped,
                    \A j \in DOMAIN tables[n].attrs :
                      Upper(tables[n].attrs[j].name) = Upper(tables[n].attrs[i].name) => j = i \/ tables[n].attrs[j].dropped,
                    c.name = tables[n].attrs[i].column.name, c.name = Upper(c.name)
             PROVE  LET mine == {k \in DOMAIN desc[n] : desc[n][k].pgattnum = i}
                    IN  /\ Cardinality(mine) = 1
                        /\ \A k \in mine : desc[n][k] = PgSide(Entry(c.name, TypeOf(c), c), tables[n].attrs[i], i)
  BY DEF ColumnsDescribed
<1> DEFINE t == tables[n]
           d == desc[n]
<1>1. ForeignTable(t) /\ d = db2GetFdwState(t)
  BY DEF CatalogInv
<1>2. PICK k \in DOMAIN Visible(RemoteTable(t)) : c = Visible(RemoteTable(t))[k]
  BY DEF ToSet
<1>3. \E x \in DOMAIN d :
        /\ \A y \in DOMAIN d : d[y].pgattnum = i <=> y = x
        /\ d[x] = PgSide(Entry(c.name, TypeOf(c), c), t.attrs[i], i)
  <2>1. CASE Complete(t)
    <3>1. d = describeForeignTable(t)
      BY <1>1, <2>1 DEF db2GetFdwState
    <3> HIDE DEF t, d
    <3> QED BY <1>1, <1>2, <3>1, DescribedFromOptions DEF t
  <2>2. CASE ~Complete(t)
    <3>1. d = getColumnData(db2Describe(RemoteTable(t)), t)
      BY <1>1, <2>2 DEF db2GetFdwState
    <3> HIDE DEF t, d
    <3> QED BY <1>1, <1>2, <3>1, DescribedByDB2 DEF t
  <2> QED BY <2>1, <2>2
<1>4. PICK x \in DOMAIN d :
        /\ \A y \in DOMAIN d : d[y].pgattnum = i <=> y = x
        /\ d[x] = PgSide(Entry(c.name, TypeOf(c), c), t.attrs[i], i)
  BY <1>3
<1>5. {y \in DOMAIN d : d[y].pgattnum = i} = {x}
  BY <1>4
<1>6. Cardinality({x}) = 1
  BY FS_Singleton
<1> HIDE DEF t, d
<1>7. /\ Cardinality({y \in DOMAIN d : d[y].pgattnum = i}) = 1
      /\ \A z \in {y \in DOMAIN d : d[y].pgattnum = i} : d[z] = PgSide(Entry(c.name, TypeOf(c), c), t.attrs[i], i)
  BY <1>4, <1>5, <1>6
<1> QED BY <1>7 DEF t, d

----------------------------------------------------------------------------
LEMMA MinOfTwo ==
  ASSUME NEW a \in Int, NEW b \in Int
  PROVE  Min({a, b}) = IF a <= b THEN a ELSE b
<1> DEFINE m == IF a <= b THEN a ELSE b
<1>1. m \in {a, b} /\ \A y \in {a, b} : m <= y
  OBVIOUS
<1>2. \A x \in {a, b} : (\A y \in {a, b} : x <= y) => x = m
  OBVIOUS
<1> QED BY <1>1, <1>2 DEF Min

----------------------------------------------------------------------------
(* The data of a plan.                                                    *)

\* The m constants of the k-th of many records: where they are.
LEMMA PlaceOf ==
  ASSUME NEW m \in {8, 17}, NEW k \in Nat, k >= 1, NEW i \in 1 .. m
  PROVE  /\ (k - 1) * m + i \in Nat /\ (k - 1) * m + i >= 1
         /\ ((((k - 1) * m + i) - 1) \div m) + 1 = k
         /\ ((((k - 1) * m + i) - 1) % m) + 1 = i
<1>1. CASE m = 8
  <2>1. k - 1 \in Nat /\ i \in 1 .. 8
    BY <1>1
  <2> QED BY <1>1, <2>1
<1>2. CASE m = 17
  <2>1. k - 1 \in Nat /\ i \in 1 .. 17
    BY <1>2
  <2> QED BY <1>2, <2>1
<1> QED BY <1>1, <1>2

LEMMA PlaceTaken ==
  ASSUME NEW m \in {8, 17}, NEW n \in Nat, NEW x \in 1 .. (n * m)
  PROVE  \E k \in 1 .. n, i \in 1 .. m : x = (k - 1) * m + i
<1> DEFINE k == ((x - 1) \div m) + 1
           i == ((x - 1) % m) + 1
<1>1. CASE m = 8
  <2>1. k \in 1 .. n /\ i \in 1 .. 8 /\ x = (k - 1) * 8 + i
    BY <1>1
  <2> HIDE DEF k, i
  <2> QED BY <1>1, <2>1
<1>2. CASE m = 17
  <2>1. k \in 1 .. n /\ i \in 1 .. 17 /\ x = (k - 1) * 17 + i
    BY <1>2
  <2> HIDE DEF k, i
  <2> QED BY <1>2, <2>1
<1> QED BY <1>1, <1>2

LEMMA PlaceBelow ==
  ASSUME NEW m \in {8, 17}, NEW n \in Nat, NEW k \in 1 .. n, NEW i \in 1 .. m
  PROVE  (k - 1) * m + i \in 1 .. (n * m)
<1>1. CASE m = 8
  BY <1>1
<1>2. CASE m = 17
  BY <1>2
<1> QED BY <1>1, <1>2

LEMMA FunctionIsSeq ==
  ASSUME NEW T, NEW l \in Nat, NEW s \in [1 .. l -> T]
  PROVE  s \in Seq(T) /\ Len(s) = l
OBVIOUS

\* A list is n pieces of length m, one after the other.
Laid(list, seqs, n, m) ==
  /\ Len(list) = n * m
  /\ \A k \in 1 .. n, i \in 1 .. m : list[(k - 1) * m + i] = seqs[k][i]

\* What is flattened after each piece.
Joined(g, seqs, n, m) ==
  /\ \A j \in 1 .. n : g[j] = IF j = 1 THEN seqs[j] ELSE g[j - 1] \o seqs[j]
  /\ \A j \in 1 .. n : Len(g[j]) = j * m
  /\ \A j \in 1 .. n : \A k \in 1 .. j, i \in 1 .. m : g[j][(k - 1) * m + i] = seqs[k][i]

\* Pieces of one length, one after the other.
LEMMA FlattenedFits ==
  ASSUME NEW T, NEW m \in {8, 17}, NEW n \in Nat, NEW seqs,
         \A k \in 1 .. n : seqs[k] \in Seq(T) /\ Len(seqs[k]) = m
  PROVE  \E g \in [1 .. n -> Seq(T)] : Joined(g, seqs, n, m)
<1> DEFINE e(x) == seqs[((x - 1) \div m) + 1][((x - 1) % m) + 1]
           g == [j \in 1 .. n |-> [x \in 1 .. (j * m) |-> e(x)]]
<1>1. m \in Nat /\ \A j \in 1 .. n : j * m \in Nat
  OBVIOUS
<1>2. \A k \in 1 .. n, i \in 1 .. m : e((k - 1) * m + i) = seqs[k][i] /\ seqs[k][i] \in T
  <2> SUFFICES ASSUME NEW k \in 1 .. n, NEW i \in 1 .. m
               PROVE  e((k - 1) * m + i) = seqs[k][i] /\ seqs[k][i] \in T
    OBVIOUS
  <2>1. ((((k - 1) * m + i) - 1) \div m) + 1 = k /\ ((((k - 1) * m + i) - 1) % m) + 1 = i
    BY PlaceOf
  <2>2. seqs[k] \in Seq(T) /\ i \in 1 .. Len(seqs[k])
    OBVIOUS
  <2>3. seqs[k][i] \in T
    BY <2>2, ElementOfSeq
  <2> QED BY <2>1, <2>3
<1>3. \A j \in 1 .. n : \A x \in 1 .. (j * m) : e(x) \in T
  <2> SUFFICES ASSUME NEW j \in 1 .. n, NEW x \in 1 .. (j * m) PROVE e(x) \in T
    OBVIOUS
  <2>1. PICK k \in 1 .. j, i \in 1 .. m : x = (k - 1) * m + i
    <3>1. j \in Nat /\ x \in 1 .. (j * m)
      OBVIOUS
    <3> HIDE DEF e
    <3> QED BY <3>1, PlaceTaken
  <2>2. k \in 1 .. n
    OBVIOUS
  <2> HIDE DEF e
  <2> QED BY <1>2, <2>1, <2>2
<1> HIDE DEF e
<1>4. \A j \in 1 .. n : /\ g[j] \in Seq(T) /\ Len(g[j]) = j * m /\ \A x \in 1 .. (j * m) : g[j][x] = e(x)
  <2> SUFFICES ASSUME NEW j \in 1 .. n
               PROVE  /\ g[j] \in Seq(T) /\ Len(g[j]) = j * m /\ \A x \in 1 .. (j * m) : g[j][x] = e(x)
    OBVIOUS
  <2>1. g[j] = [x \in 1 .. (j * m) |-> e(x)]
    OBVIOUS
  <2> HIDE DEF g
  <2>2. PICK l \in Nat : l = j * m
    BY <1>1
  <2>3. g[j] \in [1 .. l -> T]
    BY <1>3, <2>1, <2>2
  <2>4. g[j] \in Seq(T) /\ Len(g[j]) = l
    BY ONLY <2>3, l \in Nat, FunctionIsSeq
  <2> QED BY <2>1, <2>2, <2>4
<1>5. \A j \in 1 .. n, k \in 1 .. n, i \in 1 .. m : k <= j => g[j][(k - 1) * m + i] = seqs[k][i]
  <2> SUFFICES ASSUME NEW j \in 1 .. n, NEW k \in 1 .. n, NEW i \in 1 .. m, k <= j
               PROVE  g[j][(k - 1) * m + i] = seqs[k][i]
    OBVIOUS
  <2>1. (k - 1) * m + i \in 1 .. (j * m)
    <3>1. k \in 1 .. j /\ j \in Nat
      OBVIOUS
    <3> QED BY <3>1, PlaceBelow
  <2> HIDE DEF g
  <2> QED BY <1>2, <1>4, <2>1
<1>6. \A j \in 1 .. n : g[j] = IF j = 1 THEN seqs[j] ELSE g[j - 1] \o seqs[j]
  <2> SUFFICES ASSUME NEW j \in 1 .. n
               PROVE  g[j] = IF j = 1 THEN seqs[j] ELSE g[j - 1] \o seqs[j]
    OBVIOUS
  <2> HIDE DEF g
  <2>1. CASE j = 1
    <3>1. Len(g[1]) = m /\ g[1] \in Seq(T) /\ \A i \in 1 .. m : g[1][i] = seqs[1][i]
      <4>1. 1 \in 1 .. n /\ 1 * m = m /\ \A i \in 1 .. m : (1 - 1) * m + i = i
        BY <2>1
      <4>2. \A i \in 1 .. m : g[1][(1 - 1) * m + i] = seqs[1][i]
        BY <1>5, <4>1
      <4> QED BY <1>4, <4>1, <4>2
    <3>2. seqs[1] \in Seq(T) /\ Len(seqs[1]) = m
      BY <2>1
    <3>3. g[1] = seqs[1]
      BY <3>1, <3>2, SeqEqual
    <3> QED BY <2>1, <3>3
  <2>2. CASE j # 1
    <3> DEFINE u == g[j - 1] \o seqs[j]
               b == (j - 1) * m
    <3>1. j - 1 \in 1 .. n /\ j - 1 \in Nat
      BY <2>2
    <3>2. g[j - 1] \in Seq(T) /\ Len(g[j - 1]) = b /\ seqs[j] \in Seq(T) /\ Len(seqs[j]) = m
      BY <1>4, <3>1
    <3>3. b \in Nat /\ b + m = j * m
      <4>1. CASE m = 8
        BY <3>1, <4>1
      <4>2. CASE m = 17
        BY <3>1, <4>2
      <4> QED BY <4>1, <4>2
    <3>4. u \in Seq(T) /\ Len(u) = b + m
          /\ \A x \in 1 .. (b + m) : u[x] = IF x <= b THEN g[j - 1][x] ELSE seqs[j][x - b]
      <4> DEFINE s1 == g[j - 1]
                 s2 == seqs[j]
      <4>1. s1 \in Seq(T) /\ Len(s1) = b /\ s2 \in Seq(T) /\ Len(s2) = m
        BY <3>2
      <4>2. /\ s1 \o s2 \in Seq(T) /\ Len(s1 \o s2) = Len(s1) + Len(s2)
            /\ \A x \in 1 .. Len(s1) + Len(s2) :
                 (s1 \o s2)[x] = IF x <= Len(s1) THEN s1[x] ELSE s2[x - Len(s1)]
        <5> HIDE DEF s1, s2
        <5> QED BY <4>1, ConcatProperties
      <4> HIDE DEF s1, s2, b
      <4>3. /\ s1 \o s2 \in Seq(T) /\ Len(s1 \o s2) = b + m
            /\ \A x \in 1 .. (b + m) : (s1 \o s2)[x] = IF x <= b THEN s1[x] ELSE s2[x - b]
        BY <4>1, <4>2
      <4> QED BY <4>3 DEF s1, s2
    <3>5. g[j] \in Seq(T) /\ Len(g[j]) = b + m /\ \A x \in 1 .. (b + m) : g[j][x] = e(x)
      BY <1>4, <3>3
    <3>6. \A x \in 1 .. (b + m) : u[x] = g[j][x]
      <4> SUFFICES ASSUME NEW x \in 1 .. (b + m) PROVE u[x] = g[j][x]
        OBVIOUS
      <4>1. CASE x <= b
        <5>1. x \in 1 .. ((j - 1) * m)
          BY <3>3, <4>1
        <5>2. g[j - 1][x] = e(x)
          BY <1>4, <3>1, <5>1
        <5> QED BY <3>4, <3>5, <4>1, <5>2
      <4>2. CASE ~(x <= b)
        <5>1. x - b \in 1 .. m /\ x = (j - 1) * m + (x - b)
          BY <3>3, <4>2
        <5>2. e(x) = seqs[j][x - b]
          BY <1>2, <5>1
        <5> QED BY <3>4, <3>5, <4>2, <5>2
      <4> QED BY <4>1, <4>2
    <3> HIDE DEF u, b
    <3>7. u = g[j]
      BY <3>4, <3>5, <3>6, SeqEqual
    <3> QED BY <2>2, <3>7 DEF u
  <2> QED BY <2>1, <2>2
<1>7. g \in [1 .. n -> Seq(T)]
  BY <1>4
<1> HIDE DEF g
<1>8. \A j \in 1 .. n : /\ g[j] \in Seq(T) /\ Len(g[j]) = j * m
                        /\ \A k \in 1 .. j, i \in 1 .. m : g[j][(k - 1) * m + i] = seqs[k][i]
  <2> SUFFICES ASSUME NEW j \in 1 .. n, NEW k \in 1 .. j, NEW i \in 1 .. m
               PROVE  g[j][(k - 1) * m + i] = seqs[k][i]
    BY <1>4
  <2>1. k \in 1 .. n /\ k <= j
    OBVIOUS
  <2> QED BY <1>5, <2>1
<1>9. Joined(g, seqs, n, m)
  BY <1>6, <1>8 DEF Joined
<1> QED BY <1>7, <1>9

\* A list of records becomes the list of their fields.
LEMMA Flattened ==
  ASSUME NEW T, NEW m \in {8, 17}, NEW n \in Nat, NEW seqs \in Seq(Seq(T)), Len(seqs) = n,
         \A k \in 1 .. n : Len(seqs[k]) = m
  PROVE  FlattenSeq(seqs) \in Seq(T) /\ Laid(FlattenSeq(seqs), seqs, n, m)
<1>1. CASE n = 0
  <2>1. seqs = <<>> /\ FlattenSeq(seqs) = <<>>
    BY <1>1, EmptySeq DEF FlattenSeq
  <2>2. n * m = 0
    BY <1>1
  <2>3. <<>> \in Seq(T) /\ Len(<<>>) = 0
    BY EmptySeq
  <2>4. 1 .. n = {}
    BY <1>1
  <2> QED BY <2>1, <2>2, <2>3, <2>4 DEF Laid
<1>2. CASE n # 0
  <2> DEFINE f == CHOOSE f : f = [j \in 1 .. Len(seqs) |-> IF j = 1 THEN seqs[j] ELSE f[j - 1] \o seqs[j]]
  <2>1. FlattenSeq(seqs) = f[n]
    BY <1>2 DEF FlattenSeq
  <2>2. \A k \in 1 .. n : seqs[k] \in Seq(T) /\ Len(seqs[k]) = m
    OBVIOUS
  <2>3. PICK g \in [1 .. n -> Seq(T)] : Joined(g, seqs, n, m)
    BY <2>2, FlattenedFits
  <2>8. \A j \in 1 .. n : g[j] = IF j = 1 THEN seqs[j] ELSE g[j - 1] \o seqs[j]
    BY <2>3 DEF Joined
  <2>4. g = [j \in 1 .. n |-> IF j = 1 THEN seqs[j] ELSE g[j - 1] \o seqs[j]]
    BY <2>3, <2>8
  <2>5. f = [j \in 1 .. n |-> IF j = 1 THEN seqs[j] ELSE f[j - 1] \o seqs[j]]
    BY <2>4
  <2> HIDE DEF f
  <2>6. f = g
    <3>1. /\ \A j \in 1 .. n : f[j] = IF j = 1 THEN seqs[j] ELSE f[j - 1] \o seqs[j]
          /\ DOMAIN f = 1 .. n
      BY <2>5
    <3>2. f = [j \in 1 .. n |-> f[j]]
      BY <2>5
    <3> DEFINE D == {j \in 1 .. n : g[j] # f[j]}
    <3>3. D = {}
      <4> SUFFICES ASSUME D # {} PROVE FALSE
        OBVIOUS
      <4>1. D \in SUBSET Nat
        OBVIOUS
      <4>2. PICK l \in D : \A j \in D : l <= j
        BY <4>1, LeastNumber
      <4>3. l \in 1 .. n /\ g[l] # f[l] /\ l \in Nat
        OBVIOUS
      <4>4. l # 1
        BY <2>8, <3>1, <4>3
      <4>5. l - 1 \in 1 .. n /\ l - 1 \notin D
        BY <4>2, <4>3, <4>4
      <4>6. g[l - 1] = f[l - 1]
        BY <4>5
      <4>7. g[l] = g[l - 1] \o seqs[l]
        BY <2>8, <4>3, <4>4
      <4>8. f[l] = f[l - 1] \o seqs[l]
        BY <3>1, <4>3, <4>4
      <4> QED BY <4>3, <4>6, <4>7, <4>8
    <3>4. \A j \in 1 .. n : g[j] = f[j]
      BY <3>3
    <3> QED BY <2>3, <3>2, <3>4
  <2>7. n \in 1 .. n
    BY <1>2
  <2> QED BY <2>1, <2>3, <2>6, <2>7 DEF Joined, Laid
<1> QED BY <1>1, <1>2

----------------------------------------------------------------------------
(* Writing and reading.                                                    *)

RecordOf(r, fields) == r = [f \in ToSet(fields) |-> r[f]]
RecordsOf(list, n, fields) ==
  list = [k \in 1 .. n |-> list[k]] /\ \A k \in 1 .. n : RecordOf(list[k], fields)

\* A list of constants is the fields of n records.
Fields(consts, list, n, fields, m) ==
  /\ Len(consts) = n * m
  /\ \A k \in 1 .. n, i \in 1 .. m : consts[(k - 1) * m + i] = list[k][fields[i]]

LEMMA AllConstsWritten ==
  ASSUME NEW T, NEW m \in {8, 17}, NEW fields, Len(fields) = m, DOMAIN fields = 1 .. m,
         NEW n \in Nat, NEW list, RecordsOf(list, n, fields),
         \A k \in 1 .. n, i \in 1 .. m : list[k][fields[i]] \in T
  PROVE  AllConsts(list, fields) \in Seq(T) /\ Fields(AllConsts(list, fields), list, n, fields, m)
<1> DEFINE piece(k) == [i \in 1 .. m |-> list[k][fields[i]]]
           seqs == [k \in 1 .. n |-> piece(k)]
<1>1. \A k \in 1 .. n : piece(k) \in Seq(T) /\ Len(piece(k)) = m /\ \A i \in 1 .. m : piece(k)[i] = list[k][fields[i]]
  <2> SUFFICES ASSUME NEW k \in 1 .. n
               PROVE  piece(k) \in Seq(T) /\ Len(piece(k)) = m /\ \A i \in 1 .. m : piece(k)[i] = list[k][fields[i]]
    OBVIOUS
  <2>1. m \in Nat /\ piece(k) \in [1 .. m -> T]
    OBVIOUS
  <2>2. \A i \in 1 .. m : piece(k)[i] = list[k][fields[i]]
    OBVIOUS
  <2> HIDE DEF piece
  <2> QED BY <2>1, <2>2, FunctionIsSeq
<1>2. AllConsts(list, fields) = FlattenSeq(seqs)
  <2>1. DOMAIN list = 1 .. n
    BY DEF RecordsOf
  <2>2. \A k \in 1 .. n : Consts(list[k], fields) = piece(k)
    BY DEF Consts
  <2>3. [k \in DOMAIN list |-> Consts(list[k], fields)] = seqs
    BY <2>1, <2>2
  <2> QED BY <2>3 DEF AllConsts
<1> HIDE DEF piece
<1>3. /\ seqs \in Seq(Seq(T)) /\ Len(seqs) = n
      /\ \A k \in 1 .. n : Len(seqs[k]) = m
  <2>1. seqs \in [1 .. n -> Seq(T)]
    BY <1>1
  <2>2. \A k \in 1 .. n : Len(seqs[k]) = m
    BY <1>1
  <2> HIDE DEF seqs
  <2> QED BY <2>1, <2>2, FunctionIsSeq
<1>4. \A k \in 1 .. n, i \in 1 .. m : seqs[k][i] = list[k][fields[i]]
  BY <1>1
<1> HIDE DEF seqs
<1>5. FlattenSeq(seqs) \in Seq(T) /\ Laid(FlattenSeq(seqs), seqs, n, m)
  BY <1>3, Flattened
<1> QED BY <1>2, <1>4, <1>5 DEF Laid, Fields

\* The records are in the list from idx on.
Placed(list, idx, recs, n, fields, m) ==
  \A k \in 1 .. n, i \in 1 .. m :
    /\ idx + (k - 1) * m + i - 1 \in DOMAIN list
    /\ list[idx + (k - 1) * m + i - 1] = recs[k][fields[i]]

\* Read from where they have been written, they are the same records.
LEMMA RecordsRead ==
  ASSUME NEW m \in Nat, NEW fields, Len(fields) = m, DOMAIN fields = 1 .. m,
         NEW n \in Nat, NEW recs, RecordsOf(recs, n, fields),
         NEW list, NEW idx \in Nat, Placed(list, idx, recs, n, fields, m)
  PROVE  Records(list, idx, n, fields) = recs
<1> DEFINE place(f) == CHOOSE j \in DOMAIN fields : fields[j] = f
           val(k, f) == LET x == idx + (k - 1) * Len(fields) + place(f) - 1
                          IN  IF x \in DOMAIN list THEN list[x] ELSE Null
           rec(k) == [f \in ToSet(fields) |-> val(k, f)]
<1>1. \A f \in ToSet(fields) : place(f) \in 1 .. m /\ fields[place(f)] = f
  BY DEF ToSet
<1> HIDE DEF place
<1>2. \A k \in 1 .. n : \A f \in ToSet(fields) : val(k, f) = recs[k][f]
  BY <1>1 DEF Placed
<1>3. \A k \in 1 .. n : rec(k) = recs[k]
  <2> HIDE DEF val
  <2> QED BY <1>2 DEF RecordsOf, RecordOf
<1>4. Records(list, idx, n, fields) = [k \in 1 .. n |-> rec(k)]
  BY DEF Records, place
<1> HIDE DEF rec
<1>5. recs = [k \in 1 .. n |-> recs[k]]
  BY DEF RecordsOf
<1> QED BY <1>3, <1>4, <1>5

\* What the planner has to write: records with the fields it writes.
PlanState(s) ==
  /\ s = [head |-> s.head, cols |-> s.cols, params |-> s.params, results |-> s.results]
  /\ RecordOf(s.head, WrittenHead)
  /\ s.head["ncols"] \in Nat /\ RecordsOf(s.cols, s.head["ncols"], WrittenCol)
  /\ Len(s.params) \in Nat /\ RecordsOf(s.params, Len(s.params), WrittenParam)
  /\ Len(s.results) \in Nat /\ RecordsOf(s.results, Len(s.results), WrittenResult)

LEMMA FieldLists ==
  /\ Len(WrittenHead) = 14 /\ DOMAIN WrittenHead = 1 .. 14
  /\ Len(WrittenCol) = 17 /\ DOMAIN WrittenCol = 1 .. 17
  /\ Len(WrittenParam) = 8 /\ DOMAIN WrittenParam = 1 .. 8
  /\ Len(WrittenResult) = 17 /\ DOMAIN WrittenResult = 1 .. 17
  /\ ReadHead = WrittenHead /\ ReadCol = WrittenCol /\ ReadParam = WrittenParam /\ ReadResult = WrittenResult
<1>1. Len(WrittenHead) = 14 /\ DOMAIN WrittenHead = 1 .. 14
  BY DEF WrittenHead
<1>2. Len(WrittenCol) = 17 /\ DOMAIN WrittenCol = 1 .. 17
  BY DEF WrittenCol
<1>3. Len(WrittenParam) = 8 /\ DOMAIN WrittenParam = 1 .. 8
  BY DEF WrittenParam
<1>4. Len(WrittenResult) = 17 /\ DOMAIN WrittenResult = 1 .. 17
  BY DEF WrittenResult
<1>5. ReadHead = WrittenHead
  BY DEF ReadHead, WrittenHead
<1>6. ReadCol = WrittenCol
  BY DEF ReadCol, WrittenCol
<1>7. ReadParam = WrittenParam
  BY DEF ReadParam, WrittenParam
<1>8. ReadResult = WrittenResult
  BY DEF ReadResult, WrittenResult
<1> QED BY <1>1, <1>2, <1>3, <1>4, <1>5, <1>6, <1>7, <1>8

\* w is u and then v.
Follow(w, u, v) ==
  /\ Len(w) = Len(u) + Len(v)
  /\ \A x \in 1 .. Len(u) : w[x] = u[x]
  /\ \A x \in 1 .. Len(v) : w[Len(u) + x] = v[x]

LEMMA Follows ==
  ASSUME NEW T, NEW u \in Seq(T), NEW v \in Seq(T)
  PROVE  u \o v \in Seq(T) /\ Follow(u \o v, u, v)
<1>1. Len(u) \in Nat /\ Len(v) \in Nat
  OBVIOUS
<1>2. /\ u \o v \in Seq(T) /\ Len(u \o v) = Len(u) + Len(v)
      /\ \A x \in 1 .. Len(u) + Len(v) : (u \o v)[x] = IF x <= Len(u) THEN u[x] ELSE v[x - Len(u)]
  BY ConcatProperties
<1>3. ASSUME NEW x \in 1 .. Len(v) PROVE (u \o v)[Len(u) + x] = v[x]
  <2>1. Len(u) + x \in 1 .. Len(u) + Len(v) /\ ~(Len(u) + x <= Len(u)) /\ (Len(u) + x) - Len(u) = x
    BY <1>1
  <2> QED BY <1>2, <2>1
<1>4. ASSUME NEW x \in 1 .. Len(u) PROVE (u \o v)[x] = u[x]
  <2>1. x \in 1 .. Len(u) + Len(v) /\ x <= Len(u)
    BY <1>1
  <2> QED BY <1>2, <2>1
<1> QED BY <1>2, <1>3, <1>4 DEF Follow

\* Where each constant is.
Layout(list, s) ==
  LET C == s.head["ncols"]
      P == Len(s.params)
      R == Len(s.results)
      a == 15 + C * 17
      b == a + 1 + P * 8
  IN  /\ DOMAIN list = 1 .. (b + R * 17)
      /\ \A i \in 1 .. 14 : list[i] = s.head[WrittenHead[i]]
      /\ \A k \in 1 .. C, i \in 1 .. 17 : list[14 + ((k - 1) * 17 + i)] = s.cols[k][WrittenCol[i]]
      /\ list[a] = P
      /\ \A k \in 1 .. P, i \in 1 .. 8 : list[a + ((k - 1) * 8 + i)] = s.params[k][WrittenParam[i]]
      /\ list[b] = R
      /\ \A k \in 1 .. R, i \in 1 .. 17 : list[b + ((k - 1) * 17 + i)] = s.results[k][WrittenResult[i]]

LEMMA SerializedLayout ==
  ASSUME NEW s, PlanState(s)
  PROVE  Layout(serializePlanData(s), s)
<1> DEFINE C == s.head["ncols"]
           P == Len(s.params)
           R == Len(s.results)
           inHead == {s.head[WrittenHead[i]] : i \in 1 .. 14}
           inCols == {s.cols[k][WrittenCol[i]] : k \in 1 .. C, i \in 1 .. 17}
           inParams == {s.params[k][WrittenParam[i]] : k \in 1 .. P, i \in 1 .. 8}
           inResults == {s.results[k][WrittenResult[i]] : k \in 1 .. R, i \in 1 .. 17}
           T == inHead \cup inCols \cup inParams \cup inResults \cup {P, R}
           h == Consts(s.head, WrittenHead)
           c == AllConsts(s.cols, WrittenCol)
           p == AllConsts(s.params, WrittenParam)
           r == AllConsts(s.results, WrittenResult)
           u1 == h \o c
           u2 == u1 \o <<P>>
           u3 == u2 \o p
           u4 == u3 \o <<R>>
           u5 == u4 \o r
<1>1. /\ C \in Nat /\ RecordsOf(s.cols, C, WrittenCol)
      /\ P \in Nat /\ RecordsOf(s.params, P, WrittenParam)
      /\ R \in Nat /\ RecordsOf(s.results, R, WrittenResult)
  BY DEF PlanState
<1>2. serializePlanData(s) = u5
  BY DEF serializePlanData
<1>3. /\ \A i \in 1 .. 14 : s.head[WrittenHead[i]] \in T
      /\ \A k \in 1 .. C, i \in 1 .. 17 : s.cols[k][WrittenCol[i]] \in T
      /\ \A k \in 1 .. P, i \in 1 .. 8 : s.params[k][WrittenParam[i]] \in T
      /\ \A k \in 1 .. R, i \in 1 .. 17 : s.results[k][WrittenResult[i]] \in T
      /\ P \in T /\ R \in T
  <2> HIDE DEF C, P, R
  <2>1. \A i \in 1 .. 14 : s.head[WrittenHead[i]] \in inHead
    OBVIOUS
  <2>2. \A k \in 1 .. C, i \in 1 .. 17 : s.cols[k][WrittenCol[i]] \in inCols
    OBVIOUS
  <2>3. \A k \in 1 .. P, i \in 1 .. 8 : s.params[k][WrittenParam[i]] \in inParams
    OBVIOUS
  <2>4. \A k \in 1 .. R, i \in 1 .. 17 : s.results[k][WrittenResult[i]] \in inResults
    OBVIOUS
  <2> HIDE DEF inHead, inCols, inParams, inResults
  <2> QED BY <2>1, <2>2, <2>3, <2>4
<1> HIDE DEF C, P, R, T
<1>4. /\ h \in Seq(T) /\ Len(h) = 14
      /\ \A i \in 1 .. 14 : h[i] = s.head[WrittenHead[i]]
  <2>1. DOMAIN WrittenHead = 1 .. 14
    BY FieldLists
  <2>2. h = [i \in 1 .. 14 |-> s.head[WrittenHead[i]]]
    BY <2>1 DEF Consts
  <2> HIDE DEF h
  <2>3. h \in [1 .. 14 -> T]
    BY <1>3, <2>2
  <2>4. h \in Seq(T) /\ Len(h) = 14
    BY ONLY <2>3, 14 \in Nat, FunctionIsSeq
  <2> QED BY <2>2, <2>4
<1>5. c \in Seq(T) /\ Fields(c, s.cols, C, WrittenCol, 17)
  <2>1. /\ 17 \in {8, 17} /\ Len(WrittenCol) = 17 /\ DOMAIN WrittenCol = 1 .. 17
        /\ C \in Nat /\ RecordsOf(s.cols, C, WrittenCol)
        /\ \A k \in 1 .. C, i \in 1 .. 17 : s.cols[k][WrittenCol[i]] \in T
    BY <1>1, <1>3, FieldLists
  <2> QED BY ONLY <2>1, AllConstsWritten
<1>6. p \in Seq(T) /\ Fields(p, s.params, P, WrittenParam, 8)
  <2>1. /\ 8 \in {8, 17} /\ Len(WrittenParam) = 8 /\ DOMAIN WrittenParam = 1 .. 8
        /\ P \in Nat /\ RecordsOf(s.params, P, WrittenParam)
        /\ \A k \in 1 .. P, i \in 1 .. 8 : s.params[k][WrittenParam[i]] \in T
    BY <1>1, <1>3, FieldLists
  <2> QED BY ONLY <2>1, AllConstsWritten
<1>7. r \in Seq(T) /\ Fields(r, s.results, R, WrittenResult, 17)
  <2>1. /\ 17 \in {8, 17} /\ Len(WrittenResult) = 17 /\ DOMAIN WrittenResult = 1 .. 17
        /\ R \in Nat /\ RecordsOf(s.results, R, WrittenResult)
        /\ \A k \in 1 .. R, i \in 1 .. 17 : s.results[k][WrittenResult[i]] \in T
    BY <1>1, <1>3, FieldLists
  <2> QED BY ONLY <2>1, AllConstsWritten
<1>8. /\ <<P>> \in Seq(T) /\ Len(<<P>>) = 1 /\ <<P>>[1] = P
      /\ <<R>> \in Seq(T) /\ Len(<<R>>) = 1 /\ <<R>>[1] = R
  BY <1>3
<1> HIDE DEF h, c, p, r
<1>9. u1 \in Seq(T) /\ Follow(u1, h, c)
  <2>1. h \in Seq(T) /\ c \in Seq(T)
    BY <1>4, <1>5
  <2> QED BY ONLY <2>1, Follows
<1> HIDE DEF u1
<1>10. u2 \in Seq(T) /\ Follow(u2, u1, <<P>>)
  <2>1. u1 \in Seq(T) /\ <<P>> \in Seq(T)
    BY <1>8, <1>9
  <2> QED BY ONLY <2>1, Follows
<1> HIDE DEF u2
<1>11. u3 \in Seq(T) /\ Follow(u3, u2, p)
  <2>1. u2 \in Seq(T) /\ p \in Seq(T)
    BY <1>6, <1>10
  <2> QED BY ONLY <2>1, Follows
<1> HIDE DEF u3
<1>12. u4 \in Seq(T) /\ Follow(u4, u3, <<R>>)
  <2>1. u3 \in Seq(T) /\ <<R>> \in Seq(T)
    BY <1>8, <1>11
  <2> QED BY ONLY <2>1, Follows
<1> HIDE DEF u4
<1>13. u5 \in Seq(T) /\ Follow(u5, u4, r)
  <2>1. u4 \in Seq(T) /\ r \in Seq(T)
    BY <1>7, <1>12
  <2> QED BY ONLY <2>1, Follows
<1> HIDE DEF u5
<1> DEFINE a == 15 + C * 17
           b == a + 1 + P * 8
<1>22. /\ Len(h) = 14 /\ Len(c) = C * 17 /\ Len(p) = P * 8 /\ Len(r) = R * 17
       /\ Len(u1) = Len(h) + Len(c) /\ Len(u2) = Len(u1) + 1 /\ Len(u3) = Len(u2) + Len(p)
       /\ Len(u4) = Len(u3) + 1 /\ Len(u5) = Len(u4) + Len(r)
  <2>1. Len(h) = 14 /\ Len(c) = C * 17 /\ Len(p) = P * 8 /\ Len(r) = R * 17
    BY <1>4, <1>5, <1>6, <1>7 DEF Fields
  <2>2. Len(u1) = Len(h) + Len(c) /\ Len(u3) = Len(u2) + Len(p) /\ Len(u5) = Len(u4) + Len(r)
    BY <1>9, <1>11, <1>13 DEF Follow
  <2>3. Len(u2) = Len(u1) + Len(<<P>>) /\ Len(u4) = Len(u3) + Len(<<R>>)
    BY <1>10, <1>12 DEF Follow
  <2> QED BY <1>8, <2>1, <2>2, <2>3
<1>14. /\ Len(u1) = 14 + C * 17 /\ Len(u2) = a /\ Len(u3) = a + P * 8 /\ Len(u4) = b /\ Len(u5) = b + R * 17
       /\ a \in Nat /\ b \in Nat /\ a < b
       /\ C * 17 \in Nat /\ P * 8 \in Nat /\ R * 17 \in Nat
  <2>1. C \in Nat /\ P \in Nat /\ R \in Nat
    BY <1>1
  <2> QED BY ONLY <1>22, <2>1
<1>23. /\ \A x \in 1 .. Len(u4) : u5[x] = u4[x]
       /\ \A x \in 1 .. Len(u3) : u4[x] = u3[x]
       /\ \A x \in 1 .. Len(u2) : u3[x] = u2[x]
       /\ \A x \in 1 .. Len(u1) : u2[x] = u1[x]
       /\ \A x \in 1 .. Len(h) : u1[x] = h[x]
  BY <1>9, <1>10, <1>11, <1>12, <1>13 DEF Follow
<1>24. /\ \A x \in 1 .. Len(c) : u1[Len(h) + x] = c[x]
       /\ \A x \in 1 .. Len(p) : u3[Len(u2) + x] = p[x]
       /\ \A x \in 1 .. Len(r) : u5[Len(u4) + x] = r[x]
       /\ u2[Len(u1) + 1] = P /\ u4[Len(u3) + 1] = R
  <2>1. /\ \A x \in 1 .. Len(c) : u1[Len(h) + x] = c[x]
        /\ \A x \in 1 .. Len(p) : u3[Len(u2) + x] = p[x]
        /\ \A x \in 1 .. Len(r) : u5[Len(u4) + x] = r[x]
    BY <1>9, <1>11, <1>13 DEF Follow
  <2>2. 1 \in 1 .. Len(<<P>>) /\ 1 \in 1 .. Len(<<R>>)
    BY <1>8
  <2>3. u2[Len(u1) + 1] = <<P>>[1] /\ u4[Len(u3) + 1] = <<R>>[1]
    BY <1>10, <1>12, <2>2 DEF Follow
  <2> QED BY <1>8, <2>1, <2>3
<1> HIDE DEF a, b
<1>15. DOMAIN u5 = 1 .. (b + R * 17)
  BY <1>13, <1>14
<1>16. \A i \in 1 .. 14 : u5[i] = s.head[WrittenHead[i]]
  <2> SUFFICES ASSUME NEW i \in 1 .. 14 PROVE u5[i] = s.head[WrittenHead[i]]
    OBVIOUS
  <2>1. i \in 1 .. Len(h) /\ i \in 1 .. Len(u1) /\ i \in 1 .. Len(u2) /\ i \in 1 .. Len(u3) /\ i \in 1 .. Len(u4)
    <3>1. Len(h) = 14 /\ Len(u1) \in Nat /\ Len(u1) >= 14 /\ Len(u2) = Len(u1) + 1 /\ Len(u3) = Len(u2) + P * 8
          /\ Len(u4) = Len(u3) + 1 /\ P * 8 \in Nat
      <4>1. C * 17 \in Nat /\ Len(u1) = 14 + C * 17
        BY <1>14
      <4>2. Len(u2) = Len(u1) + 1 /\ Len(h) = 14 /\ P * 8 \in Nat
        BY <1>14, <1>22
      <4>3. Len(u3) = Len(u2) + P * 8 /\ Len(u4) = Len(u3) + 1
        BY <1>22
      <4>4. Len(u1) \in Nat /\ Len(u1) >= 14
        BY ONLY <4>1
      <4> QED BY ONLY <4>2, <4>3, <4>4
    <3> QED BY ONLY <3>1, i \in 1 .. 14
  <2>2. u1[i] = h[i] /\ u2[i] = u1[i] /\ u3[i] = u2[i] /\ u4[i] = u3[i] /\ u5[i] = u4[i]
    BY <1>23, <2>1
  <2>3. h[i] = s.head[WrittenHead[i]]
    BY <1>4
  <2> QED BY <2>2, <2>3
<1>17. \A k \in 1 .. C, i \in 1 .. 17 : u5[14 + ((k - 1) * 17 + i)] = s.cols[k][WrittenCol[i]]
  <2> SUFFICES ASSUME NEW k \in 1 .. C, NEW i \in 1 .. 17
               PROVE  u5[14 + ((k - 1) * 17 + i)] = s.cols[k][WrittenCol[i]]
    OBVIOUS
  <2> DEFINE x == (k - 1) * 17 + i
  <2>1. x \in 1 .. (C * 17)
    BY <1>1, PlaceBelow
  <2>2. c[x] = s.cols[k][WrittenCol[i]]
    BY <1>5 DEF Fields
  <2> HIDE DEF x
  <2>3. x \in 1 .. Len(c) /\ 14 + x \in 1 .. Len(u1) /\ 14 + x \in 1 .. Len(u2) /\ 14 + x \in 1 .. Len(u3) /\ 14 + x \in 1 .. Len(u4)
    BY ONLY <1>22, <1>14, <2>1, <1>1 DEF a, b
  <2>4. u1[14 + x] = c[x]
    BY <1>22, <1>24, <2>3
  <2>5. u5[14 + x] = c[x]
    BY <1>23, <2>3, <2>4
  <2> QED BY <2>2, <2>5 DEF x
<1>18. u5[a] = P
  <2>1. a \in 1 .. Len(u2) /\ a \in 1 .. Len(u3) /\ a \in 1 .. Len(u4) /\ a = Len(u1) + 1
    BY ONLY <1>14, <1>22, <1>1 DEF a
  <2> QED BY <1>23, <1>24, <2>1
<1>19. \A k \in 1 .. P, i \in 1 .. 8 : u5[a + ((k - 1) * 8 + i)] = s.params[k][WrittenParam[i]]
  <2> SUFFICES ASSUME NEW k \in 1 .. P, NEW i \in 1 .. 8
               PROVE  u5[a + ((k - 1) * 8 + i)] = s.params[k][WrittenParam[i]]
    OBVIOUS
  <2> DEFINE x == (k - 1) * 8 + i
  <2>1. x \in 1 .. (P * 8)
    BY <1>1, PlaceBelow
  <2>2. p[x] = s.params[k][WrittenParam[i]]
    BY <1>6 DEF Fields
  <2> HIDE DEF x
  <2>3. x \in 1 .. Len(p) /\ a + x \in 1 .. Len(u3) /\ a + x \in 1 .. Len(u4)
    BY ONLY <1>22, <1>14, <2>1, <1>1 DEF a, b
  <2>4. u3[a + x] = p[x]
    BY <1>14, <1>24, <2>3
  <2>5. u5[a + x] = p[x]
    BY <1>23, <2>3, <2>4
  <2> QED BY <2>2, <2>5 DEF x
<1>20. u5[b] = R
  <2>1. b \in 1 .. Len(u4) /\ b = Len(u3) + 1
    BY ONLY <1>14, <1>22, <1>1 DEF b
  <2> QED BY <1>23, <1>24, <2>1
<1>21. \A k \in 1 .. R, i \in 1 .. 17 : u5[b + ((k - 1) * 17 + i)] = s.results[k][WrittenResult[i]]
  <2> SUFFICES ASSUME NEW k \in 1 .. R, NEW i \in 1 .. 17
               PROVE  u5[b + ((k - 1) * 17 + i)] = s.results[k][WrittenResult[i]]
    OBVIOUS
  <2> DEFINE x == (k - 1) * 17 + i
  <2>1. x \in 1 .. (R * 17)
    BY <1>1, PlaceBelow
  <2>2. r[x] = s.results[k][WrittenResult[i]]
    BY <1>7 DEF Fields
  <2> HIDE DEF x
  <2>3. x \in 1 .. Len(r)
    BY <1>22, <2>1
  <2>4. u5[b + x] = r[x]
    BY <1>14, <1>24, <2>3
  <2> QED BY <2>2, <2>4 DEF x
<1> QED BY <1>2, <1>15, <1>16, <1>17, <1>18, <1>19, <1>20, <1>21 DEF Layout, C, P, R, a, b

LEMMA DeserializedLayout ==
  ASSUME NEW s, PlanState(s), NEW list, Layout(list, s)
  PROVE  deserializePlanData(list) = [s EXCEPT !.params = Reverse(@), !.results = Reverse(@)]
<1> DEFINE C == s.head["ncols"]
           P == Len(s.params)
           R == Len(s.results)
           a == 15 + C * 17
           b == a + 1 + P * 8
           head == Records(list, 1, 1, ReadHead)[1]
<1>1. /\ C \in Nat /\ RecordsOf(s.cols, C, WrittenCol)
      /\ P \in Nat /\ RecordsOf(s.params, P, WrittenParam)
      /\ R \in Nat /\ RecordsOf(s.results, R, WrittenResult)
      /\ RecordOf(s.head, WrittenHead)
  BY DEF PlanState
<1>2. /\ DOMAIN list = 1 .. (b + R * 17)
      /\ \A i \in 1 .. 14 : list[i] = s.head[WrittenHead[i]]
      /\ \A k \in 1 .. C, i \in 1 .. 17 : list[14 + ((k - 1) * 17 + i)] = s.cols[k][WrittenCol[i]]
      /\ list[a] = P
      /\ \A k \in 1 .. P, i \in 1 .. 8 : list[a + ((k - 1) * 8 + i)] = s.params[k][WrittenParam[i]]
      /\ list[b] = R
      /\ \A k \in 1 .. R, i \in 1 .. 17 : list[b + ((k - 1) * 17 + i)] = s.results[k][WrittenResult[i]]
  BY DEF Layout
<1> HIDE DEF C, P, R
<1>3. a \in Nat /\ b \in Nat /\ C * 17 \in Nat /\ P * 8 \in Nat /\ R * 17 \in Nat
  BY <1>1
<1>4. head = s.head
  <2> DEFINE recs == [k \in 1 .. 1 |-> s.head]
  <2>1. RecordsOf(recs, 1, WrittenHead)
    BY <1>1 DEF RecordsOf
  <2>2. Placed(list, 1, recs, 1, WrittenHead, 14)
    <3> SUFFICES ASSUME NEW k \in 1 .. 1, NEW i \in 1 .. 14
                 PROVE  /\ 1 + (k - 1) * 14 + i - 1 \in DOMAIN list
                        /\ list[1 + (k - 1) * 14 + i - 1] = recs[k][WrittenHead[i]]
      BY DEF Placed
    <3>1. 1 + (k - 1) * 14 + i - 1 = i /\ recs[k] = s.head
      OBVIOUS
    <3>2. i \in 1 .. (b + R * 17)
      BY <1>3
    <3> QED BY <1>2, <3>1, <3>2
  <2> HIDE DEF recs
  <2>3. Records(list, 1, 1, WrittenHead) = recs
    <3>1. 14 \in Nat /\ 1 \in Nat /\ Len(WrittenHead) = 14 /\ DOMAIN WrittenHead = 1 .. 14
      BY FieldLists
    <3> QED BY ONLY <2>1, <2>2, <3>1, RecordsRead
  <2> QED BY <2>3, FieldLists DEF recs
<1>5. Records(list, 15, C, WrittenCol) = s.cols
  <2>1. Placed(list, 15, s.cols, C, WrittenCol, 17)
    <3> SUFFICES ASSUME NEW k \in 1 .. C, NEW i \in 1 .. 17
                 PROVE  /\ 15 + (k - 1) * 17 + i - 1 \in DOMAIN list
                        /\ list[15 + (k - 1) * 17 + i - 1] = s.cols[k][WrittenCol[i]]
      BY DEF Placed
    <3> DEFINE x == 15 + (k - 1) * 17 + i - 1
               y == 14 + ((k - 1) * 17 + i)
    <3>1. (k - 1) * 17 + i \in 1 .. (C * 17)
      BY <1>1, PlaceBelow
    <3>2. x = y
      BY <1>1, <1>3
    <3>3. y \in 1 .. (b + R * 17)
      BY <1>3, <3>1
    <3>4. list[y] = s.cols[k][WrittenCol[i]]
      BY <1>2
    <3> HIDE DEF x, y
    <3>5. x \in DOMAIN list /\ list[x] = s.cols[k][WrittenCol[i]]
      BY <1>2, <3>2, <3>3, <3>4
    <3> QED BY <3>5 DEF x
  <2>2. 15 \in Nat /\ 17 \in Nat /\ Len(WrittenCol) = 17 /\ DOMAIN WrittenCol = 1 .. 17 /\ C \in Nat /\ RecordsOf(s.cols, C, WrittenCol)
    BY <1>1, <1>3, FieldLists
  <2> QED BY ONLY <2>1, <2>2, RecordsRead
<1>6. Records(list, a + 1, P, WrittenParam) = s.params
  <2>1. Placed(list, a + 1, s.params, P, WrittenParam, 8)
    <3> SUFFICES ASSUME NEW k \in 1 .. P, NEW i \in 1 .. 8
                 PROVE  /\ (a + 1) + (k - 1) * 8 + i - 1 \in DOMAIN list
                        /\ list[(a + 1) + (k - 1) * 8 + i - 1] = s.params[k][WrittenParam[i]]
      BY DEF Placed
    <3> DEFINE x == (a + 1) + (k - 1) * 8 + i - 1
               y == a + ((k - 1) * 8 + i)
    <3>1. (k - 1) * 8 + i \in 1 .. (P * 8)
      BY <1>1, PlaceBelow
    <3>2. x = y
      BY <1>1, <1>3
    <3>3. y \in 1 .. (b + R * 17)
      BY <1>3, <3>1
    <3>4. list[y] = s.params[k][WrittenParam[i]]
      BY <1>2
    <3> HIDE DEF x, y
    <3>5. x \in DOMAIN list /\ list[x] = s.params[k][WrittenParam[i]]
      BY <1>2, <3>2, <3>3, <3>4
    <3> QED BY <3>5 DEF x
  <2>2. a + 1 \in Nat /\ 8 \in Nat /\ Len(WrittenParam) = 8 /\ DOMAIN WrittenParam = 1 .. 8 /\ P \in Nat /\ RecordsOf(s.params, P, WrittenParam)
    BY <1>1, <1>3, FieldLists
  <2> QED BY ONLY <2>1, <2>2, RecordsRead
<1>7. Records(list, b + 1, R, WrittenResult) = s.results
  <2>1. Placed(list, b + 1, s.results, R, WrittenResult, 17)
    <3> SUFFICES ASSUME NEW k \in 1 .. R, NEW i \in 1 .. 17
                 PROVE  /\ (b + 1) + (k - 1) * 17 + i - 1 \in DOMAIN list
                        /\ list[(b + 1) + (k - 1) * 17 + i - 1] = s.results[k][WrittenResult[i]]
      BY DEF Placed
    <3> DEFINE x == (b + 1) + (k - 1) * 17 + i - 1
               y == b + ((k - 1) * 17 + i)
    <3>1. (k - 1) * 17 + i \in 1 .. (R * 17)
      BY <1>1, PlaceBelow
    <3>2. x = y
      BY <1>1, <1>3
    <3>3. y \in 1 .. (b + R * 17)
      BY <1>3, <3>1
    <3>4. list[y] = s.results[k][WrittenResult[i]]
      BY <1>2
    <3> HIDE DEF x, y
    <3>5. x \in DOMAIN list /\ list[x] = s.results[k][WrittenResult[i]]
      BY <1>2, <3>2, <3>3, <3>4
    <3> QED BY <3>5 DEF x
  <2>2. b + 1 \in Nat /\ 17 \in Nat /\ Len(WrittenResult) = 17 /\ DOMAIN WrittenResult = 1 .. 17 /\ R \in Nat /\ RecordsOf(s.results, R, WrittenResult)
    BY <1>1, <1>3, FieldLists
  <2> QED BY ONLY <2>1, <2>2, RecordsRead
<1>8. deserializePlanData(list) =
        [head |-> s.head, cols |-> s.cols, params |-> Reverse(s.params), results |-> Reverse(s.results)]
  <2> DEFINE atCols == 1 + Len(ReadHead)
             atParams == atCols + head["ncols"] * Len(ReadCol)
             atResults == atParams + 1 + list[atParams] * Len(ReadParam)
  <2>1. deserializePlanData(list) =
          [head |-> head,
           cols |-> Records(list, atCols, head["ncols"], ReadCol),
           params |-> Reverse(Records(list, atParams + 1, list[atParams], ReadParam)),
           results |-> Reverse(Records(list, atResults + 1, list[atResults], ReadResult))]
    BY DEF deserializePlanData
  <2> HIDE DEF head
  <2>2. atCols = 15 /\ head["ncols"] = C
    <3>1. Len(ReadHead) = 14
      BY FieldLists
    <3>2. head["ncols"] = C
      BY <1>4 DEF C
    <3> QED BY <3>1, <3>2
  <2> HIDE DEF atCols
  <2>3. atParams = a
    BY <2>2, FieldLists
  <2> HIDE DEF atParams
  <2>4. atResults = b
    BY <1>2, <2>3, FieldLists
  <2> HIDE DEF atResults
  <2>5. list[atParams] = P /\ list[atResults] = R
    BY <1>2, <2>3, <2>4
  <2> HIDE DEF a, b
  <2> QED BY <1>4, <1>5, <1>6, <1>7, <2>1, <2>2, <2>3, <2>4, <2>5, FieldLists
<1>9. [s EXCEPT !.params = Reverse(@), !.results = Reverse(@)] =
        [head |-> s.head, cols |-> s.cols, params |-> Reverse(s.params), results |-> Reverse(s.results)]
  <2>1. s = [head |-> s.head, cols |-> s.cols, params |-> s.params, results |-> s.results]
    BY DEF PlanState
  <2>2. [s EXCEPT !.params = Reverse(@), !.results = Reverse(@)]
          = [[s EXCEPT !.params = Reverse(@)] EXCEPT !.results = Reverse(@)]
    OBVIOUS
  <2>3. \A h, c, p, r :
          [[head |-> h, cols |-> c, params |-> p, results |-> r] EXCEPT !.params = Reverse(@)] =
            [head |-> h, cols |-> c, params |-> Reverse(p), results |-> r]
    OBVIOUS
  <2>4. \A h, c, p, r :
          [[head |-> h, cols |-> c, params |-> p, results |-> r] EXCEPT !.results = Reverse(@)] =
            [head |-> h, cols |-> c, params |-> p, results |-> Reverse(r)]
    OBVIOUS
  <2>5. [s EXCEPT !.params = Reverse(@)] =
          [head |-> s.head, cols |-> s.cols, params |-> Reverse(s.params), results |-> s.results]
    <3> DEFINE h == s.head
               c == s.cols
               p == s.params
               r == s.results
    <3> HIDE DEF h, c, p, r
    <3>1. s = [head |-> h, cols |-> c, params |-> p, results |-> r]
      BY <2>1 DEF h, c, p, r
    <3>2. [s EXCEPT !.params = Reverse(@)] = [head |-> h, cols |-> c, params |-> Reverse(p), results |-> r]
      BY ONLY <2>3, <3>1
    <3> QED BY <3>2 DEF h, c, p, r
  <2> DEFINE t == [s EXCEPT !.params = Reverse(@)]
             h == s.head
             c == s.cols
             p == Reverse(s.params)
             r == s.results
  <2>6. [s EXCEPT !.params = Reverse(@), !.results = Reverse(@)] = [t EXCEPT !.results = Reverse(@)]
    BY <2>2
  <2>7. t = [head |-> h, cols |-> c, params |-> p, results |-> r]
    BY <2>5
  <2> HIDE DEF t, h, c, p, r
  <2>8. [t EXCEPT !.results = Reverse(@)] = [head |-> h, cols |-> c, params |-> p, results |-> Reverse(r)]
    BY ONLY <2>4, <2>7
  <2>9. [s EXCEPT !.params = Reverse(@), !.results = Reverse(@)]
          = [head |-> h, cols |-> c, params |-> p, results |-> Reverse(r)]
    BY ONLY <2>6, <2>8
  <2> QED BY <2>9 DEF h, c, p, r
<1> QED BY <1>8, <1>9

\* The plan is what has been serialized, and what is executed is read from it.
PlanInv ==
  \/ planState = NoState /\ flat = <<>> /\ execState = NoState
  \/ /\ PlanState(planState) /\ flat = serializePlanData(planState)
     /\ execState = NoState \/ execState = deserializePlanData(flat)

LEMMA PlanSerialized == ASSUME PlanInv PROVE DeserializedAsWritten
<1>1. CASE planState = NoState /\ flat = <<>> /\ execState = NoState
  BY <1>1 DEF DeserializedAsWritten
<1>2. CASE /\ PlanState(planState) /\ flat = serializePlanData(planState)
           /\ execState = NoState \/ execState = deserializePlanData(flat)
  <2>1. deserializePlanData(flat) = [planState EXCEPT !.params = Reverse(@), !.results = Reverse(@)]
    BY <1>2, SerializedLayout, DeserializedLayout
  <2> QED BY <1>2, <2>1 DEF DeserializedAsWritten
<1> QED BY <1>1, <1>2 DEF PlanInv

MarkedList(kind, n, fields) == [i \in 1 .. n |-> Marked(kind, i, fields)]

LEMMA MarkedRecords ==
  ASSUME NEW kind, NEW fields, NEW n \in Nat
  PROVE  RecordsOf(MarkedList(kind, n, fields), n, fields) /\ Len(MarkedList(kind, n, fields)) = n
<1> DEFINE list == MarkedList(kind, n, fields)
<1>1. list = [i \in 1 .. n |-> list[i]]
  BY DEF MarkedList
<1>2. \A i \in 1 .. n : RecordOf(list[i], fields)
  BY DEF RecordOf, Marked, MarkedList
<1>3. Len(list) = n
  BY DEF MarkedList
<1> QED BY <1>1, <1>2, <1>3 DEF RecordsOf

LEMMA PlanMade ==
  ASSUME NEW ncols \in Nat, NEW nparams \in Nat, NEW nresults \in Nat, NEW login, MakePlan(ncols, nparams, nresults, login)
  PROVE  PlanState(planState')
<1> DEFINE head == [f \in ToSet(WrittenHead) |->
                      IF f = "ncols" THEN ncols
                      ELSE IF f \in {"user", "password", "jwt_token"} \ login THEN Null
                      ELSE <<"head", 1, f>>]
           cols == [i \in 1 .. ncols |-> Marked("col", i, WrittenCol)]
           params == [i \in 1 .. nparams |-> Marked("param", i, WrittenParam)]
           results == [i \in 1 .. nresults |-> Marked("result", i, WrittenResult)]
<1>1. planState' = [head |-> head, cols |-> cols, params |-> params, results |-> results]
  BY DEF MakePlan
<1>2. "ncols" \in ToSet(WrittenHead)
  <2>1. WrittenHead[13] = "ncols" /\ 13 \in DOMAIN WrittenHead
    BY DEF WrittenHead
  <2> QED BY <2>1 DEF ToSet
<1>3. head["ncols"] = ncols /\ RecordOf(head, WrittenHead)
  BY <1>2 DEF RecordOf
<1>5. /\ RecordsOf(cols, ncols, WrittenCol)
      /\ RecordsOf(params, nparams, WrittenParam) /\ Len(params) = nparams
      /\ RecordsOf(results, nresults, WrittenResult) /\ Len(results) = nresults
  <2>1. cols = MarkedList("col", ncols, WrittenCol) /\ params = MarkedList("param", nparams, WrittenParam)
        /\ results = MarkedList("result", nresults, WrittenResult)
    BY DEF MarkedList
  <2> HIDE DEF cols, params, results
  <2> QED BY <2>1, MarkedRecords
<1> HIDE DEF head, cols, params, results
<1> QED BY <1>1, <1>3, <1>5 DEF PlanState

LEMMA PlanIsSome == ASSUME NEW s, PlanState(s) PROVE s # NoState
<1>1. DOMAIN s.head = ToSet(WrittenHead)
  BY DEF PlanState, RecordOf
<1>2. WrittenHead[1] \in ToSet(WrittenHead)
  BY FieldLists DEF ToSet
<1>3. NoState.head = <<>>
  BY DEF NoState
<1>4. DOMAIN <<>> = {}
  OBVIOUS
<1> QED BY <1>1, <1>2, <1>3, <1>4

LEMMA PlanNext == ASSUME PlanInv, PlanDataNext PROVE PlanInv'
<1>1. ASSUME NEW ncols \in 0 .. MaxCols, NEW nparams \in 0 .. MaxParams, NEW nresults \in 0 .. MaxResults, NEW login,
             MakePlan(ncols, nparams, nresults, login)
      PROVE  PlanInv'
  <2>1. PlanState(planState')
    <3>1. ncols \in Nat /\ nparams \in Nat /\ nresults \in Nat
      OBVIOUS
    <3> QED BY <1>1, <3>1, PlanMade
  <2>2. planState = NoState /\ flat' = serializePlanData(planState') /\ execState' = execState
    BY <1>1 DEF MakePlan
  <2>3. execState = NoState
    BY <2>2, PlanIsSome DEF PlanInv
  <2> QED BY <2>1, <2>2, <2>3 DEF PlanInv
<1>2. CASE BeginWithPlan
  BY <1>2 DEF BeginWithPlan, PlanInv
<1>3. CASE EndWithPlan
  BY <1>3 DEF EndWithPlan, PlanInv
<1>4. CASE PlanDropped
  BY <1>4 DEF PlanDropped, PlanInv
<1> QED BY <1>1, <1>2, <1>3, <1>4 DEF PlanDataNext

----------------------------------------------------------------------------
(* LOBs.                                                                   *)

\* The bytes that have arrived: the first at of the LOB, in order.
Arrived == value = [i \in 1 .. at |-> i]

LobInv ==
  /\ lobCall \in {"idle", "read", "done", "error"}
  /\ lob \in [text : BOOLEAN, length : Int] /\ lob.length >= -1
  /\ lobCall = "read" /\ (lob.text \/ lob.length <= Chunk) =>
       /\ at \in Nat /\ (at = 0 \/ (lob.text /\ at <= lob.length))
       /\ Arrived
  /\ LobWhole

\* The next bytes are appended.
LEMMA MoreBytes ==
  ASSUME NEW n \in Nat, NEW k \in Nat
  PROVE  [i \in 1 .. n |-> i] \o [i \in 1 .. k |-> n + i] = [i \in 1 .. (n + k) |-> i]
<1> DEFINE s == [i \in 1 .. n |-> i]
           t == [i \in 1 .. k |-> n + i]
<1>1. /\ s \in Seq(Int) /\ Len(s) = n /\ \A i \in 1 .. n : s[i] = i
      /\ t \in Seq(Int) /\ Len(t) = k /\ \A i \in 1 .. k : t[i] = n + i
  <2>1. s \in [1 .. n -> Int] /\ t \in [1 .. k -> Int]
    OBVIOUS
  <2>2. \A i \in 1 .. n : s[i] = i
    OBVIOUS
  <2>3. \A i \in 1 .. k : t[i] = n + i
    OBVIOUS
  <2> HIDE DEF s, t
  <2>4. s \in Seq(Int) /\ Len(s) = n
    BY <2>1
  <2>5. t \in Seq(Int) /\ Len(t) = k
    BY <2>1
  <2> QED BY <2>2, <2>3, <2>4, <2>5
<1> HIDE DEF s, t
<1> DEFINE u == s \o t
<1>2. /\ u \in Seq(Int) /\ Len(u) = n + k
      /\ \A i \in 1 .. (n + k) : u[i] = IF i <= n THEN s[i] ELSE t[i - n]
  <2>1. s \in Seq(Int) /\ Len(s) = n /\ t \in Seq(Int) /\ Len(t) = k
    BY <1>1
  <2>2. u \in Seq(Int)
    BY <2>1
  <2>3. Len(u) = n + k
    BY <2>1
  <2>4. \A i \in 1 .. (n + k) : u[i] = IF i <= n THEN s[i] ELSE t[i - n]
    BY <2>1, ConcatProperties
  <2> QED BY <2>2, <2>3, <2>4
<1> HIDE DEF u
<1>3. ASSUME NEW i \in 1 .. (n + k) PROVE u[i] = i
  <2>1. CASE i <= n
    BY <1>1, <1>2, <2>1
  <2>2. CASE ~(i <= n)
    <3>1. i - n \in 1 .. k /\ u[i] = t[i - n]
      BY <1>2, <2>2
    <3> QED BY <1>1, <3>1
  <2> QED BY <2>1, <2>2
<1>4. u = [i \in 1 .. (n + k) |-> u[i]]
  BY <1>2
<1>5. u = [i \in 1 .. (n + k) |-> i]
  BY <1>3, <1>4
<1> QED BY <1>5 DEF s, t, u

\* A chunk that is not the last is full and is copied whole; the last one is
\* copied as far as there is data.
LEMMA ChunkStep ==
  ASSUME LobInv, GetChunk, lob.text \/ lob.length <= Chunk
  PROVE  /\ RawRc = "SUCCESS_WITH_INFO" => lob.text /\ at' <= lob.length
         /\ RawRc # "SUCCESS_WITH_INFO" => at' = Max({0, lob.length})
         /\ at' \in Nat /\ value' = [i \in 1 .. at' |-> i]
<1>1. /\ lobCall = "read" /\ lob.text \in BOOLEAN /\ lob.length \in Int /\ lob.length >= -1
      /\ at \in Nat /\ (at = 0 \/ (lob.text /\ at <= lob.length)) /\ Arrived
      /\ Chunk \in Nat /\ Chunk > 0 /\ at' = at + Delivered
  BY LobAssumption DEF LobInv, GetChunk
<1>2. Left \in Int /\ Left = lob.length - at /\ Room \in Nat
      /\ Room = IF lob.text THEN Chunk ELSE Chunk + 1
  BY <1>1 DEF Left, Room
<1>3. PICK ind \in Indicators : value' = value \o [i \in 1 .. Extend(ind) |-> at + i]
  BY DEF GetChunk
<1>4. CASE Left > Room
  <2>1. RawRc = "SUCCESS_WITH_INFO" /\ ind \in {Left, SQL_NO_TOTAL}
    BY <1>3, <1>4 DEF RawRc, Indicators
  <2>2. lob.text /\ Room = Chunk
    BY <1>1, <1>2, <1>4
  <2>3. Min({Room, Left}) = Chunk /\ Max({0, Chunk}) = Chunk /\ Delivered = Chunk
    BY <1>1, <1>2, <1>4, <2>2, MinOfTwo, MaxOfTwo DEF Delivered
  <2>4. Min({Left, Chunk}) = Chunk
    BY <1>1, <1>2, <1>4, <2>2, MinOfTwo
  <2>5. Extend(ind) = Chunk
    BY <2>1, <2>3, <2>4 DEF Extend
  <2>6. value' = [i \in 1 .. (at + Chunk) |-> i]
    BY <1>1, <1>3, <2>5, MoreBytes DEF Arrived
  <2>7. at' = at + Chunk /\ at' <= lob.length
    BY <1>1, <1>2, <1>4, <2>2, <2>3
  <2> QED BY <1>1, <2>1, <2>2, <2>6, <2>7
<1>5. CASE ~(Left > Room)
  <2> DEFINE k == IF Left >= 0 THEN Left ELSE 0
  <2>1. RawRc = "SUCCESS" /\ ind = Left
    BY <1>3, <1>5 DEF RawRc, Indicators
  <2>2. Min({Room, Left}) = Left /\ Max({0, Left}) = k /\ Delivered = k /\ k \in Nat
    BY <1>2, <1>5, MinOfTwo, MaxOfTwo DEF Delivered
  <2>3. Left <= Chunk
    BY <1>1, <1>2, <1>5
  <2>4. Min({Left, Chunk}) = Left
    BY <1>1, <1>2, <2>3, MinOfTwo
  <2>5. Extend(ind) = k
    <3>1. Left # SQL_NO_TOTAL
      BY <1>1, <1>2 DEF SQL_NO_TOTAL
    <3> QED BY <2>1, <2>2, <2>4, <3>1 DEF Extend
  <2>6. at + k = IF lob.length >= 0 THEN lob.length ELSE 0
    BY <1>1, <1>2
  <2>7. Max({0, lob.length}) = IF lob.length >= 0 THEN lob.length ELSE 0
    BY <1>1, MaxOfTwo
  <2> HIDE DEF k
  <2>8. at' = at + k /\ at' = Max({0, lob.length}) /\ at' \in Nat
    BY <1>1, <2>2, <2>6, <2>7
  <2>9. value' = [i \in 1 .. (at + k) |-> i]
    BY <1>1, <1>3, <2>2, <2>5, MoreBytes DEF Arrived
  <2> QED BY <2>1, <2>8, <2>9
<1> QED BY <1>4, <1>5

LEMMA LobInductive == LobInv /\ [LobNext]_lobVars => LobInv'
<1> SUFFICES ASSUME LobInv, [LobNext]_lobVars PROVE LobInv'
  OBVIOUS
<1>1. CASE db2GetLob
  <2>1. /\ lobCall' = "read" /\ at' = 0 /\ value' = <<>>
        /\ lob' \in [text : BOOLEAN, length : Int] /\ lob'.length >= -1
    BY <1>1, LobAssumption DEF db2GetLob
  <2>2. <<>> = [i \in 1 .. 0 |-> i]
    OBVIOUS
  <2> QED BY <2>1, <2>2 DEF LobInv, Arrived, LobWhole
<1>2. CASE GetChunk
  <2>1. lob' = lob /\ lobCall' = IF RawRc = "SUCCESS_WITH_INFO" THEN "read" ELSE "done"
    BY <1>2 DEF GetChunk, Continues
  <2>2. CASE lob.text \/ lob.length <= Chunk
    BY <1>2, <2>1, <2>2, ChunkStep DEF LobInv, Arrived, LobWhole
  <2>3. CASE ~(lob.text \/ lob.length <= Chunk)
    BY <2>1, <2>3 DEF LobInv, LobWhole
  <2> QED BY <2>2, <2>3
<1>3. CASE ChunkFails
  BY <1>3 DEF ChunkFails, LobInv, LobWhole
<1>4. CASE LobReturns
  BY <1>4 DEF LobReturns, LobInv, LobWhole
<1>5. CASE UNCHANGED lobVars
  BY <1>5 DEF lobVars, LobInv, LobWhole, Arrived
<1> QED BY <1>1, <1>2, <1>3, <1>4, <1>5 DEF LobNext

\* A text LOB of any length arrives whole for every chunk size, in however
\* many chunks and whether or not DB2 tells its length, and binary data up to
\* the size of a chunk does.
THEOREM LobArrivesWhole == LobSpec => []LobWhole
<1>1. LobInit => LobInv
  BY DEF LobInit, LobInv, LobWhole
<1>2. LobInv => LobWhole
  BY DEF LobInv
<1> QED BY <1>1, <1>2, LobInductive, PTL DEF LobSpec

----------------------------------------------------------------------------
(* ANALYZE.                                                                *)

\* No row is in the sample twice, and none that is still to come.
Sampled(n) ==
  /\ sample \in Seq(0 .. n)
  /\ Len(sample) = IF TargRows <= n + 1 THEN TargRows ELSE n + 1
  /\ \A i, j \in DOMAIN sample : i # j => sample[i] # sample[j]

AnalyzeInv ==
  /\ sampling \in {"idle", "prepare", "fetch", "done"}
  /\ inTable \in Nat
  /\ sampling = "prepare" => delivered = 0 /\ sample = <<>> /\ rowcount = -1
  /\ sampling \in {"fetch", "done"} =>
       delivered \in 0 .. inTable /\ rowcount = delivered /\ Sampled(delivered)
  /\ sampling = "done" => delivered = inTable

\* A row that is not in the sample is added to it or replaces one.
LEMMA CollectStep ==
  ASSUME NEW n \in Nat, Sampled(n), Collect(n + 1)
  PROVE  Sampled(n + 1)'
<1> DEFINE len == Len(sample)
<1>1. /\ sample \in Seq(0 .. n) /\ len \in Nat /\ DOMAIN sample = 1 .. len
      /\ len = IF TargRows <= n + 1 THEN TargRows ELSE n + 1
      /\ TargRows \in Nat /\ TargRows > 0
      /\ \A i \in 1 .. len : sample[i] \in 0 .. n
      /\ \A i, j \in 1 .. len : i # j => sample[i] # sample[j]
  BY AnalyzeAssumption DEF Sampled
<1>2. 0 .. n \subseteq 0 .. (n + 1) /\ n + 1 \in 0 .. (n + 1) /\ n + 1 \notin 0 .. n
      /\ sample \in Seq(0 .. (n + 1))
  BY <1>1
<1>3. CASE len < TargRows
  <2>1. sample' = Append(sample, n + 1)
    BY <1>3 DEF Collect
  <2>2. /\ sample' \in Seq(0 .. (n + 1)) /\ Len(sample') = len + 1
        /\ DOMAIN sample' = 1 .. (len + 1)
        /\ \A i \in 1 .. (len + 1) : sample'[i] = IF i = len + 1 THEN n + 1 ELSE sample[i]
    BY <1>1, <1>2, <2>1
  <2>3. len = n + 1 /\ len + 1 = IF TargRows <= n + 2 THEN TargRows ELSE n + 2
    BY <1>1, <1>3
  <2>4. \A i \in 1 .. (len + 1) : i = len + 1 \/ i \in 1 .. len
    BY <1>1
  <2>5. ASSUME NEW i \in 1 .. (len + 1), NEW j \in 1 .. (len + 1), i # j
        PROVE  sample'[i] # sample'[j]
    <3>1. \A m \in 1 .. len : sample'[m] = sample[m] /\ sample'[m] # n + 1
      <4>1. ASSUME NEW m \in 1 .. len PROVE sample'[m] = sample[m] /\ sample[m] # n + 1
        <5>1. m \in 1 .. (len + 1) /\ m # len + 1
          BY <1>1
        <5>2. sample[m] \in 0 .. n
          BY <1>1
        <5> QED BY <1>2, <2>2, <5>1, <5>2
      <4> QED BY <4>1
    <3>2. sample'[len + 1] = n + 1
      BY <1>1, <2>2
    <3>3. CASE i \in 1 .. len /\ j \in 1 .. len
      BY <1>1, <2>5, <3>1, <3>3
    <3>4. CASE i = len + 1 \/ j = len + 1
      BY <2>4, <2>5, <3>1, <3>2, <3>4
    <3> QED BY <2>4, <3>3, <3>4
  <2> QED BY <2>2, <2>3, <2>5 DEF Sampled
<1>4. CASE ~(len < TargRows)
  <2>1. PICK k \in DOMAIN sample : sample' = [sample EXCEPT ![k] = n + 1]
    BY <1>4 DEF Collect
  <2>2. /\ sample' \in Seq(0 .. (n + 1)) /\ Len(sample') = len
        /\ DOMAIN sample' = 1 .. len
        /\ \A i \in 1 .. len : sample'[i] = IF i = k THEN n + 1 ELSE sample[i]
    BY <1>1, <1>2, <2>1
  <2>3. len = TargRows /\ TargRows <= n + 2
    BY <1>1, <1>4
  <2>4. ASSUME NEW i \in 1 .. len, NEW j \in 1 .. len, i # j
        PROVE  sample'[i] # sample'[j]
    <3>1. sample[i] # n + 1 /\ sample[j] # n + 1 /\ sample[i] # sample[j]
      BY <1>1, <1>2, <2>4
    <3> QED BY <2>2, <2>4, <3>1
  <2> QED BY <2>2, <2>3, <2>4 DEF Sampled
<1> QED BY <1>3, <1>4

LEMMA AnalyzeInductive == AnalyzeInv /\ [AnalyzeNext]_analyzeVars => AnalyzeInv'
<1> SUFFICES ASSUME AnalyzeInv, [AnalyzeNext]_analyzeVars PROVE AnalyzeInv'
  OBVIOUS
<1>1. CASE acquireSampleRowsFunc
  BY <1>1, AnalyzeAssumption DEF acquireSampleRowsFunc, RowcountAtStart, AnalyzeInv
<1>2. CASE SampleRow /\ sampling = "prepare"
  <2>1. /\ sampling' = "fetch" /\ delivered = 0 /\ delivered' = 0 /\ inTable' = inTable
        /\ sample = <<>> /\ rowcount' = 0 /\ Collect(0)
    BY <1>2 DEF SampleRow, NextRow, Collect, AnalyzeInv
  <2>2. sample' = Append(sample, 0)
    BY <2>1, AnalyzeAssumption DEF Collect
  <2>3. sample \in Seq(0 .. 0) /\ Len(sample) = 0 /\ 0 \in 0 .. 0
    BY <2>1
  <2>4. sample' \in Seq(0 .. 0) /\ Len(sample') = 1 /\ DOMAIN sample' = 1 .. 1
    BY <2>2, <2>3
  <2>5. \A i, j \in 1 .. 1 : i = j
    OBVIOUS
  <2>6. (IF TargRows <= 0 + 1 THEN TargRows ELSE 0 + 1) = 1
    BY AnalyzeAssumption
  <2>7. Sampled(0)'
    BY <2>4, <2>5, <2>6 DEF Sampled
  <2> QED BY <2>1, <2>7 DEF AnalyzeInv
<1>3. CASE SampleRow /\ sampling = "fetch"
  <2>1. /\ sampling' = "fetch" /\ delivered \in Nat /\ delivered' = delivered + 1
        /\ delivered' \in 0 .. inTable' /\ inTable' = inTable /\ inTable \in Nat
        /\ rowcount' = delivered' /\ Collect(delivered + 1) /\ Sampled(delivered)
    BY <1>3 DEF SampleRow, NextRow, Collect, AnalyzeInv
  <2>2. PICK n \in Nat : n = delivered
    BY <2>1
  <2>3. Sampled(n + 1)'
    BY <2>1, <2>2, CollectStep
  <2>4. Sampled(delivered)'
    BY <2>1, <2>2, <2>3 DEF Sampled
  <2> QED BY <2>1, <2>4 DEF AnalyzeInv
<1>4. CASE FetchEnd
  BY <1>4 DEF FetchEnd, AnalyzeInv, Sampled
<1>5. CASE SampleTaken
  BY <1>5 DEF SampleTaken, AnalyzeInv
<1>6. CASE UNCHANGED analyzeVars
  BY <1>6 DEF analyzeVars, AnalyzeInv, Sampled
<1> QED BY <1>1, <1>2, <1>3, <1>4, <1>5, <1>6 DEF AnalyzeNext, SampleRow, NextRow

\* ANALYZE counts the rows DB2 has, and its sample has as many as it should
\* and none twice, for every sample size and every size of the table.
THEOREM SampleIsCounted == AnalyzeSpec => []SampleCounted
<1>1. AnalyzeInit => AnalyzeInv
  BY DEF AnalyzeInit, AnalyzeInv
<1>2. AnalyzeInv => SampleCounted
  <2> SUFFICES ASSUME AnalyzeInv, sampling = "done" PROVE SampleCounted
    BY DEF SampleCounted
  <2>1. Min({TargRows, inTable + 1}) = IF TargRows <= inTable + 1 THEN TargRows ELSE inTable + 1
    BY MinOfTwo, AnalyzeAssumption DEF AnalyzeInv
  <2> QED BY <2>1 DEF AnalyzeInv, SampleCounted, Sampled
<1> QED BY <1>1, <1>2, AnalyzeInductive, PTL DEF AnalyzeSpec

----------------------------------------------------------------------------
(* All of them.                                                            *)

\* Each part keeps its own, and leaves the variables of the others alone.
TablesInv == CatalogInv /\ ImportedAsListed /\ PlanInv /\ LobInv /\ AnalyzeInv

LEMMA CatalogUnchanged ==
  ASSUME CatalogInv, ImportedAsListed, UNCHANGED tableVars
  PROVE  CatalogInv' /\ ImportedAsListed'
<1>1. UNCHANGED <<tables, desc, lastImport, crashed>>
  BY DEF tableVars
<1>2. CatalogInv'
  BY <1>1 DEF CatalogInv
<1>3. ImportedAsListed'
  BY <1>1 DEF ImportedAsListed
<1> QED BY <1>2, <1>3

LEMMA PlanUnchanged == ASSUME PlanInv, UNCHANGED planVars PROVE PlanInv'
BY DEF PlanInv, planVars

LEMMA TablesStart == ASSUME Init PROVE TablesInv
<1>1. CatalogInv /\ ImportedAsListed
  <2>1. tables = <<>> /\ desc = <<>> /\ lastImport = NoImport
    BY DEF Init, TableInit
  <2>2. DOMAIN tables = {} /\ DOMAIN desc = {}
    BY <2>1
  <2> QED BY <2>1, <2>2 DEF CatalogInv, ImportedAsListed
<1>2. PlanInv
  BY DEF Init, PlanInit, PlanInv
<1>3. LobInv
  BY DEF Init, LobInit, LobInv, LobWhole
<1>4. AnalyzeInv
  BY DEF Init, AnalyzeInit, AnalyzeInv
<1> QED BY <1>1, <1>2, <1>3, <1>4 DEF TablesInv

LEMMA TablesStep == ASSUME TablesInv, [Next]_vars PROVE TablesInv'
<1> USE DEF TablesInv
<1>1. CASE TableNext /\ UNCHANGED <<planVars, lobVars, analyzeVars>>
  BY <1>1, CatalogNext, ImportedNext, PlanUnchanged, LobInductive, AnalyzeInductive
<1>2. CASE PlanDataNext /\ UNCHANGED <<tableVars, lobVars, analyzeVars>>
  BY <1>2, PlanNext, CatalogUnchanged, LobInductive, AnalyzeInductive
<1>3. CASE LobNext /\ UNCHANGED <<tableVars, planVars, analyzeVars>>
  BY <1>3, CatalogUnchanged, PlanUnchanged, LobInductive, AnalyzeInductive
<1>4. CASE AnalyzeNext /\ UNCHANGED <<tableVars, planVars, lobVars>>
  BY <1>4, CatalogUnchanged, PlanUnchanged, LobInductive, AnalyzeInductive
<1>5. CASE UNCHANGED vars
  <2>1. UNCHANGED tableVars /\ UNCHANGED planVars /\ UNCHANGED lobVars /\ UNCHANGED analyzeVars
    BY <1>5 DEF vars
  <2> QED BY <2>1, CatalogUnchanged, PlanUnchanged, LobInductive, AnalyzeInductive
<1> QED BY <1>1, <1>2, <1>3, <1>4, <1>5 DEF Next

\* The inductive invariant of what a backend does with its foreign tables.
THEOREM TablesInvariant == Spec => []TablesInv
BY TablesStart, TablesStep, PTL DEF Spec

\* Whichever way a table is described, and whatever was dropped, added and set
\* after the import, each attribute whose column the code finds in DB2 has one
\* entry, with what DB2 has for the column.
THEOREM TablesDescribed == Spec => []ColumnsDescribed
<1>1. TablesInv => ColumnsDescribed
  BY CatalogDescribed DEF TablesInv
<1> QED BY <1>1, TablesInvariant, PTL

\* The tables an import makes are those its list names, or those it does not.
THEOREM TablesImportedAsListed == Spec => []ImportedAsListed
<1>1. TablesInv => ImportedAsListed
  BY DEF TablesInv
<1> QED BY <1>1, TablesInvariant, PTL

\* Every column of an imported table has a type it can be read with.
THEOREM TablesImportedUsable == Spec => []ImportedIsUsable
<1>1. TablesInv => ImportedIsUsable
  BY CatalogUsable DEF TablesInv
<1> QED BY <1>1, TablesInvariant, PTL

\* The executor reads from the list of constants what the planner wrote, for
\* any number of columns, parameters and results.
THEOREM TablesDeserialized == Spec => []DeserializedAsWritten
<1>1. TablesInv => DeserializedAsWritten
  BY PlanSerialized DEF TablesInv
<1> QED BY <1>1, TablesInvariant, PTL
=============================================================================
