------------------------------- MODULE Session -------------------------------
(***************************************************************************)
(* One table seen through the classes above the storage layer: SQL         *)
(* (includes/sql/sql.cpp), which opens the table anew for every statement, *)
(* and a Table (includes/table/table.cpp) that a caller keeps.  A Table    *)
(* holds a copy of the rows and answers filters from the file's index      *)
(* (format v2) or from an index of its own (format v1).                    *)
(*                                                                         *)
(* The storage layer is what module AtomicTable promises: a call that      *)
(* throws was applied or was not.  A v1 program may append to a v1 table,  *)
(* and a migration may promote it to v2 between two statements (module     *)
(* Migration).  Statements arrive parsed (module SqlCommand).  Records are *)
(* numbered from 1 here, from 0 in the code.                               *)
(* Cells are strings; integers in their order stand for them.              *)
(***************************************************************************)
EXTENDS Integers, FiniteSets, SequencesExt

CONSTANTS
    Schema,         \* the fields of the table, in order
    Rows,           \* the rows that may be inserted
    Values,         \* the values filters compare with
    BadRows,        \* value lists of another length
    Projections,    \* the field lists of SELECT
    Filters,        \* the WHERE clauses of SELECT
    MaxRows         \* bound on the rows of the table

ASSUME MaxRowsAssumption == MaxRows \in Nat \ {0}
ASSUME RowsAssumption == \A row \in Rows : row \in Seq(Int) /\ Len(row) = Len(Schema)
ASSUME BadRowsAssumption == \A row \in BadRows : Len(row) # Len(Schema)
\* create_table refuses a schema that is empty or names a field twice.
ASSUME SchemaAssumption == Schema \in Seq(STRING) \ {<<>>} /\ IsInjective(Schema)
\* A field may be named twice.
ASSUME ProjectionsAssumption == \A projection \in Projections : projection \in Seq(STRING)

Ops == {"=", "!=", "<", "<=", ">", ">="}
FieldNames == ToSet(Schema)
Index(field) == CHOOSE i \in DOMAIN Schema : Schema[i] = field

\* A WHERE clause: comparisons, joined by one logical operator if two.
Comparison(field, op, value) == [field |-> field, op |-> op, value |-> value]
Clause(comparisons, logical) == [comparisons |-> comparisons, logical |-> logical]
NoClause == Clause(<<>>, "and")

ASSUME FiltersAssumption ==
    /\ Values \subseteq Int
    /\ \A clause \in Filters :
          LET count == Len(clause.comparisons)
          IN  /\ clause.comparisons \in Seq([field : STRING, op : Ops, value : Values])
              /\ clause = Clause(clause.comparisons, clause.logical)
              /\ clause.logical \in {"and", "or"}
              /\ count <= 2
              /\ count = 0 => clause = NoClause

-----------------------------------------------------------------------------
(* Sorting and picking: std::sort, the order of an index, push_back of what  *)
(* passes a test.                                                            *)

\* The elements of a finite set from the first to the last of a strict order,
\* which is a set of pairs.
Arranged(S, order) ==
    CHOOSE s \in [1 .. Cardinality(S) -> S] :
        /\ ToSet(s) = S
        /\ \A i, j \in DOMAIN s : i < j => <<s[i], s[j]>> \in order

Less(S) == {pair \in S \X S : pair[1] < pair[2]}
Ascending(S) == Arranged(S, Less(S))

\* What a sequence holds at these positions.
Picked(s, positions) ==
    LET order == Ascending(positions) IN [k \in DOMAIN order |-> s[order[k]]]

VARIABLES
    format,     \* the table's files: "none", "v1", "wal" (only a WAL), "v2"
    rows,       \* the rows a reader of the files finds
    handle,     \* a Table kept by a caller
    last        \* the last statement and the table that came of it

vars == <<format, rows, handle, last>>

\* Files of format v1 or v2, or a complete WAL of the latter.
Exists == format # "none"
IsV2 == format \in {"wal", "v2"}

\* Of a Table: what later operations on it read, and what a caller is shown.
NoTable == [numRecords |-> 0, storedRows |-> <<>>, v2 |-> FALSE, open |-> FALSE]
NoResult == [fieldNames |-> <<>>, recordIndices |-> <<>>, printQueue |-> <<>>]

Reply(by, what, projection, clause, threw, error, result) ==
    [by |-> by, what |-> what, projection |-> projection, clause |-> clause,
     threw |-> threw, error |-> error, result |-> result]
NoReply == Reply("nobody", "nothing", <<>>, NoClause, FALSE, FALSE, NoResult)

Init ==
    /\ \/ format = "none" /\ rows = <<>>
       \/ format = "v1" /\ rows \in {<<>>} \union {<<row>> : row \in Rows}
    /\ handle = NoTable
    /\ last = NoReply

-----------------------------------------------------------------------------
(* Table *)

\* The constructor for a table that exists, and the one for CREATE TABLE.
OpenTable == [numRecords |-> Len(rows), storedRows |-> rows, v2 |-> IsV2, open |-> TRUE]
NewTable == [numRecords |-> 0, storedRows |-> <<>>, v2 |-> TRUE, open |-> TRUE]

\* MUTANT: the record is not counted.
WithRowUncounted(table, row) ==
    [table EXCEPT !.storedRows = Append(@, row)]

\* insert_into, after the storage layer has stored the row.
WithRow(table, row) ==
    [table EXCEPT !.storedRows = Append(@, row), !.numRecords = @ + 1]

\* What is shown of a table that was opened, created or inserted into.
Whole(table) ==
    [fieldNames |-> Schema, recordIndices |-> [i \in 1 .. table.numRecords |-> i],
     printQueue |-> FlattenSeq(table.storedRows)]

Matches(cell, op, value) ==
    CASE op = "="  -> cell = value
      [] op = "!=" -> cell # value
      [] op = "<"  -> cell < value
      [] op = "<=" -> cell <= value
      [] op = ">"  -> cell > value
      [] op = ">=" -> cell >= value

\* Records in the order of a field's cells, and of their numbers.
ByCell(table, f) ==
    {pair \in (DOMAIN table) \X (DOMAIN table) :
        \/ table[pair[1]][f] < table[pair[2]][f]
        \/ table[pair[1]][f] = table[pair[2]][f] /\ pair[1] < pair[2]}

\* query_index: a scan of the persistent index of the field, whose entries are
\* ordered by value and record.
QueryIndex(c) ==
    LET entries == Arranged(DOMAIN rows, ByCell(rows, Index(c.field)))
    IN  Picked(entries, {i \in DOMAIN entries :
                            Matches(rows[entries[i]][Index(c.field)], c.op, c.value)})

\* The MMap of a field of a v1 table: its keys, the list of records of a key,
\* the keys from lower_bound and from upper_bound on, and get_record_indices.
Keys(copy, field) == {copy[r][Index(field)] : r \in DOMAIN copy}
ValueList(copy, field, key) ==
    Ascending({r \in DOMAIN copy : copy[r][Index(field)] = key})
FromLowerBound(copy, field, value) == {k \in Keys(copy, field) : k >= value}
FromUpperBound(copy, field, value) == {k \in Keys(copy, field) : k > value}
GetRecordIndices(copy, field, keys) ==
    LET inOrder == Ascending(keys)
    IN  FlattenSeq([i \in DOMAIN inOrder |-> ValueList(copy, field, inOrder[i])])

\* MUTANT: the bounds of < and <= are swapped.
QueryCacheSwapped(copy, c) ==
    LET all == Keys(copy, c.field)
    IN  GetRecordIndices(copy, c.field,
              CASE c.op = "="  -> all \intersect {c.value}
                [] c.op = "<=" -> all \ FromLowerBound(copy, c.field, c.value)
                [] c.op = "<"  -> all \ FromUpperBound(copy, c.field, c.value)
                [] c.op = ">=" -> FromLowerBound(copy, c.field, c.value)
                [] c.op = ">"  -> FromUpperBound(copy, c.field, c.value)
                [] c.op = "!=" -> all \ {c.value})

\* selectHelp on the cache of a v1 table: between begin, lower_bound,
\* upper_bound and end.
QueryCache(copy, c) ==
    LET all == Keys(copy, c.field)
    IN  GetRecordIndices(copy, c.field,
              CASE c.op = "="  -> all \intersect {c.value}
                [] c.op = "<=" -> all \ FromUpperBound(copy, c.field, c.value)
                [] c.op = "<"  -> all \ FromLowerBound(copy, c.field, c.value)
                [] c.op = ">=" -> FromLowerBound(copy, c.field, c.value)
                [] c.op = ">"  -> FromUpperBound(copy, c.field, c.value)
                [] c.op = "!=" -> all \ {c.value})

\* MUTANT: the filter of a v2 table is evaluated on its copy too.
SelectHelpCopy(table, c) == QueryCache(table.storedRows, c)

SelectHelp(table, c) == IF table.v2 THEN QueryIndex(c) ELSE QueryCache(table.storedRows, c)

\* my_union and my_intersection.
MyUnion(a, b) == Ascending(ToSet(a) \union ToSet(b))
MyIntersection(a, b) == Ascending(ToSet(a) \intersect ToSet(b))

\* Eval, and the records without a WHERE clause.
Selected(table, clause) ==
    CASE Len(clause.comparisons) = 0 -> [i \in 1 .. table.numRecords |-> i]
      [] Len(clause.comparisons) = 1 -> SelectHelp(table, clause.comparisons[1])
      [] Len(clause.comparisons) = 2 ->
            LET a == SelectHelp(table, clause.comparisons[1])
                b == SelectHelp(table, clause.comparisons[2])
            IN  IF clause.logical = "or" THEN MyUnion(a, b) ELSE MyIntersection(a, b)

\* validate_projection, and the fields a projection names.
ProjectionKnown(projection) ==
    projection \in {<<>>, <<"*">>} \/ ToSet(projection) \subseteq FieldNames
Names(projection) == IF projection = <<>> \/ projection[1] = "*" THEN Schema ELSE projection

ClauseKnown(clause) == \A i \in DOMAIN clause.comparisons : clause.comparisons[i].field \in FieldNames

\* permutate_fields: the order of the schema, a field as often as it is named.
PermutateFields(names) ==
    LET indices == [i \in DOMAIN names |-> <<Index(names[i])>>]
        order == Arranged(DOMAIN names, ByCell(indices, 1))
    IN  [k \in DOMAIN order |-> names[order[k]]]

\* The cells of a row that are shown: those of the named fields, each once.
Named(names) == {i \in DOMAIN Schema : Schema[i] \in ToSet(names)}
ProjectRow(row, names) == Picked(row, Named(names))

OutOfRange(table, records) == \E r \in ToSet(records) : r > Len(table.storedRows)

\* The table a SELECT returns.
ResultTable(table, header, names, records) ==
    [fieldNames |-> header, recordIndices |-> records,
     printQueue |-> FlattenSeq([k \in DOMAIN records |->
                                   ProjectRow(table.storedRows[records[k]], names)])]

\* operator<<: cells in lines as long as the header.
Printed(result) ==
    LET n == Len(result.fieldNames)
        cells == Len(result.printQueue)
        lines == IF n = 0 THEN 0 ELSE (cells + n - 1) \div n
    IN  [k \in 1 .. lines |-> SubSeq(result.printQueue, n * (k - 1) + 1,
                                     IF n * k < cells THEN n * k ELSE cells)]

-----------------------------------------------------------------------------
(* The storage layer *)

\* Opening a table whose database was never written applies its WAL.
Recovered == IF format = "wal" THEN "v2" ELSE format
Open(threw) == format' \in {Recovered} \union {f \in {format} : threw}

CreateFiles(threw) ==
    /\ format' \in IF threw THEN {"none", "wal", "v2"} ELSE {"v2"}
    /\ rows' = <<>>

\* A row is stored in a table that was recovered first.
InsertRow(row, threw) ==
    \/ format' = Recovered /\ rows' = Append(rows, row)
    \/ threw /\ Open(threw) /\ UNCHANGED rows

-----------------------------------------------------------------------------
(* SQL::command; an exception leaves an error and an empty _table *)

\* A statement begins when the reply to the one before was taken.
Ready == last = NoReply

SqlReply(what, projection, clause, threw, error, result) ==
    last' = Reply("sql", what, projection, clause, threw, error,
                  IF error THEN NoResult ELSE result)

SqlCreate(schemaValid) ==
    /\ Ready
    /\ \/ /\ Exists \/ ~schemaValid
          /\ SqlReply("create", <<>>, NoClause, FALSE, TRUE, NoResult)
          /\ UNCHANGED <<format, rows>>
       \/ /\ ~Exists /\ schemaValid
          /\ \E threw \in BOOLEAN :
                /\ CreateFiles(threw)
                /\ SqlReply("create", <<>>, NoClause, threw, threw, Whole(NewTable))
    /\ UNCHANGED handle

\* insert_into refuses another number of values, and v1 tables.
Insertable(v2, values) == v2 /\ Len(values) = Len(Schema)

SqlInsert(values) ==
    /\ Ready
    /\ \/ /\ ~Exists \/ ~Insertable(IsV2, values)
          /\ \E threw \in BOOLEAN : Open(threw)
          /\ SqlReply("insert", <<>>, NoClause, FALSE, TRUE, NoResult)
          /\ UNCHANGED rows
       \/ /\ Exists /\ Insertable(IsV2, values) /\ Len(rows) < MaxRows
          /\ \E threw \in BOOLEAN :
                /\ InsertRow(values, threw)
                /\ SqlReply("insert", <<>>, NoClause, threw, threw,
                            Whole(WithRow(OpenTable, values)))
    /\ UNCHANGED handle

Valid(projection, clause) == ProjectionKnown(projection) /\ ClauseKnown(clause)

\* Table(table_name).select(fields, condition).
SqlSelect(projection, clause) ==
    /\ Ready
    /\ \E threw \in BOOLEAN :
          LET names == Names(projection)
          IN  /\ Open(threw)
              /\ SqlReply("select", projection, clause, threw,
                          threw \/ ~Exists \/ ~Valid(projection, clause),
                          ResultTable(OpenTable, PermutateFields(names), names,
                                      Selected(OpenTable, clause)))
    /\ UNCHANGED <<rows, handle>>

\* batch of a file that is not there: _table stays what it was.
SqlBatchMissing ==
    /\ last.by = "sql"
    /\ last' = [last EXCEPT !.by = "batch", !.error = TRUE]
    /\ UNCHANGED <<format, rows, handle>>

-----------------------------------------------------------------------------
(* A Table that is kept *)

HandleOpen ==
    /\ Ready /\ Exists
    /\ \E threw \in BOOLEAN :
          /\ Open(threw)
          /\ handle' = IF threw THEN handle ELSE OpenTable
    /\ last' = NoReply
    /\ UNCHANGED rows

\* create_table.
HandleCreate ==
    /\ Ready /\ ~Exists
    /\ \E threw \in BOOLEAN :
          /\ CreateFiles(threw)
          /\ handle' = IF threw THEN handle ELSE NewTable
    /\ last' = NoReply

\* MUTANT: the copy is brought up to date before the file.
HandleInsertEarly(values) ==
    /\ Ready /\ handle.open /\ Insertable(handle.v2, values) /\ Len(rows) < MaxRows
    /\ \E threw \in BOOLEAN : InsertRow(values, threw)
    /\ handle' = WithRow(handle, values)
    /\ last' = NoReply

\* A refused insertion changes nothing.
HandleInsert(values) ==
    /\ Ready /\ handle.open /\ Insertable(handle.v2, values) /\ Len(rows) < MaxRows
    /\ \E threw \in BOOLEAN :
          /\ InsertRow(values, threw)
          /\ handle' = IF threw THEN handle ELSE WithRow(handle, values)
    /\ last' = NoReply

\* Storage is asked, and may throw, only for a filter of a v2 table.
HandleQuery(projection, clause, header, records) ==
    /\ \E threw \in BOOLEAN :
          LET asked == handle.v2 /\ clause # NoClause
              error == threw \/ OutOfRange(handle, records)
          IN  /\ threw => asked
              /\ IF asked THEN Open(threw) ELSE UNCHANGED format
              /\ last' = Reply("handle", "select", projection, clause, threw, error,
                               IF error THEN NoResult
                               ELSE ResultTable(handle, header, Names(projection), records))
    /\ UNCHANGED <<rows, handle>>

\* The SELECT of an expression,
HandleSelect(projection, clause) ==
    /\ Ready /\ handle.open /\ Valid(projection, clause)
    /\ HandleQuery(projection, clause, PermutateFields(Names(projection)),
                   Selected(handle, clause))

\* and that of one comparison, which keeps the whole header.
HandleSelectOne(projection, clause) ==
    /\ Ready /\ handle.open /\ Valid(projection, clause)
    /\ Len(clause.comparisons) = 1
    /\ HandleQuery(projection, clause, Schema, SelectHelp(handle, clause.comparisons[1]))

-----------------------------------------------------------------------------
(* The program ends and is started again; other programs *)

Restart ==
    /\ Ready
    /\ handle' = NoTable
    /\ last' = NoReply
    /\ UNCHANGED <<format, rows>>

V1Append(row) ==
    /\ Ready /\ format = "v1" /\ Len(rows) < MaxRows
    /\ rows' = Append(rows, row)
    /\ last' = NoReply
    /\ UNCHANGED <<format, handle>>

\* What was appended after the migration looked at the source for the last
\* time is not migrated (module Migration).
Migrate ==
    /\ Ready /\ format = "v1" /\ format' = "v2"
    /\ rows' \in {SubSeq(rows, 1, n) : n \in 0 .. Len(rows)}
    /\ last' = NoReply
    /\ UNCHANGED handle

\* The caller takes the table and the error flag of the last statement.
TakeReply ==
    /\ last # NoReply
    /\ last' = NoReply
    /\ UNCHANGED <<format, rows, handle>>

Next ==
    \/ \E schemaValid \in BOOLEAN : SqlCreate(schemaValid)
    \/ \E values \in Rows \union BadRows : SqlInsert(values) \/ HandleInsert(values)
    \/ \E projection \in Projections, clause \in Filters :
          \/ SqlSelect(projection, clause)
          \/ HandleSelect(projection, clause)
          \/ HandleSelectOne(projection, clause)
    \/ SqlBatchMissing \/ HandleOpen \/ HandleCreate
    \/ Restart \/ Migrate \/ \E row \in Rows : V1Append(row)
    \/ TakeReply

Spec == Init /\ [][Next]_vars

-----------------------------------------------------------------------------
(* Properties *)

\* The number of records of a Table that was opened is the length of its copy,
\* and a Table opened on format v2 stays on a table of that format.
TablesOK ==
    /\ format \in {"none", "v1", "wal", "v2"}
    /\ rows \in Seq(Rows) /\ Len(rows) <= MaxRows
    /\ format \in {"none", "wal"} => rows = <<>>
    /\ handle \in [numRecords : Nat, storedRows : Seq(Rows), v2 : BOOLEAN, open : BOOLEAN]
    /\ handle.numRecords = Len(handle.storedRows)
    /\ handle.v2 => IsV2

\* What is shown of a table names records and fields it has (run_sql).
TypeOK ==
    /\ TablesOK
    /\ last.result.fieldNames \in Seq(FieldNames)
    /\ last.result.recordIndices \in Seq(1 .. MaxRows)
    /\ last.threw \in BOOLEAN /\ last.error \in BOOLEAN

\* What a SELECT means: the rows that satisfy the clause, by value where one
\* comparison was asked for and by record elsewhere, each with the named cells
\* in the order of the schema.
Holds(row, c) == Matches(row[Index(c.field)], c.op, c.value)
Satisfies(row, clause) ==
    LET holds == {i \in DOMAIN clause.comparisons : Holds(row, clause.comparisons[i])}
    IN  IF clause.logical = "or" THEN holds # {} ELSE holds = DOMAIN clause.comparisons
Meaning(table, clause) ==
    LET records == {r \in DOMAIN table : Satisfies(table[r], clause)}
    IN  IF Len(clause.comparisons) = 1
        THEN Arranged(records, ByCell(table, Index(clause.comparisons[1].field)))
        ELSE Ascending(records)
MeantRows(table, names, records) ==
    [k \in DOMAIN records |-> ProjectRow(table[records[k]], names)]

\* The same fields, each as often, in the order of the schema.
Positions(s, field) == {i \in DOMAIN s : s[i] = field}
InSchemaOrder(header, names) ==
    /\ \A i, j \in DOMAIN header : i < j => Index(header[i]) <= Index(header[j])
    /\ \A field \in FieldNames :
          Cardinality(Positions(header, field)) = Cardinality(Positions(names, field))

\* A statement given to SQL::command selects exactly the rows of the table as its
\* files hold it at that instant and shows their named cells, whatever insertions
\* failed, tables were only recovered from a WAL, rows were added by others or
\* formats were migrated before; a SELECT errs only when it must (sql.cpp,
\* table.cpp).  The header names a field as often as the statement does, and the
\* printer cuts the cells into lines of its length: what is printed are the rows
\* if no field is named twice, or no second row is there to be cut wrongly, and
\* in no other case (validate_projection accepts such a statement).
SqlAnswersFile ==
    last.by = "sql" =>
        LET names == Names(last.projection)
            meaning == Meaning(rows, last.clause)
            meant == MeantRows(rows, names, meaning)
            valid == format # "none" /\ Valid(last.projection, last.clause)
        IN  IF last.error THEN last.what = "select" => ~valid \/ last.threw
            ELSE /\ valid
                 /\ last.result.recordIndices = meaning
                 /\ last.result.printQueue = FlattenSeq(meant)
                 /\ InSchemaOrder(last.result.fieldNames, names)
                 /\ Printed(last.result) = meant <=> IsInjective(names) \/ Len(meant) <= 1

\* A Table whose copy is a prefix of the file answers a filter as the file has
\* it, or throws: it never drops a selected row it does not hold.  Without a
\* filter, and for v1 tables, it answers from its copy (Table::select).
FilterExactOrRefused ==
    last.by = "handle" /\ ~last.error =>
        LET copied == ~handle.v2 \/ last.clause = NoClause
            table == IF copied THEN handle.storedRows ELSE rows
            meaning == Meaning(table, last.clause)
        IN  copied \/ IsPrefix(handle.storedRows, rows) =>
               /\ last.result.recordIndices = meaning
               /\ last.result.printQueue =
                      FlattenSeq(MeantRows(table, Names(last.projection), meaning))

\* The copy of a v2 table stops being a prefix of the file in one way only: an
\* insertion through it after it has missed a row (insert_into numbers the row
\* by numRecords).
CopyDivergesByInsert ==
    [][ handle.v2 /\ IsPrefix(handle.storedRows, rows) /\ ~IsPrefix(handle'.storedRows, rows') =>
           /\ Len(handle.storedRows) < Len(rows)
           /\ Len(handle'.storedRows) = Len(handle.storedRows) + 1
           /\ Len(rows') = Len(rows) + 1 ]_vars
=============================================================================
