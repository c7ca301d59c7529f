--------------------------- MODULE Session_proofs ---------------------------
(***************************************************************************)
(* Proofs about module Session, for every schema, every set of rows,       *)
(* projections and filters and every length of the table: the tables, a    *)
(* kept Table and its copy are well-formed, the copy of a v2 table leaves  *)
(* its file in one way only, SQL statements answer what the file holds     *)
(* and the filters of a kept Table are exact or refused.                   *)
(***************************************************************************)
EXTENDS Session, SequenceTheorems, FiniteSetTheorems, InductionOnSets, TLAPS

-----------------------------------------------------------------------------
(* Sequences and prefixes *)

LEMMA AppendShape ==
    ASSUME NEW S, NEW s \in Seq(S), NEW x \in S
    PROVE  /\ Append(s, x) \in Seq(S)
           /\ Len(Append(s, x)) = Len(s) + 1
           /\ \A i \in 1 .. Len(s) : Append(s, x)[i] = s[i]
           /\ Append(s, x)[Len(s) + 1] = x
OBVIOUS

\* A prefix, element by element.
LEMMA PrefixPointwise ==
    ASSUME NEW S, NEW s \in Seq(S), NEW t \in Seq(S)
    PROVE  IsPrefix(s, t) <=>
              Len(s) <= Len(t) /\ \A i \in 1 .. Len(s) : s[i] = t[i]
<1>1. CASE Len(s) <= Len(t)
  <2>1. SubSeq(s, 1, Len(s)) = [i \in 1 .. Len(s) |-> s[i]]
    OBVIOUS
  <2>2. SubSeq(t, 1, Len(s)) = [i \in 1 .. Len(s) |-> t[i]]
    BY <1>1
  <2>3. QED
    BY <1>1, <2>1, <2>2 DEF IsPrefix
<1>2. CASE ~(Len(s) <= Len(t))
  BY <1>2 DEF IsPrefix
<1>3. QED
  BY <1>1, <1>2

LEMMA PrefixOfItself ==
    ASSUME NEW S, NEW s \in Seq(S)
    PROVE  IsPrefix(s, s)
BY PrefixPointwise

LEMMA EmptyIsPrefix ==
    ASSUME NEW S, NEW t \in Seq(S)
    PROVE  IsPrefix(<<>>, t)
<1>1. <<>> \in Seq(S) /\ Len(<<>>) = 0
  OBVIOUS
<1>2. SubSeq(<<>>, 1, 0) = <<>> /\ SubSeq(t, 1, 0) = <<>> /\ Len(t) >= 0
  OBVIOUS
<1>3. QED
  BY <1>1, <1>2 DEF IsPrefix

\* A row appended to the longer sequence.
LEMMA PrefixOfAppend ==
    ASSUME NEW S, NEW s \in Seq(S), NEW t \in Seq(S), NEW x \in S, IsPrefix(s, t)
    PROVE  IsPrefix(s, Append(t, x))
<1> DEFINE u == Append(t, x)
<1>1. u \in Seq(S) /\ Len(u) = Len(t) + 1 /\ \A i \in 1 .. Len(t) : u[i] = t[i]
  BY AppendShape
<1> HIDE DEF u
<1>2. Len(s) <= Len(t) /\ \A i \in 1 .. Len(s) : s[i] = t[i]
  BY PrefixPointwise
<1>3. Len(s) <= Len(u) /\ \A i \in 1 .. Len(s) : s[i] = u[i]
  BY <1>1, <1>2
<1>4. IsPrefix(s, u)
  BY <1>1, <1>3, PrefixPointwise
<1>5. QED
  BY <1>4 DEF u

\* A row appended to both, when nothing was missed before.
LEMMA PrefixOfBoth ==
    ASSUME NEW S, NEW s \in Seq(S), NEW t \in Seq(S), NEW x \in S,
           IsPrefix(s, t), Len(s) = Len(t)
    PROVE  IsPrefix(Append(s, x), Append(t, x))
<1> DEFINE u == Append(t, x)
<1> DEFINE v == Append(s, x)
<1>1. /\ u \in Seq(S) /\ Len(u) = Len(t) + 1 /\ u[Len(t) + 1] = x
      /\ \A i \in 1 .. Len(t) : u[i] = t[i]
  BY AppendShape
<1>2. /\ v \in Seq(S) /\ Len(v) = Len(s) + 1 /\ v[Len(s) + 1] = x
      /\ \A i \in 1 .. Len(s) : v[i] = s[i]
  BY AppendShape
<1> HIDE DEF u, v
<1>3. Len(s) <= Len(t) /\ \A i \in 1 .. Len(s) : s[i] = t[i]
  BY PrefixPointwise
<1>4. Len(v) <= Len(u) /\ \A i \in 1 .. Len(v) : v[i] = u[i]
  BY <1>1, <1>2, <1>3
<1>5. IsPrefix(v, u)
  BY <1>1, <1>2, <1>4, PrefixPointwise
<1>6. QED
  BY <1>5 DEF u, v

-----------------------------------------------------------------------------
(* The tables are well-formed *)

Tables == [numRecords : Nat, storedRows : Seq(Rows), v2 : BOOLEAN, open : BOOLEAN]

LEMMA TableShapes ==
    ASSUME TablesOK
    PROVE  /\ OpenTable \in Tables /\ OpenTable.numRecords = Len(OpenTable.storedRows)
           /\ OpenTable.v2 = IsV2 /\ OpenTable.storedRows = rows
           /\ NewTable \in Tables /\ NewTable.numRecords = Len(NewTable.storedRows)
           /\ NewTable.v2 /\ NewTable.storedRows = <<>>
           /\ NoTable \in Tables /\ NoTable.numRecords = Len(NoTable.storedRows)
           /\ ~NoTable.v2 /\ NoTable.storedRows = <<>>
<1>1. <<>> \in Seq(Rows) /\ Len(<<>>) = 0
  OBVIOUS
<1>2. IsV2 \in BOOLEAN
  BY DEF IsV2
<1>3. QED
  BY <1>1, <1>2 DEF TablesOK, OpenTable, NewTable, NoTable, Tables

LEMMA WithRowShape ==
    ASSUME NEW table \in Tables, NEW row \in Rows, table.numRecords = Len(table.storedRows)
    PROVE  LET new == WithRow(table, row)
           IN  /\ new \in Tables /\ new.numRecords = Len(new.storedRows)
               /\ new.v2 = table.v2 /\ new.storedRows = Append(table.storedRows, row)
<1>1. table.storedRows \in Seq(Rows)
  BY DEF Tables
<1>2. /\ Append(table.storedRows, row) \in Seq(Rows)
      /\ Len(Append(table.storedRows, row)) = Len(table.storedRows) + 1
  BY <1>1, AppendShape
<1>3. table.numRecords \in Nat /\ table.numRecords + 1 \in Nat
  BY DEF Tables
<1>4. WithRow(table, row).storedRows = Append(table.storedRows, row)
  BY DEF WithRow, Tables
<1>5. WithRow(table, row).numRecords = table.numRecords + 1
  BY DEF WithRow, Tables
<1>6. WithRow(table, row).v2 = table.v2
  BY Zenon DEF WithRow, Tables
<1>7. WithRow(table, row) \in Tables
  BY <1>2, <1>3 DEF WithRow, Tables
<1>8. QED
  BY <1>2, <1>4, <1>5, <1>6, <1>7

\* Only a row of the schema's length is inserted.
LEMMA InsertedIsRow ==
    ASSUME NEW v2, NEW values \in Rows \union BadRows, Insertable(v2, values)
    PROVE  v2 /\ values \in Rows
BY BadRowsAssumption DEF Insertable

\* Opening keeps the rows and the kind of format; storing a row appends it.
LEMMA OpenShape ==
    ASSUME TablesOK, NEW threw \in BOOLEAN, Open(threw)
    PROVE  /\ format' \in {"none", "v1", "wal", "v2"}
           /\ IsV2' = IsV2 /\ Exists' = Exists
           /\ format' \in {"none", "wal"} => format \in {"none", "wal"}
BY DEF TablesOK, Open, Recovered, IsV2, Exists

LEMMA InsertRowShape ==
    ASSUME TablesOK, IsV2, NEW values \in Rows, NEW threw \in BOOLEAN, InsertRow(values, threw)
    PROVE  /\ IsV2' /\ format' \in {"wal", "v2"}
           /\ \/ rows' = Append(rows, values) /\ format' = "v2"
              \/ threw /\ rows' = rows /\ (format' = "wal" => rows = <<>>)
BY DEF TablesOK, InsertRow, Open, Recovered, IsV2

LEMMA CreateFilesShape ==
    ASSUME NEW threw \in BOOLEAN, CreateFiles(threw)
    PROVE  /\ format' \in {"none", "v1", "wal", "v2"}
           /\ rows' = <<>>
           /\ ~threw => IsV2'
BY DEF CreateFiles, IsV2

-----------------------------------------------------------------------------
LEMMA InitTables == Init => TablesOK
<1>1. /\ <<>> \in Seq(Rows) /\ Len(<<>>) = 0
      /\ \A row \in Rows : <<row>> \in Seq(Rows) /\ Len(<<row>>) = 1
  OBVIOUS
<1>2. SUFFICES ASSUME Init PROVE TablesOK
  OBVIOUS
<1>3. rows \in Seq(Rows) /\ Len(rows) <= MaxRows /\ (format = "none" => rows = <<>>)
  <2>1. CASE rows = <<>>
    BY <1>1, <2>1, MaxRowsAssumption
  <2>2. CASE format = "v1" /\ rows \in {<<row>> : row \in Rows}
    <3>1. PICK row \in Rows : rows = <<row>>
      BY <2>2
    <3>2. QED
      BY <1>1, <2>2, <3>1, MaxRowsAssumption
  <2>3. QED
    BY <1>2, <2>1, <2>2 DEF Init
<1>4. /\ handle \in [numRecords : Nat, storedRows : Seq(Rows), v2 : BOOLEAN, open : BOOLEAN]
      /\ handle.numRecords = Len(handle.storedRows) /\ ~handle.v2
  BY <1>1, <1>2 DEF Init, NoTable
<1>5. QED
  BY <1>2, <1>3, <1>4 DEF Init, TablesOK

LEMMA NextTables == TablesOK /\ [Next]_vars => TablesOK'
<1> SUFFICES ASSUME TablesOK, [Next]_vars PROVE TablesOK'
  OBVIOUS
<1> USE MaxRowsAssumption
<1>0. <<>> \in Seq(Rows) /\ Len(<<>>) = 0
  OBVIOUS
<1>1. ASSUME NEW schemaValid \in BOOLEAN, SqlCreate(schemaValid) PROVE TablesOK'
  <2>1. CASE UNCHANGED <<format, rows>>
    BY <1>1, <2>1 DEF SqlCreate, TablesOK, IsV2
  <2>2. CASE ~Exists /\ \E threw \in BOOLEAN : CreateFiles(threw)
    <3>1. ~handle.v2
      BY <2>2 DEF TablesOK, Exists, IsV2
    <3>2. format' \in {"none", "v1", "wal", "v2"} /\ rows' = <<>>
      BY <2>2, CreateFilesShape
    <3>3. handle' = handle
      BY <1>1 DEF SqlCreate
    <3>4. rows' \in Seq(Rows) /\ Len(rows') <= MaxRows
      BY <1>0, <3>2
    <3>5. QED
      BY <3>1, <3>2, <3>3, <3>4 DEF TablesOK
  <2>3. QED
    BY <1>1, <2>1, <2>2 DEF SqlCreate
<1>2. ASSUME NEW values \in Rows \union BadRows, SqlInsert(values) PROVE TablesOK'
  <2>1. CASE UNCHANGED rows /\ \E threw \in BOOLEAN : Open(threw)
    BY <1>2, <2>1, OpenShape DEF SqlInsert, TablesOK
  <2>2. CASE /\ Insertable(IsV2, values) /\ Len(rows) < MaxRows
             /\ \E threw \in BOOLEAN : InsertRow(values, threw)
    <3>1. IsV2 /\ values \in Rows
      BY <2>2, InsertedIsRow
    <3>2. Append(rows, values) \in Seq(Rows) /\ Len(Append(rows, values)) = Len(rows) + 1
      BY <3>1, AppendShape DEF TablesOK
    <3>3. /\ IsV2' /\ format' \in {"wal", "v2"}
          /\ \/ rows' = Append(rows, values) /\ format' = "v2"
             \/ rows' = rows /\ (format' = "wal" => rows = <<>>)
      BY <2>2, <3>1, InsertRowShape
    <3>4. handle' = handle
      BY <1>2 DEF SqlInsert
    <3>5. rows' \in Seq(Rows) /\ Len(rows') <= MaxRows
      BY <2>2, <3>2, <3>3 DEF TablesOK
    <3>6. QED
      BY <3>3, <3>4, <3>5 DEF TablesOK
  <2>3. QED
    BY <1>2, <2>1, <2>2 DEF SqlInsert
<1>3. ASSUME NEW values \in Rows \union BadRows, HandleInsert(values) PROVE TablesOK'
  <2>1. handle.v2 /\ IsV2 /\ values \in Rows /\ handle \in Tables
    BY <1>3, InsertedIsRow DEF HandleInsert, TablesOK, Tables
  <2>2. Append(rows, values) \in Seq(Rows) /\ Len(Append(rows, values)) = Len(rows) + 1
    BY <2>1, AppendShape DEF TablesOK
  <2>3. /\ WithRow(handle, values) \in Tables
        /\ WithRow(handle, values).numRecords = Len(WithRow(handle, values).storedRows)
    BY <2>1, WithRowShape DEF TablesOK
  <2>4. PICK threw \in BOOLEAN : /\ InsertRow(values, threw)
                                 /\ handle' = IF threw THEN handle ELSE WithRow(handle, values)
    BY <1>3 DEF HandleInsert
  <2>5. /\ handle' \in Tables /\ handle'.numRecords = Len(handle'.storedRows)
    BY <2>1, <2>3, <2>4 DEF TablesOK
  <2>6. /\ IsV2' /\ format' \in {"wal", "v2"}
        /\ \/ rows' = Append(rows, values) /\ format' = "v2"
           \/ rows' = rows /\ (format' = "wal" => rows = <<>>)
    BY <2>1, <2>4, InsertRowShape
  <2>7. rows' \in Seq(Rows) /\ Len(rows') <= MaxRows
    BY <1>3, <2>2, <2>6 DEF HandleInsert, TablesOK
  <2>8. QED
    BY <2>5, <2>6, <2>7 DEF TablesOK, Tables
<1>4. ASSUME NEW projection, NEW clause, SqlSelect(projection, clause) PROVE TablesOK'
  BY <1>4, OpenShape DEF SqlSelect, TablesOK
<1>5. ASSUME NEW projection, NEW clause, NEW header, NEW records,
             HandleQuery(projection, clause, header, records)
      PROVE  TablesOK'
  <2>1. CASE UNCHANGED format
    BY <1>5, <2>1 DEF HandleQuery, TablesOK, IsV2
  <2>2. CASE \E threw \in BOOLEAN : Open(threw)
    BY <1>5, <2>2, OpenShape DEF HandleQuery, TablesOK
  <2>3. QED
    BY <1>5, <2>1, <2>2 DEF HandleQuery
<1>6. CASE SqlBatchMissing \/ TakeReply
  BY <1>6 DEF SqlBatchMissing, TakeReply, TablesOK, IsV2
<1>7. CASE HandleOpen
  <2>1. PICK threw \in BOOLEAN : Open(threw) /\ handle' = IF threw THEN handle ELSE OpenTable
    BY <1>7 DEF HandleOpen
  <2>2. handle' \in Tables /\ handle'.numRecords = Len(handle'.storedRows)
    BY <2>1, TableShapes DEF TablesOK, Tables
  <2>3. handle'.v2 => IsV2
    BY <2>1, TableShapes DEF TablesOK
  <2>4. QED
    BY <1>7, <2>1, <2>2, <2>3, OpenShape DEF HandleOpen, TablesOK, Tables
<1>8. CASE HandleCreate
  <2>1. PICK threw \in BOOLEAN : CreateFiles(threw) /\ handle' = IF threw THEN handle ELSE NewTable
    BY <1>8 DEF HandleCreate
  <2>2. handle' \in Tables /\ handle'.numRecords = Len(handle'.storedRows)
    BY <2>1, TableShapes DEF TablesOK, Tables
  <2>3. ~handle.v2
    BY <1>8 DEF HandleCreate, TablesOK, Exists, IsV2
  <2>4. /\ format' \in {"none", "v1", "wal", "v2"} /\ rows' = <<>>
        /\ ~threw => IsV2'
    BY <2>1, CreateFilesShape
  <2>5. rows' \in Seq(Rows) /\ Len(rows') <= MaxRows
    BY <1>0, <2>4
  <2>6. handle'.v2 => IsV2'
    BY <2>1, <2>3, <2>4
  <2>7. QED
    BY <2>2, <2>4, <2>5, <2>6 DEF TablesOK, Tables
<1>9. CASE Restart
  BY <1>9, TableShapes DEF Restart, TablesOK, Tables, IsV2
<1>10. ASSUME NEW row \in Rows, V1Append(row) PROVE TablesOK'
  <2>1. Append(rows, row) \in Seq(Rows) /\ Len(Append(rows, row)) = Len(rows) + 1
    BY AppendShape DEF TablesOK
  <2>2. QED
    BY <1>10, <2>1 DEF V1Append, TablesOK, IsV2
<1>11. CASE Migrate
  <2>1. PICK n \in 0 .. Len(rows) : rows' = SubSeq(rows, 1, n)
    BY <1>11 DEF Migrate
  <2>2. rows' \in Seq(Rows) /\ Len(rows') <= Len(rows)
    BY <2>1 DEF TablesOK
  <2>3. ~handle.v2
    BY <1>11 DEF Migrate, TablesOK, IsV2
  <2>4. QED
    BY <1>11, <2>2, <2>3 DEF Migrate, TablesOK, IsV2
<1>12. CASE UNCHANGED vars
  BY <1>12 DEF vars, TablesOK, IsV2
<1>13. QED
  BY <1>1, <1>2, <1>3, <1>4, <1>5, <1>6, <1>7, <1>8, <1>9, <1>10, <1>11, <1>12
     DEF Next, HandleSelect, HandleSelectOne

\* Whatever statements, kept tables, failing storage calls, other programs and
\* migrations come in whatever order, a kept Table counts the rows of its copy,
\* one opened on format v2 stays on a table of that format, and a table that
\* does not exist or is only a WAL holds no row (table.cpp, sql.cpp).
THEOREM TablesWellFormed == Spec => []TablesOK
<1>1. QED
  BY InitTables, NextTables, PTL DEF Spec

-----------------------------------------------------------------------------
(* The copy and the file *)

\* A step of this kind is not a divergence.
Stays == handle.v2 /\ IsPrefix(handle.storedRows, rows) => IsPrefix(handle'.storedRows, rows')

LEMMA QuietCopy ==
    ASSUME TablesOK, TablesOK', handle' = handle, rows' = rows
    PROVE  Stays
BY DEF Stays

LEMMA FileGrows ==
    ASSUME TablesOK, TablesOK', handle' = handle, NEW row \in Rows, rows' = Append(rows, row)
    PROVE  Stays
BY PrefixOfAppend DEF Stays, TablesOK

\* The only step that may diverge.
LEMMA InsertDiverges ==
    ASSUME TablesOK, TablesOK', NEW values \in Rows \union BadRows, HandleInsert(values),
           handle.v2, IsPrefix(handle.storedRows, rows), ~IsPrefix(handle'.storedRows, rows')
    PROVE  /\ Len(handle.storedRows) < Len(rows)
           /\ Len(handle'.storedRows) = Len(handle.storedRows) + 1
           /\ Len(rows') = Len(rows) + 1
<1>1. IsV2 /\ values \in Rows /\ handle \in Tables
  BY InsertedIsRow DEF HandleInsert, TablesOK, Tables
<1>2. PICK threw \in BOOLEAN : /\ InsertRow(values, threw)
                               /\ handle' = IF threw THEN handle ELSE WithRow(handle, values)
  BY DEF HandleInsert
<1>3. handle.storedRows \in Seq(Rows) /\ rows \in Seq(Rows)
  BY DEF TablesOK
<1>4. rows' = rows \/ rows' = Append(rows, values)
  BY <1>1, <1>2, InsertRowShape
<1>5. ~threw /\ handle' = WithRow(handle, values)
  BY <1>1, <1>2, <1>3, <1>4, PrefixOfAppend
<1>6. rows' = Append(rows, values)
  BY <1>1, <1>2, <1>5, InsertRowShape
<1>7. handle'.storedRows = Append(handle.storedRows, values)
  BY <1>1, <1>5, WithRowShape DEF TablesOK
<1>8. Len(handle.storedRows) # Len(rows)
  BY <1>1, <1>3, <1>6, <1>7, PrefixOfBoth
<1>9. Len(handle.storedRows) <= Len(rows)
  BY <1>3, PrefixPointwise
<1>10. QED
  BY <1>1, <1>3, <1>6, <1>7, <1>8, <1>9, AppendShape

\* The copy a Table keeps of a v2 table stops being a prefix of the file only
\* by an insertion through that Table after it missed a row: neither failed
\* insertions, nor recoveries, nor statements of others do it
\* (Table::insert_into).
THEOREM CopyDivergence == Spec => CopyDivergesByInsert
<1> DEFINE A == handle.v2 /\ IsPrefix(handle.storedRows, rows) /\ ~IsPrefix(handle'.storedRows, rows') =>
                   /\ Len(handle.storedRows) < Len(rows)
                   /\ Len(handle'.storedRows) = Len(handle.storedRows) + 1
                   /\ Len(rows') = Len(rows) + 1
<1>1. TablesOK /\ TablesOK' /\ [Next]_vars => [A]_vars
  <2> SUFFICES ASSUME TablesOK, TablesOK', Next PROVE A
    OBVIOUS
  <2>0. Stays => A
    BY DEF Stays
  <2> HIDE DEF A
  <2>1. ASSUME NEW schemaValid \in BOOLEAN, SqlCreate(schemaValid) PROVE Stays
    <3>1. CASE UNCHANGED <<format, rows>>
      BY <2>1, <3>1, QuietCopy DEF SqlCreate
    <3>2. CASE ~Exists
      BY <3>2 DEF Stays, TablesOK, Exists, IsV2
    <3>3. QED
      BY <2>1, <3>1, <3>2 DEF SqlCreate
  <2>2. ASSUME NEW values \in Rows \union BadRows, SqlInsert(values) PROVE Stays
    <3>1. CASE UNCHANGED rows
      BY <2>2, <3>1, QuietCopy DEF SqlInsert
    <3>2. CASE Insertable(IsV2, values) /\ \E threw \in BOOLEAN : InsertRow(values, threw)
      <4>1. IsV2 /\ values \in Rows
        BY <3>2, InsertedIsRow
      <4>2. rows' = Append(rows, values) \/ rows' = rows
        BY <3>2, <4>1, InsertRowShape
      <4>3. QED
        BY <2>2, <4>1, <4>2, QuietCopy, FileGrows DEF SqlInsert
    <3>3. QED
      BY <2>2, <3>1, <3>2 DEF SqlInsert
  <2>3. ASSUME NEW values \in Rows \union BadRows, HandleInsert(values) PROVE A
    BY <2>3, InsertDiverges DEF A
  <2>4. ASSUME NEW projection, NEW clause, SqlSelect(projection, clause) PROVE Stays
    BY <2>4, QuietCopy DEF SqlSelect
  <2>5. ASSUME NEW projection, NEW clause, NEW header, NEW records,
               HandleQuery(projection, clause, header, records)
        PROVE  Stays
    BY <2>5, QuietCopy DEF HandleQuery
  <2>6. CASE SqlBatchMissing \/ TakeReply
    <3>1. handle' = handle /\ rows' = rows
      BY <2>6 DEF SqlBatchMissing, TakeReply
    <3>2. QED
      BY <2>0, <3>1, QuietCopy
  <2>7. CASE HandleOpen
    <3>1. rows' = rows /\ (handle' = handle \/ handle' = OpenTable)
      BY <2>7 DEF HandleOpen
    <3>2. ASSUME handle' = OpenTable PROVE Stays
      BY <3>1, <3>2, TableShapes, PrefixOfItself DEF Stays, TablesOK
    <3>3. ASSUME handle' = handle PROVE Stays
      BY <3>1, <3>3, QuietCopy
    <3>4. QED
      BY <2>0, <3>1, <3>2, <3>3
  <2>8. CASE HandleCreate
    <3>1. ~handle.v2
      BY <2>8 DEF HandleCreate, TablesOK, Exists, IsV2
    <3>2. QED
      BY <2>0, <3>1 DEF Stays
  <2>9. CASE Restart
    <3>1. rows' = rows /\ handle'.storedRows = <<>> /\ rows \in Seq(Rows)
      BY <2>9, TableShapes DEF Restart, TablesOK
    <3>2. QED
      BY <2>0, <3>1, EmptyIsPrefix DEF Stays
  <2>10. ASSUME NEW row \in Rows, V1Append(row) PROVE Stays
    BY <2>10, FileGrows DEF V1Append
  <2>11. CASE Migrate
    <3>1. ~handle.v2
      BY <2>11 DEF Migrate, TablesOK, IsV2
    <3>2. QED
      BY <2>0, <3>1 DEF Stays
  <2>12. QED
    BY <2>0, <2>1, <2>2, <2>3, <2>4, <2>5, <2>6, <2>7, <2>8, <2>9, <2>10, <2>11
       DEF Next, HandleSelect, HandleSelectOne
<1>2. QED
  BY <1>1, TablesWellFormed, PTL DEF Spec, CopyDivergesByInsert

-----------------------------------------------------------------------------
(* Sorted sequences *)

\* A strict total order on a set, as a set of pairs.
StrictOrder(S, order) ==
    /\ \A x \in S : <<x, x>> \notin order
    /\ \A x, y \in S : x # y => <<x, y>> \in order \/ <<y, x>> \in order
    /\ \A x, y, z \in S : <<x, y>> \in order /\ <<y, z>> \in order => <<x, z>> \in order

\* What Arranged chooses.
IsArrangement(s, n, S, order) ==
    /\ s \in [1 .. n -> S]
    /\ ToSet(s) = S
    /\ \A i, j \in DOMAIN s : i < j => <<s[i], s[j]>> \in order

LEMMA ToSetFacts ==
    ASSUME NEW S, NEW n \in Nat, NEW s \in [1 .. n -> S]
    PROVE  /\ s \in Seq(S) /\ Len(s) = n /\ DOMAIN s = 1 .. n
           /\ ToSet(s) = {s[i] : i \in 1 .. n}
           /\ ToSet(s) = S <=> \A x \in S : \E i \in 1 .. n : s[i] = x
<1>1. s \in Seq(S) /\ Len(s) = n /\ DOMAIN s = 1 .. n
  OBVIOUS
<1>2. ToSet(s) = {s[i] : i \in 1 .. n}
  BY <1>1 DEF ToSet
<1>3. QED
  BY <1>1, <1>2

\* The same, position by position.
LEMMA ArrangementShape ==
    ASSUME NEW S, NEW order, NEW n \in Nat, NEW s, IsArrangement(s, n, S, order)
    PROVE  s \in [1 .. n -> S] /\ s \in Seq(S) /\ Len(s) = n /\ DOMAIN s = 1 .. n
<1>1. s \in [1 .. n -> S] /\ ToSet(s) = S
  BY DEF IsArrangement
<1>2. QED
  BY <1>1, ToSetFacts

LEMMA ArrangementCovers ==
    ASSUME NEW S, NEW order, NEW n \in Nat, NEW s, IsArrangement(s, n, S, order)
    PROVE  \A x \in S : \E i \in 1 .. n : s[i] = x
<1>1. s \in [1 .. n -> S] /\ ToSet(s) = S
  BY DEF IsArrangement
<1>2. SUFFICES ASSUME NEW x \in ToSet(s) PROVE \E i \in 1 .. n : s[i] = x
  BY <1>1
<1>3. DOMAIN s = 1 .. n
  BY <1>1
<1>4. QED
  BY <1>3 DEF ToSet

LEMMA ArrangementSorted ==
    ASSUME NEW S, NEW order, NEW n \in Nat, NEW s, IsArrangement(s, n, S, order)
    PROVE  \A i, j \in 1 .. n : i < j => <<s[i], s[j]>> \in order
BY DEF IsArrangement

\* A finite set has a last element.
LEMMA LastExists ==
    ASSUME NEW S, NEW order, StrictOrder(S, order), NEW n \in Nat
    PROVE  \A T \in SUBSET S : IsFiniteSet(T) /\ Cardinality(T) = n + 1 =>
              \E m \in T : \A y \in T \ {m} : <<y, m>> \in order
<1> DEFINE Good(k) == \A T \in SUBSET S : IsFiniteSet(T) /\ Cardinality(T) = k + 1 =>
                          \E m \in T : \A y \in T \ {m} : <<y, m>> \in order
<1> DEFINE N == {k \in Nat : Good(k)}
<1>1. 0 \in N
  <2> SUFFICES ASSUME NEW T \in SUBSET S, IsFiniteSet(T), Cardinality(T) = 1
               PROVE  \E m \in T : \A y \in T \ {m} : <<y, m>> \in order
    OBVIOUS
  <2>1. PICK x : T = {x}
    BY FS_Singleton
  <2>2. QED
    BY <2>1
<1>2. ASSUME NEW k \in N PROVE k + 1 \in N
  <2> SUFFICES ASSUME NEW T \in SUBSET S, IsFiniteSet(T), Cardinality(T) = (k + 1) + 1
               PROVE  \E m \in T : \A y \in T \ {m} : <<y, m>> \in order
    OBVIOUS
  <2>1. k \in Nat /\ Good(k)
    OBVIOUS
  <2>2. T # {}
    BY <2>1, FS_EmptySet
  <2>3. PICK x \in T : TRUE
    BY <2>2
  <2>4. IsFiniteSet(T \ {x}) /\ Cardinality(T \ {x}) = k + 1
    BY <2>1, <2>3, FS_RemoveElement
  <2>5. PICK m \in T \ {x} : \A y \in (T \ {x}) \ {m} : <<y, m>> \in order
    BY <2>1, <2>4
  <2>6. CASE <<x, m>> \in order
    BY <2>5, <2>6
  <2>7. CASE <<m, x>> \in order
    <3>1. ASSUME NEW y \in T \ {x} PROVE <<y, x>> \in order
      BY <2>3, <2>5, <2>7 DEF StrictOrder
    <3>2. QED
      BY <2>3, <3>1
  <2>8. QED
    BY <2>3, <2>5, <2>6, <2>7 DEF StrictOrder
<1> HIDE DEF N
<1>3. N = Nat
  <2>1. N \in SUBSET Nat
    BY DEF N
  <2>2. QED
    BY <1>1, <1>2, <2>1, SetInduction
<1>4. QED
  BY <1>3 DEF N

\* A finite set has a sorted sequence.
LEMMA ArrangementExists ==
    ASSUME NEW S, NEW order, StrictOrder(S, order), NEW n \in Nat
    PROVE  \A T \in SUBSET S : IsFiniteSet(T) /\ Cardinality(T) = n =>
              \E s : IsArrangement(s, n, T, order)
<1> DEFINE Good(k) == \A T \in SUBSET S : IsFiniteSet(T) /\ Cardinality(T) = k =>
                          \E s : IsArrangement(s, k, T, order)
<1> DEFINE N == {k \in Nat : Good(k)}
<1>1. 0 \in N
  <2> SUFFICES ASSUME NEW T \in SUBSET S, IsFiniteSet(T), Cardinality(T) = 0
               PROVE  \E s : IsArrangement(s, 0, T, order)
    OBVIOUS
  <2>1. T = {}
    BY FS_EmptySet
  <2>2. IsArrangement([i \in 1 .. 0 |-> i], 0, T, order)
    BY <2>1 DEF IsArrangement, ToSet
  <2>3. QED
    BY <2>2
<1>2. ASSUME NEW k \in N PROVE k + 1 \in N
  <2> SUFFICES ASSUME NEW T \in SUBSET S, IsFiniteSet(T), Cardinality(T) = k + 1
               PROVE  \E s : IsArrangement(s, k + 1, T, order)
    OBVIOUS
  <2>1. k \in Nat /\ Good(k)
    OBVIOUS
  <2>2. PICK m \in T : \A y \in T \ {m} : <<y, m>> \in order
    BY <2>1, LastExists
  <2>3. IsFiniteSet(T \ {m}) /\ Cardinality(T \ {m}) = k
    BY <2>1, <2>2, FS_RemoveElement
  <2>4. PICK s : IsArrangement(s, k, T \ {m}, order)
    BY <2>1, <2>3
  <2> DEFINE t == [i \in 1 .. k + 1 |-> IF i = k + 1 THEN m ELSE s[i]]
  <2>5. /\ s \in [1 .. k -> T \ {m}] /\ DOMAIN s = 1 .. k
        /\ \A x \in T \ {m} : \E i \in 1 .. k : s[i] = x
        /\ \A i, j \in 1 .. k : i < j => <<s[i], s[j]>> \in order
    <3>1. \A x \in T \ {m} : \E i \in 1 .. k : s[i] = x
      BY <2>1, <2>4, ArrangementCovers
    <3>2. \A i, j \in 1 .. k : i < j => <<s[i], s[j]>> \in order
      BY <2>1, <2>4, ArrangementSorted
    <3>3. s \in [1 .. k -> T \ {m}] /\ DOMAIN s = 1 .. k
      BY <2>1, <2>4, ArrangementShape
    <3>4. QED
      BY <3>1, <3>2, <3>3
  <2>6. t \in [1 .. k + 1 -> T] /\ DOMAIN t = 1 .. k + 1
    BY <2>1, <2>2, <2>5
  <2>7. \A x \in T : \E i \in 1 .. k + 1 : t[i] = x
    <3>1. k + 1 \in 1 .. k + 1 /\ t[k + 1] = m
      BY <2>1
    <3>2. \A i \in 1 .. k : i \in 1 .. k + 1 /\ t[i] = s[i]
      BY <2>1
    <3> HIDE DEF t
    <3>3. \A x \in T \ {m} : \E i \in 1 .. k : s[i] = x
      BY <2>5
    <3>4. QED
      BY <3>1, <3>2, <3>3
  <2>8. ASSUME NEW i \in 1 .. k + 1, NEW j \in 1 .. k + 1, i < j
        PROVE  <<t[i], t[j]>> \in order
    <3>1. i \in 1 .. k /\ t[i] = s[i] /\ s[i] \in T \ {m}
      BY <2>1, <2>5, <2>8
    <3>2. CASE j = k + 1
      BY <2>2, <3>1, <3>2
    <3>3. CASE j # k + 1
      <4>1. j \in 1 .. k /\ t[j] = s[j]
        BY <2>1, <3>3
      <4> HIDE DEF t
      <4>2. QED
        BY <2>5, <2>8, <3>1, <4>1
    <3>4. QED
      BY <3>2, <3>3
  <2> HIDE DEF t
  <2>9. ToSet(t) = T
    <3>1. k + 1 \in Nat
      BY <2>1
    <3>2. QED
      BY <2>6, <2>7, <3>1, ToSetFacts
  <2>10. IsArrangement(t, k + 1, T, order)
    BY <2>6, <2>8, <2>9 DEF IsArrangement
  <2>11. QED
    BY <2>10
<1> HIDE DEF N
<1>3. N = Nat
  <2>1. N \in SUBSET Nat
    BY DEF N
  <2>2. QED
    BY <1>1, <1>2, <2>1, SetInduction
<1>4. QED
  BY <1>3 DEF N

\* What Arranged returns.
LEMMA ArrangedFacts ==
    ASSUME NEW S, IsFiniteSet(S), NEW order, StrictOrder(S, order)
    PROVE  IsArrangement(Arranged(S, order), Cardinality(S), S, order)
<1>1. Cardinality(S) \in Nat
  BY FS_CardinalityType
<1>2. \E s : IsArrangement(s, Cardinality(S), S, order)
  BY <1>1, ArrangementExists
<1>3. QED
  BY <1>2 DEF Arranged, IsArrangement

\* Two sorted sequences of the same set are equal.
LEMMA ArrangementUnique ==
    ASSUME NEW S, NEW order, StrictOrder(S, order), NEW m \in Nat, NEW n \in Nat,
           NEW s, NEW t, IsArrangement(s, m, S, order), IsArrangement(t, n, S, order)
    PROVE  m = n /\ s = t
<1>1. /\ s \in [1 .. m -> S] /\ t \in [1 .. n -> S]
      /\ \A x \in S : \E i \in 1 .. m : s[i] = x
      /\ \A x \in S : \E i \in 1 .. n : t[i] = x
      /\ \A i, j \in 1 .. m : i < j => <<s[i], s[j]>> \in order
      /\ \A i, j \in 1 .. n : i < j => <<t[i], t[j]>> \in order
  <2>1. s \in [1 .. m -> S] /\ t \in [1 .. n -> S]
    BY ArrangementShape
  <2>2. \A x \in S : \E i \in 1 .. m : s[i] = x
    BY ArrangementCovers
  <2>3. \A x \in S : \E i \in 1 .. n : t[i] = x
    BY ArrangementCovers
  <2>4. \A i, j \in 1 .. m : i < j => <<s[i], s[j]>> \in order
    BY ArrangementSorted
  <2>5. \A i, j \in 1 .. n : i < j => <<t[i], t[j]>> \in order
    BY ArrangementSorted
  <2>6. QED
    BY <2>1, <2>2, <2>3, <2>4, <2>5
<1>2. /\ \A i, j \in 1 .. m : s[i] = s[j] => i = j
      /\ \A i, j \in 1 .. n : t[i] = t[j] => i = j
  <2>1. ASSUME NEW i \in 1 .. m, NEW j \in 1 .. m, s[i] = s[j] PROVE i = j
    <3>1. ~(i < j) /\ ~(j < i)
      BY <1>1, <2>1 DEF StrictOrder
    <3>2. QED
      BY <3>1
  <2>2. ASSUME NEW i \in 1 .. n, NEW j \in 1 .. n, t[i] = t[j] PROVE i = j
    <3>1. ~(i < j) /\ ~(j < i)
      BY <1>1, <2>2 DEF StrictOrder
    <3>2. QED
      BY <3>1
  <2>3. QED
    BY <2>1, <2>2
<1>3. m = n
  <2>1. s \in Bijection(1 .. m, S) /\ t \in Bijection(1 .. n, S)
    <3>1. /\ \A x \in S : \E i \in 1 .. m : s[i] = x
          /\ \A x \in S : \E i \in 1 .. n : t[i] = x
      BY <1>1
    <3>2. QED
      BY <1>1, <1>2, <3>1, Zenon DEF Bijection, Injection, IsInjective, Surjection
  <2>2. ExistsBijection(1 .. m, S) /\ ExistsBijection(1 .. n, S)
    BY <2>1 DEF ExistsBijection
  <2>3. QED
    BY <2>2, FS_CountingElements
<1> DEFINE N == {k \in Nat : \A i \in 1 .. n : i <= k => s[i] = t[i]}
<1>4. 0 \in N
  OBVIOUS
<1>5. ASSUME NEW k \in N PROVE k + 1 \in N
  <2>1. k \in Nat /\ \A i \in 1 .. n : i <= k => s[i] = t[i]
    OBVIOUS
  <2>2. ASSUME k + 1 \in 1 .. n PROVE s[k + 1] = t[k + 1]
    <3>1. s[k + 1] \in S /\ t[k + 1] \in S
      BY <1>1, <1>3, <2>2
    <3>2. PICK i \in 1 .. n : s[i] = t[k + 1]
      BY <1>1, <1>3, <3>1
    <3>3. PICK j \in 1 .. n : t[j] = s[k + 1]
      BY <1>1, <3>1
    <3>4. i >= k + 1
      <4>1. ASSUME i <= k PROVE FALSE
        BY <1>2, <2>1, <2>2, <3>2, <4>1
      <4>2. QED
        BY <2>1, <4>1
    <3>5. j >= k + 1
      <4>1. ASSUME j <= k PROVE FALSE
        BY <1>2, <1>3, <2>1, <2>2, <3>3, <4>1
      <4>2. QED
        BY <2>1, <4>1
    <3>6. ASSUME i > k + 1, j > k + 1 PROVE FALSE
      <4>1. <<s[k + 1], t[k + 1]>> \in order
        BY <1>1, <1>3, <2>2, <3>2, <3>6
      <4>2. <<t[k + 1], s[k + 1]>> \in order
        BY <1>1, <2>2, <3>3, <3>6
      <4> DEFINE x == s[k + 1]
      <4> DEFINE y == t[k + 1]
      <4> HIDE DEF x, y
      <4>3. <<x, x>> \in order
        <5>1. x \in S /\ y \in S /\ <<x, y>> \in order /\ <<y, x>> \in order
          BY <3>1, <4>1, <4>2 DEF x, y
        <5>2. QED
          BY <5>1, Zenon DEF StrictOrder
      <4>4. QED
        BY <3>1, <4>3, Zenon DEF StrictOrder, x
    <3>7. i = k + 1 \/ j = k + 1
      BY <2>1, <3>4, <3>5, <3>6
    <3>8. QED
      BY <3>2, <3>3, <3>7
  <2>3. ASSUME NEW i \in 1 .. n, i <= k + 1 PROVE s[i] = t[i]
    BY <2>1, <2>2, <2>3
  <2>4. QED
    BY <2>1, <2>3
<1> HIDE DEF N
<1>6. N = Nat
  <2>1. N \in SUBSET Nat
    BY DEF N
  <2>2. QED
    BY <1>4, <1>5, <2>1, SetInduction
<1>7. \A i \in 1 .. n : s[i] = t[i]
  BY <1>6 DEF N
<1>8. QED
  BY <1>1, <1>3, <1>7

\* Whatever is sorted, Arranged returns it.
LEMMA ArrangedIs ==
    ASSUME NEW S, NEW order, StrictOrder(S, order), NEW n \in Nat, NEW s,
           IsArrangement(s, n, S, order)
    PROVE  Arranged(S, order) = s /\ Cardinality(S) = n /\ IsFiniteSet(S)
<1>1. s \in [1 .. n -> S] /\ \A x \in S : \E i \in 1 .. n : s[i] = x
  <2>1. s \in [1 .. n -> S]
    BY ArrangementShape
  <2>2. \A x \in S : \E i \in 1 .. n : s[i] = x
    BY ArrangementCovers
  <2>3. QED
    BY <2>1, <2>2
<1>2. s \in Surjection(1 .. n, S)
  <2>1. \A x \in S : \E i \in 1 .. n : s[i] = x
    BY <1>1
  <2>2. QED
    BY <1>1, <2>1, Zenon DEF Surjection
<1>3. IsFiniteSet(S)
  BY <1>2, FS_NatSurjection DEF ExistsSurjection
<1>4. Cardinality(S) \in Nat /\ IsArrangement(Arranged(S, order), Cardinality(S), S, order)
  BY <1>3, FS_CardinalityType, ArrangedFacts
<1>5. QED
  BY <1>3, <1>4, ArrangementUnique

-----------------------------------------------------------------------------
(* Flattened sequences *)

LEMMA ConcatFacts ==
    ASSUME NEW V, NEW s \in Seq(V), NEW t \in Seq(V)
    PROVE  /\ s \o t \in Seq(V) /\ Len(s \o t) = Len(s) + Len(t)
           /\ \A i \in 1 .. Len(s) : (s \o t)[i] = s[i]
           /\ \A i \in 1 .. Len(t) : (s \o t)[Len(s) + i] = t[i]
OBVIOUS

LEMMA ConcatAt ==
    ASSUME NEW V, NEW s \in Seq(V), NEW t \in Seq(V), NEW m, NEW n, Len(s) = m, Len(t) = n
    PROVE  /\ s \o t \in Seq(V) /\ Len(s \o t) = m + n
           /\ \A i \in 1 .. m : (s \o t)[i] = s[i]
           /\ \A i \in 1 .. n : (s \o t)[m + i] = t[i]
OBVIOUS

\* The partial results of FlattenSeq.
IsFlattening(f, seqs) ==
    f = [i \in 1 .. Len(seqs) |-> IF i = 1 THEN seqs[i] ELSE f[i - 1] \o seqs[i]]

LEMMA FlatteningExists ==
    ASSUME NEW V, NEW seqs \in Seq(Seq(V))
    PROVE  \E f : IsFlattening(f, seqs)
<1> DEFINE n == Len(seqs)
<1>1. CASE n = 0
  <2> DEFINE f == [i \in 1 .. n |-> <<>>]
  <2>1. IsFlattening(f, seqs)
    BY <1>1 DEF IsFlattening
  <2>2. QED
    BY <2>1
<1>2. CASE n > 0
  <2> DEFINE step == [k \in Nat |-> [v \in Seq(V) |-> IF k \in 1 .. n THEN v \o seqs[k] ELSE v]]
  <2>1. n \in Nat /\ \A k \in 1 .. n : seqs[k] \in Seq(V)
    OBVIOUS
  <2>2. \A k \in 1 .. n : \A v \in Seq(V) : v \o seqs[k] \in Seq(V)
    BY <2>1, ConcatFacts
  <2>3. step \in [Nat -> [Seq(V) -> Seq(V)]]
    BY <2>2
  <2>4. seqs[1] \in Seq(V)
    BY <1>2, <2>1
  <2>5. PICK g \in [1 .. n -> Seq(V)] : Recurs(g, 1, n, seqs[1], step)
    <3> DEFINE W == Seq(V)
    <3> HIDE DEF n, step, W
    <3>1. step \in [Nat -> [W -> W]] /\ seqs[1] \in W /\ n \in Nat
      BY <2>1, <2>3, <2>4 DEF W
    <3>2. \E g \in [1 .. n -> W] : Recurs(g, 1, n, seqs[1], step)
      BY <3>1, RecursionExists
    <3>3. QED
      BY <3>2 DEF W
  <2>6. ASSUME NEW k \in 1 .. n
        PROVE  g[k] = IF k = 1 THEN seqs[k] ELSE g[k - 1] \o seqs[k]
    <3>1. CASE k = 1
      BY <2>5, <3>1 DEF Recurs
    <3>2. CASE k # 1
      <4>1. k \in Nat /\ k - 1 \in 1 .. n
        BY <2>1, <3>2
      <4>2. g[k] = step[k][g[k - 1]] /\ g[k - 1] \in Seq(V)
        BY <2>5, <3>2, <4>1 DEF Recurs
      <4>3. QED
        BY <3>2, <4>1, <4>2
    <3>3. QED
      BY <3>1, <3>2
  <2>7. IsFlattening(g, seqs)
    BY <2>5, <2>6 DEF IsFlattening
  <2>8. QED
    BY <2>7
<1>3. QED
  BY <1>1, <1>2

\* FlattenSeq as the last of its partial results.
LEMMA FlattenIs ==
    ASSUME NEW V, NEW seqs \in Seq(Seq(V)), Len(seqs) > 0
    PROVE  \E f : /\ f[1] = seqs[1]
                  /\ \A i \in 2 .. Len(seqs) : f[i] = f[i - 1] \o seqs[i]
                  /\ FlattenSeq(seqs) = f[Len(seqs)]
<1> DEFINE P(g) == g = [i \in 1 .. Len(seqs) |-> IF i = 1 THEN seqs[i] ELSE g[i - 1] \o seqs[i]]
<1> DEFINE f == CHOOSE g : P(g)
<1>1. P(f)
  <2>1. \E g : P(g)
    BY FlatteningExists DEF IsFlattening
  <2>2. QED
    BY <2>1
<1>2. FlattenSeq(seqs) = f[Len(seqs)]
  BY DEF FlattenSeq
<1> HIDE DEF f
<1>3. f[1] = seqs[1]
  BY <1>1
<1>4. ASSUME NEW i \in 2 .. Len(seqs) PROVE f[i] = f[i - 1] \o seqs[i]
  <2>1. i \in 1 .. Len(seqs) /\ i # 1
    OBVIOUS
  <2>2. f = [k \in 1 .. Len(seqs) |-> IF k = 1 THEN seqs[k] ELSE f[k - 1] \o seqs[k]]
    BY <1>1
  <2> HIDE DEF P
  <2>3. QED
    BY <2>1, <2>2
<1>5. QED
  BY <1>2, <1>3, <1>4

LEMMA FlattenEmpty == FlattenSeq(<<>>) = <<>>
BY DEF FlattenSeq

-----------------------------------------------------------------------------
(* Orders *)

LEMMA OrderOnSubset ==
    ASSUME NEW S, NEW order, StrictOrder(S, order), NEW T \in SUBSET S
    PROVE  StrictOrder(T, order)
BY Zenon DEF StrictOrder

LEMMA LessIsStrict ==
    ASSUME NEW S \in SUBSET Int
    PROVE  StrictOrder(S, Less(S))
<1>1. \A x, y \in S : <<x, y>> \in Less(S) <=> x < y
  BY DEF Less
<1>2. QED
  BY <1>1 DEF StrictOrder

LEMMA InLess ==
    ASSUME NEW S, NEW x \in S, NEW y \in S
    PROVE  <<x, y>> \in Less(S) <=> x < y
BY DEF Less

\* Cells of one field of a table.
LEMMA ByCellIsStrict ==
    ASSUME NEW V, NEW table \in Seq(V), NEW f, \A r \in DOMAIN table : table[r][f] \in Int
    PROVE  /\ StrictOrder(DOMAIN table, ByCell(table, f))
           /\ \A x, y \in DOMAIN table : <<x, y>> \in ByCell(table, f) <=>
                 table[x][f] < table[y][f] \/ (table[x][f] = table[y][f] /\ x < y)
<1>1. \A x, y \in DOMAIN table : <<x, y>> \in ByCell(table, f) <=>
         table[x][f] < table[y][f] \/ (table[x][f] = table[y][f] /\ x < y)
  BY DEF ByCell
<1>2. DOMAIN table \subseteq Int
  OBVIOUS
<1> DEFINE D == DOMAIN table
<1> DEFINE cell == [r \in D |-> table[r][f]]
<1>3. /\ D \subseteq Int
      /\ \A r \in D : cell[r] \in Int
      /\ \A x, y \in D : <<x, y>> \in ByCell(table, f) <=>
            cell[x] < cell[y] \/ (cell[x] = cell[y] /\ x < y)
  BY <1>1, <1>2
<1> HIDE DEF D, cell
<1>4. StrictOrder(D, ByCell(table, f))
  <2>1. \A x \in D : <<x, x>> \notin ByCell(table, f)
    BY <1>3
  <2>2. \A x, y \in D : x # y => <<x, y>> \in ByCell(table, f) \/ <<y, x>> \in ByCell(table, f)
    <3> SUFFICES ASSUME NEW x \in D, NEW y \in D, x # y
                 PROVE  <<x, y>> \in ByCell(table, f) \/ <<y, x>> \in ByCell(table, f)
      OBVIOUS
    <3>1. x \in Int /\ y \in Int /\ cell[x] \in Int /\ cell[y] \in Int
      BY <1>3
    <3>2. \/ cell[x] < cell[y] \/ (cell[x] = cell[y] /\ x < y)
          \/ cell[y] < cell[x] \/ (cell[y] = cell[x] /\ y < x)
      BY <3>1
    <3>3. QED
      BY <1>3, <3>2
  <2>3. \A x, y, z \in D : <<x, y>> \in ByCell(table, f) /\ <<y, z>> \in ByCell(table, f)
                              => <<x, z>> \in ByCell(table, f)
    <3> SUFFICES ASSUME NEW x \in D, NEW y \in D, NEW z \in D,
                        <<x, y>> \in ByCell(table, f), <<y, z>> \in ByCell(table, f)
                 PROVE  <<x, z>> \in ByCell(table, f)
      OBVIOUS
    <3>1. /\ x \in Int /\ y \in Int /\ z \in Int
          /\ cell[x] \in Int /\ cell[y] \in Int /\ cell[z] \in Int
      BY <1>3
    <3>2. /\ cell[x] < cell[y] \/ (cell[x] = cell[y] /\ x < y)
          /\ cell[y] < cell[z] \/ (cell[y] = cell[z] /\ y < z)
      BY <1>3
    <3>3. cell[x] < cell[z] \/ (cell[x] = cell[z] /\ x < z)
      BY <3>1, <3>2
    <3>4. QED
      BY <1>3, <3>3
  <2>4. QED
    BY <2>1, <2>2, <2>3, Zenon DEF StrictOrder
<1>5. QED
  BY <1>1, <1>4 DEF D

\* The ascending order of a finite set of integers.
LEMMA AscendingFacts ==
    ASSUME NEW S \in SUBSET Int, IsFiniteSet(S)
    PROVE  /\ Cardinality(S) \in Nat
           /\ IsArrangement(Ascending(S), Cardinality(S), S, Less(S))
BY LessIsStrict, ArrangedFacts, FS_CardinalityType DEF Ascending

\* The same, position by position.
LEMMA AscendingShape ==
    ASSUME NEW S \in SUBSET Int, IsFiniteSet(S)
    PROVE  /\ Cardinality(S) \in Nat
           /\ Ascending(S) \in [1 .. Cardinality(S) -> S]
           /\ Ascending(S) \in Seq(S)
           /\ DOMAIN Ascending(S) = 1 .. Cardinality(S)
           /\ Len(Ascending(S)) = Cardinality(S)
<1> DEFINE n == Cardinality(S)
<1> DEFINE s == Ascending(S)
<1>1. n \in Nat /\ IsArrangement(s, n, S, Less(S))
  BY AscendingFacts
<1> HIDE DEF s, n
<1>2. s \in [1 .. n -> S] /\ s \in Seq(S) /\ Len(s) = n /\ DOMAIN s = 1 .. n
  BY <1>1, ArrangementShape
<1>3. QED
  BY <1>1, <1>2 DEF s, n

LEMMA AscendingGrows ==
    ASSUME NEW S \in SUBSET Int, IsFiniteSet(S)
    PROVE  \A i, j \in 1 .. Cardinality(S) : i < j => Ascending(S)[i] < Ascending(S)[j]
<1> DEFINE n == Cardinality(S)
<1> DEFINE s == Ascending(S)
<1>1. n \in Nat /\ s \in [1 .. n -> S]
  BY AscendingShape
<1>2. \A i, j \in 1 .. n : i < j => <<s[i], s[j]>> \in Less(S)
  BY AscendingFacts, ArrangementSorted
<1> HIDE DEF s, n
<1>3. \A i, j \in 1 .. n : i < j => s[i] < s[j]
  BY <1>1, <1>2, InLess
<1>4. QED
  BY <1>3 DEF s, n

LEMMA AscendingCovers ==
    ASSUME NEW S \in SUBSET Int, IsFiniteSet(S)
    PROVE  \A x \in S : \E i \in 1 .. Cardinality(S) : Ascending(S)[i] = x
BY AscendingFacts, ArrangementCovers

\* The numbers up to n are in ascending order.
LEMMA AscendingInterval ==
    ASSUME NEW n \in Nat
    PROVE  /\ Ascending(1 .. n) = [i \in 1 .. n |-> i]
           /\ Cardinality(1 .. n) = n /\ IsFiniteSet(1 .. n)
<1> DEFINE s == [i \in 1 .. n |-> i]
<1> DEFINE S == 1 .. n
<1>1. s \in [1 .. n -> S] /\ ToSet(s) = S /\ DOMAIN s = 1 .. n
  BY DEF ToSet
<1>2. \A i, j \in 1 .. n : i < j => <<s[i], s[j]>> \in Less(S)
  BY DEF Less
<1>3. S \subseteq Int
  OBVIOUS
<1> HIDE DEF s, S
<1>4. IsArrangement(s, n, S, Less(S))
  BY <1>1, <1>2 DEF IsArrangement
<1>5. Ascending(S) = s /\ Cardinality(S) = n /\ IsFiniteSet(S)
  BY <1>3, <1>4, LessIsStrict, ArrangedIs DEF Ascending
<1>6. QED
  BY <1>5 DEF s, S

-----------------------------------------------------------------------------
(* What is picked from a sequence *)

LEMMA PickedShape ==
    ASSUME NEW V, NEW s \in Seq(V), NEW P \in SUBSET (DOMAIN s)
    PROVE  /\ IsFiniteSet(P) /\ Cardinality(P) \in Nat
           /\ Picked(s, P) \in Seq(V)
           /\ Len(Picked(s, P)) = Cardinality(P)
           /\ Picked(s, P) \in [1 .. Cardinality(P) -> V]
           /\ \A k \in 1 .. Cardinality(P) : /\ Picked(s, P)[k] = s[Ascending(P)[k]]
                                             /\ Ascending(P)[k] \in P
<1>1. P \subseteq 1 .. Len(s) /\ Len(s) \in Nat
  OBVIOUS
<1>2. IsFiniteSet(1 .. Len(s))
  BY <1>1, AscendingInterval
<1>3. IsFiniteSet(P) /\ P \in SUBSET Int
  BY <1>1, <1>2, FS_Subset
<1>4. /\ Cardinality(P) \in Nat
      /\ Ascending(P) \in [1 .. Cardinality(P) -> P]
      /\ DOMAIN Ascending(P) = 1 .. Cardinality(P)
  BY <1>3, AscendingShape
<1>5. Picked(s, P) = [k \in 1 .. Cardinality(P) |-> s[Ascending(P)[k]]]
  BY <1>4 DEF Picked
<1>6. \A k \in 1 .. Cardinality(P) : Ascending(P)[k] \in P /\ s[Ascending(P)[k]] \in V
  BY <1>4
<1> DEFINE t == Picked(s, P)
<1>7. t \in [1 .. Cardinality(P) -> V]
  BY <1>5, <1>6
<1>8. \A k \in 1 .. Cardinality(P) : t[k] = s[Ascending(P)[k]]
  BY <1>5
<1> HIDE DEF t
<1>9. t \in Seq(V) /\ Len(t) = Cardinality(P)
  BY <1>4, <1>7
<1>10. QED
  BY <1>3, <1>4, <1>6, <1>7, <1>8, <1>9 DEF t

\* What is picked from a sorted sequence is sorted.
LEMMA PickedArranged ==
    ASSUME NEW S, NEW order, NEW n \in Nat, NEW s, IsArrangement(s, n, S, order),
           NEW P \in SUBSET (1 .. n), NEW T,
           \A i \in P : s[i] \in T, \A x \in T : \E i \in P : s[i] = x
    PROVE  /\ Cardinality(P) \in Nat
           /\ IsArrangement(Picked(s, P), Cardinality(P), T, order)
<1>1. s \in [1 .. n -> S] /\ s \in Seq(S) /\ Len(s) = n /\ DOMAIN s = 1 .. n
  BY ArrangementShape
<1>2. \A i, j \in 1 .. n : i < j => <<s[i], s[j]>> \in order
  BY ArrangementSorted
<1> DEFINE m == Cardinality(P)
<1> DEFINE t == Picked(s, P)
<1> DEFINE a == Ascending(P)
<1>3. /\ IsFiniteSet(P) /\ m \in Nat /\ t \in [1 .. m -> S]
      /\ \A k \in 1 .. m : t[k] = s[a[k]] /\ a[k] \in P
  BY <1>1, PickedShape
<1>4. P \in SUBSET Int
  OBVIOUS
<1>5. \A i, j \in 1 .. m : i < j => a[i] < a[j]
  BY <1>3, <1>4, AscendingGrows
<1>6. \A x \in P : \E i \in 1 .. m : a[i] = x
  BY <1>3, <1>4, AscendingCovers
<1> HIDE DEF m, t, a
<1>7. t \in [1 .. m -> T]
  BY <1>3
<1>8. DOMAIN t = 1 .. m
  BY <1>3
<1>9. ToSet(t) = T
  <2>1. \A x \in T : \E k \in 1 .. m : t[k] = x
    <3> SUFFICES ASSUME NEW x \in T PROVE \E k \in 1 .. m : t[k] = x
      OBVIOUS
    <3>1. PICK i \in P : s[i] = x
      OBVIOUS
    <3>2. PICK k \in 1 .. m : a[k] = i
      BY <1>6
    <3>3. QED
      BY <1>3, <3>1, <3>2
  <2>2. QED
    BY <1>3, <1>7, <2>1, ToSetFacts
<1>10. \A i, j \in 1 .. m : i < j => <<t[i], t[j]>> \in order
  <2> SUFFICES ASSUME NEW i \in 1 .. m, NEW j \in 1 .. m, i < j
               PROVE  <<t[i], t[j]>> \in order
    OBVIOUS
  <2>1. a[i] < a[j] /\ a[i] \in 1 .. n /\ a[j] \in 1 .. n
    BY <1>3, <1>5
  <2>2. <<s[a[i]], s[a[j]]>> \in order
    BY <1>2, <2>1
  <2>3. QED
    BY <1>3, <2>2
<1>11. IsArrangement(t, m, T, order)
  BY <1>7, <1>8, <1>9, <1>10 DEF IsArrangement
<1>12. QED
  BY <1>3, <1>11 DEF t, m

\* All of a sequence.
LEMMA PickedAll ==
    ASSUME NEW V, NEW s \in Seq(V)
    PROVE  Picked(s, DOMAIN s) = s
<1>1. Len(s) \in Nat /\ DOMAIN s = 1 .. Len(s)
  OBVIOUS
<1> DEFINE n == Len(s)
<1>2. Ascending(1 .. n) = [i \in 1 .. n |-> i]
  BY <1>1, AscendingInterval
<1>3. Picked(s, 1 .. n) = [k \in 1 .. n |-> s[k]]
  BY <1>2 DEF Picked
<1>4. QED
  BY <1>1, <1>3

-----------------------------------------------------------------------------
(* Flattened blocks *)

\* Two sorted sequences, all of the first before all of the second.
LEMMA ConcatArranged ==
    ASSUME NEW S, NEW T, NEW order, NEW m \in Nat, NEW n \in Nat, NEW s, NEW t,
           IsArrangement(s, m, S, order), IsArrangement(t, n, T, order),
           \A x \in S, y \in T : <<x, y>> \in order
    PROVE  IsArrangement(s \o t, m + n, S \union T, order)
<1> DEFINE U == S \union T
<1> DEFINE u == s \o t
<1>1. s \in [1 .. m -> S] /\ s \in Seq(S) /\ Len(s) = m
  BY ArrangementShape
<1>2. t \in [1 .. n -> T] /\ t \in Seq(T) /\ Len(t) = n
  BY ArrangementShape
<1>3. s \in Seq(U) /\ t \in Seq(U)
  BY <1>1, <1>2
<1>4. /\ u \in Seq(U) /\ Len(u) = m + n
      /\ \A i \in 1 .. m : u[i] = s[i]
      /\ \A i \in 1 .. n : u[m + i] = t[i]
  BY <1>1, <1>2, <1>3, ConcatAt
<1> HIDE DEF u
<1>5. u \in [1 .. m + n -> U] /\ DOMAIN u = 1 .. m + n
  BY <1>4
<1>6. \A i \in (m + 1) .. (m + n) : u[i] = t[i - m] /\ i - m \in 1 .. n
  <2> SUFFICES ASSUME NEW i \in (m + 1) .. (m + n) PROVE u[i] = t[i - m] /\ i - m \in 1 .. n
    OBVIOUS
  <2>1. i - m \in 1 .. n /\ m + (i - m) = i
    OBVIOUS
  <2>2. QED
    BY <1>4, <2>1
<1>7. ToSet(u) = U
  <2>1. \A x \in U : \E i \in 1 .. m + n : u[i] = x
    <3>1. ASSUME NEW x \in S PROVE \E i \in 1 .. m + n : u[i] = x
      <4>1. PICK i \in 1 .. m : s[i] = x
        BY ArrangementCovers
      <4>2. QED
        BY <1>4, <4>1
    <3>2. ASSUME NEW x \in T PROVE \E i \in 1 .. m + n : u[i] = x
      <4>1. PICK i \in 1 .. n : t[i] = x
        BY ArrangementCovers
      <4>2. m + i \in 1 .. m + n /\ u[m + i] = x
        BY <1>4, <4>1
      <4>3. QED
        BY <4>2
    <3>3. QED
      BY <3>1, <3>2
  <2>2. m + n \in Nat
    OBVIOUS
  <2> HIDE DEF U
  <2>3. QED
    BY <1>5, <2>1, <2>2, ToSetFacts
<1>8. \A i, j \in 1 .. m + n : i < j => <<u[i], u[j]>> \in order
  <2> SUFFICES ASSUME NEW i \in 1 .. m + n, NEW j \in 1 .. m + n, i < j
               PROVE  <<u[i], u[j]>> \in order
    OBVIOUS
  <2>1. CASE j <= m
    <3>1. i \in 1 .. m /\ j \in 1 .. m
      BY <2>1
    <3>2. <<s[i], s[j]>> \in order
      BY <3>1, ArrangementSorted
    <3>3. QED
      BY <1>4, <3>1, <3>2
  <2>2. CASE i <= m /\ j > m
    <3>1. i \in 1 .. m /\ j \in (m + 1) .. (m + n)
      BY <2>2
    <3>2. u[i] \in S /\ u[j] \in T
      BY <1>1, <1>2, <1>4, <1>6, <3>1
    <3>3. QED
      BY <3>2
  <2>3. CASE i > m
    <3>1. i \in (m + 1) .. (m + n) /\ j \in (m + 1) .. (m + n) /\ i - m < j - m
      BY <2>3
    <3>2. <<t[i - m], t[j - m]>> \in order
      BY <1>6, <3>1, ArrangementSorted
    <3>3. QED
      BY <1>6, <3>1, <3>2
  <2>4. QED
    BY <2>1, <2>2, <2>3
<1> HIDE DEF U
<1>9. IsArrangement(u, m + n, U, order)
  BY <1>5, <1>7, <1>8 DEF IsArrangement
<1>10. QED
  BY <1>9 DEF u, U

\* Sorted blocks, each before the next.
LEMMA FlattenArranged ==
    ASSUME NEW V, NEW order, NEW n \in Nat, NEW seqs \in Seq(Seq(V)), Len(seqs) = n,
           NEW blocks, NEW sizes \in [1 .. n -> Nat],
           \A i \in 1 .. n : IsArrangement(seqs[i], sizes[i], blocks[i], order),
           \A i, j \in 1 .. n : i < j =>
              \A x \in blocks[i], y \in blocks[j] : <<x, y>> \in order,
           NEW T, \A i \in 1 .. n : blocks[i] \subseteq T,
           \A x \in T : \E i \in 1 .. n : x \in blocks[i]
    PROVE  \E total \in Nat : IsArrangement(FlattenSeq(seqs), total, T, order)
<1>1. CASE n = 0
  <2>1. seqs = <<>>
    BY <1>1
  <2>2. FlattenSeq(seqs) = <<>> /\ T = {}
    BY <1>1, <2>1, FlattenEmpty
  <2>3. IsArrangement(<<>>, 0, {}, order)
    BY DEF IsArrangement, ToSet
  <2>4. QED
    BY <2>2, <2>3
<1>2. CASE n > 0
  <2>1. PICK f : /\ f[1] = seqs[1]
                 /\ \A i \in 2 .. n : f[i] = f[i - 1] \o seqs[i]
                 /\ FlattenSeq(seqs) = f[n]
    BY <1>2, FlattenIs
  <2> DEFINE B(k) == UNION {blocks[i] : i \in 1 .. k}
  <2> HIDE DEF B
  <2> DEFINE Good(k) == k \in 1 .. n => \E total \in Nat : IsArrangement(f[k], total, B(k), order)
  <2> DEFINE N == {k \in Nat : Good(k)}
  <2>2. 0 \in N
    OBVIOUS
  <2>3. ASSUME NEW k \in N PROVE k + 1 \in N
    <3>1. k \in Nat /\ Good(k)
      OBVIOUS
    <3>2. SUFFICES ASSUME k + 1 \in 1 .. n
                   PROVE  \E total \in Nat : IsArrangement(f[k + 1], total, B(k + 1), order)
      BY <3>1
    <3>3. IsArrangement(seqs[k + 1], sizes[k + 1], blocks[k + 1], order) /\ sizes[k + 1] \in Nat
      BY <3>2
    <3>4. B(k + 1) = B(k) \union blocks[k + 1]
      <4> HIDE DEF Good
      <4>1. 1 .. k + 1 = (1 .. k) \union {k + 1}
        OBVIOUS
      <4>2. QED
        BY <4>1 DEF B
    <3>5. CASE k = 0
      <4>1. f[k + 1] = seqs[k + 1]
        BY <2>1, <3>5
      <4>2. B(k + 1) = blocks[k + 1]
        BY <3>5 DEF B
      <4>3. QED
        BY <3>3, <4>1, <4>2
    <3>6. CASE k # 0
      <4>1. k \in 1 .. n /\ k + 1 \in 2 .. n /\ (k + 1) - 1 = k
        BY <3>1, <3>2, <3>6
      <4>2. f[k + 1] = f[k] \o seqs[k + 1]
        BY <2>1, <4>1
      <4>3. PICK total \in Nat : IsArrangement(f[k], total, B(k), order)
        BY <3>1, <4>1
      <4>4. \A x \in B(k), y \in blocks[k + 1] : <<x, y>> \in order
        <5> SUFFICES ASSUME NEW i \in 1 .. k, NEW x \in blocks[i], NEW y \in blocks[k + 1]
                     PROVE  <<x, y>> \in order
          BY DEF B
        <5>1. i \in 1 .. n /\ i < k + 1
          BY <4>1
        <5>2. QED
          BY <3>2, <5>1
      <4>5. IsArrangement(f[k] \o seqs[k + 1], total + sizes[k + 1], B(k) \union blocks[k + 1], order)
        BY <3>3, <4>3, <4>4, ConcatArranged
      <4>6. total + sizes[k + 1] \in Nat
        BY <3>3
      <4>7. QED
        BY <3>4, <4>2, <4>5, <4>6
    <3>7. QED
      BY <3>5, <3>6
  <2> HIDE DEF N
  <2>4. N = Nat
    <3>1. N \in SUBSET Nat
      BY DEF N
    <3>2. QED
      BY <2>2, <2>3, <3>1, SetInduction
  <2>5. n \in 1 .. n /\ n \in N
    BY <1>2, <2>4
  <2>6. \E total \in Nat : IsArrangement(f[n], total, B(n), order)
    BY <2>5 DEF N
  <2>7. B(n) = T
    BY DEF B
  <2>8. QED
    BY <2>1, <2>6, <2>7
<1>3. QED
  <2>1. n = 0 \/ n > 0
    OBVIOUS
  <2>2. QED
    BY <1>1, <1>2, <2>1, Zenon

-----------------------------------------------------------------------------
(* Lines of cells *)

LEMMA Product ==
    ASSUME NEW n \in Nat, NEW k \in Nat
    PROVE  /\ n * k \in Nat /\ n * (k + 1) = n * k + n
           /\ n * 0 = 0 /\ n * 1 = n
OBVIOUS

LEMMA ProductGrows ==
    ASSUME NEW n \in Nat, NEW j \in Nat, NEW k \in Nat, j <= k
    PROVE  n * j <= n * k
<1> DEFINE d == k - j
<1>1. d \in Nat /\ k = j + d
  OBVIOUS
<1> HIDE DEF d
<1>2. n * (j + d) = n * j + n * d /\ n * d \in Nat /\ n * j \in Nat
  BY <1>1
<1>3. QED
  BY <1>1, <1>2

\* The lines it takes to print m lines' cells.
LEMMA LinesOf ==
    ASSUME NEW n \in Nat \ {0}, NEW m \in Nat
    PROVE  (n * m + n - 1) \div n = m
<1> DEFINE a == n * m + n - 1
<1> DEFINE q == a \div n
<1>1. n * m \in Nat /\ a \in Nat
  BY Product
<1>2. q \in Int /\ n * q <= a /\ a < n * q + n
  OBVIOUS
<1> HIDE DEF q
<1>3. q >= 0
  <2>1. ASSUME q < 0 PROVE FALSE
    <3> DEFINE p == -q - 1
    <3>1. p \in Nat /\ q = -(p + 1)
      BY <1>2, <2>1
    <3>2. n * q = -(n * p) - n /\ n * p \in Nat
      BY <3>1
    <3> HIDE DEF p
    <3>3. QED
      BY <1>1, <1>2, <3>2
  <2>2. QED
    BY <1>2, <2>1
<1>4. ~(q < m)
  <2>1. ASSUME q < m PROVE FALSE
    <3>1. q \in Nat /\ q + 1 \in Nat /\ q + 1 <= m
      BY <1>2, <1>3, <2>1
    <3>2. n * (q + 1) <= n * m /\ n * (q + 1) = n * q + n /\ n * q \in Nat
      BY <3>1, Product, ProductGrows
    <3>3. QED
      BY <1>1, <1>2, <3>2
  <2>2. QED
    BY <2>1
<1>5. ~(q > m)
  <2>1. ASSUME q > m PROVE FALSE
    <3>1. q \in Nat /\ m + 1 \in Nat /\ m + 1 <= q
      BY <1>2, <1>3, <2>1
    <3>2. n * (m + 1) <= n * q /\ n * (m + 1) = n * m + n /\ n * q \in Nat
      BY <3>1, Product, ProductGrows
    <3>3. QED
      BY <1>1, <1>2, <3>2
  <2>2. QED
    BY <2>1
<1>6. q = m
  BY <1>2, <1>4, <1>5
<1>7. QED
  BY <1>6 DEF q

\* Rows of one length, one after the other.
LEMMA FlattenRows ==
    ASSUME NEW V, NEW n \in Nat, NEW m \in Nat, NEW seqs \in Seq(Seq(V)), Len(seqs) = m,
           \A k \in 1 .. m : Len(seqs[k]) = n
    PROVE  /\ FlattenSeq(seqs) \in Seq(V)
           /\ Len(FlattenSeq(seqs)) = n * m
           /\ \A k \in 1 .. m : \A i \in 1 .. n :
                 FlattenSeq(seqs)[n * (k - 1) + i] = seqs[k][i]
<1>1. CASE m = 0
  <2>1. seqs = <<>>
    BY <1>1
  <2>2. FlattenSeq(seqs) = <<>> /\ n * m = 0
    BY <1>1, <2>1, FlattenEmpty, Product
  <2>3. QED
    BY <1>1, <2>2
<1>2. CASE m > 0
  <2>1. PICK f : /\ f[1] = seqs[1]
                 /\ \A i \in 2 .. m : f[i] = f[i - 1] \o seqs[i]
                 /\ FlattenSeq(seqs) = f[m]
    BY <1>2, FlattenIs
  <2> DEFINE Row(s, k) == \A i \in 1 .. n : s[n * (k - 1) + i] = seqs[k][i]
  <2> DEFINE Good(k) == k \in 1 .. m =>
                           /\ f[k] \in Seq(V) /\ Len(f[k]) = n * k
                           /\ \A j \in 1 .. k : Row(f[k], j)
  <2> DEFINE N == {k \in Nat : Good(k)}
  <2>2. 0 \in N
    OBVIOUS
  <2>3. ASSUME NEW k \in N PROVE k + 1 \in N
    <3>1. k \in Nat /\ Good(k)
      OBVIOUS
    <3>2. SUFFICES ASSUME k + 1 \in 1 .. m
                   PROVE  /\ f[k + 1] \in Seq(V) /\ Len(f[k + 1]) = n * (k + 1)
                          /\ \A j \in 1 .. k + 1 : Row(f[k + 1], j)
      BY <3>1
    <3>3. seqs[k + 1] \in Seq(V) /\ Len(seqs[k + 1]) = n
      BY <3>2
    <3>4. CASE k = 0
      <4>1. f[k + 1] = seqs[k + 1] /\ k + 1 = 1
        BY <2>1, <3>4
      <4>2. n * (k + 1) = n
        BY <4>1, Product
      <4>3. Row(f[k + 1], 1)
        <5>1. n * (1 - 1) = 0
          BY Product
        <5>2. f[k + 1] = seqs[1]
          BY <4>1
        <5>3. QED
          BY <5>1, <5>2
      <4> HIDE DEF Row
      <4>4. QED
        BY <3>3, <4>1, <4>2, <4>3
    <3>5. CASE k # 0
      <4>1. k \in 1 .. m /\ k + 1 \in 2 .. m /\ (k + 1) - 1 = k
        BY <3>1, <3>2, <3>5
      <4>2. f[k + 1] = f[k] \o seqs[k + 1]
        BY <2>1, <4>1
      <4>3. /\ f[k] \in Seq(V) /\ Len(f[k]) = n * k
            /\ \A j \in 1 .. k : Row(f[k], j)
        BY <3>1, <4>1
      <4>4. n * k \in Nat /\ n * (k + 1) = n * k + n
        BY <3>1, Product
      <4>5. /\ f[k + 1] \in Seq(V) /\ Len(f[k + 1]) = n * k + n
            /\ \A i \in 1 .. n * k : f[k + 1][i] = f[k][i]
            /\ \A i \in 1 .. n : f[k + 1][n * k + i] = seqs[k + 1][i]
        <5> DEFINE s == f[k]
        <5> DEFINE t == seqs[k + 1]
        <5> DEFINE l == n * k
        <5>1. s \in Seq(V) /\ Len(s) = l /\ t \in Seq(V) /\ Len(t) = n /\ f[k + 1] = s \o t
          BY <3>3, <4>2, <4>3
        <5> HIDE DEF s, t, l, Row, Good, N
        <5>2. /\ s \o t \in Seq(V) /\ Len(s \o t) = l + n
              /\ \A i \in 1 .. l : (s \o t)[i] = s[i]
              /\ \A i \in 1 .. n : (s \o t)[l + i] = t[i]
          BY <5>1, ConcatAt
        <5>3. QED
          BY <5>1, <5>2 DEF s, t, l
      <4>6. Row(f[k + 1], k + 1)
        BY <4>1, <4>5
      <4>7. ASSUME NEW j \in 1 .. k PROVE Row(f[k + 1], j)
        <5>1. Row(f[k], j) /\ j - 1 \in Nat /\ j \in Nat
          BY <4>3
        <5>2. n * (j - 1) \in Nat /\ n * ((j - 1) + 1) = n * (j - 1) + n /\ (j - 1) + 1 = j
          BY <5>1, Product
        <5>3. n * j <= n * k
          BY <3>1, <5>1, ProductGrows
        <5>4. ASSUME NEW i \in 1 .. n PROVE f[k + 1][n * (j - 1) + i] = seqs[j][i]
          <6> DEFINE p == n * (j - 1)
          <6> DEFINE t == n * k
          <6> DEFINE w == n * j
          <6>1. p \in Nat /\ t \in Nat /\ w = p + n /\ w <= t
            BY <4>4, <5>2, <5>3
          <6>2. f[k][p + i] = seqs[j][i]
            BY <5>1
          <6>3. \A l \in 1 .. t : f[k + 1][l] = f[k][l]
            BY <4>5
          <6> HIDE DEF p, t, w
          <6>4. p + i \in 1 .. t
            BY <6>1
          <6>5. f[k + 1][p + i] = seqs[j][i]
            BY <6>2, <6>3, <6>4
          <6>6. QED
            BY <6>5 DEF p
        <5>5. QED
          BY <5>4
      <4> HIDE DEF Row
      <4>8. \A j \in 1 .. k + 1 : Row(f[k + 1], j)
        BY <3>1, <4>6, <4>7
      <4>9. QED
        BY <4>4, <4>5, <4>8
    <3>6. QED
      BY <3>4, <3>5
  <2> HIDE DEF N
  <2>4. N = Nat
    <3>1. N \in SUBSET Nat
      BY DEF N
    <3>2. QED
      BY <2>2, <2>3, <3>1, SetInduction
  <2>5. m \in 1 .. m /\ m \in N
    BY <1>2, <2>4
  <2>6. Good(m)
    BY <2>5 DEF N
  <2>7. QED
    BY <2>1, <2>5, <2>6
<1>3. QED
  BY <1>1, <1>2

-----------------------------------------------------------------------------
(* Filters *)

Comparisons == [field : STRING, op : Ops, value : Values]

LEMMA IndexFacts ==
    ASSUME NEW field \in FieldNames
    PROVE  Index(field) \in DOMAIN Schema /\ Schema[Index(field)] = field
BY DEF FieldNames, ToSet, Index

LEMMA SchemaFacts ==
    /\ Schema \in Seq(STRING) /\ Schema \in Seq(FieldNames)
    /\ Len(Schema) \in Nat \ {0} /\ DOMAIN Schema = 1 .. Len(Schema)
    /\ \A i \in 1 .. Len(Schema) : Schema[i] \in FieldNames
    /\ \A i, j \in 1 .. Len(Schema) : Schema[i] = Schema[j] => i = j
<1>1. Schema \in Seq(STRING) /\ Schema # <<>>
  BY SchemaAssumption
<1>2. Len(Schema) \in Nat \ {0} /\ DOMAIN Schema = 1 .. Len(Schema)
  BY <1>1
<1>3. \A i \in 1 .. Len(Schema) : Schema[i] \in FieldNames
  BY <1>2 DEF FieldNames, ToSet
<1>4. Schema \in Seq(FieldNames)
  BY <1>1, <1>2, <1>3
<1>5. \A i, j \in 1 .. Len(Schema) : Schema[i] = Schema[j] => i = j
  BY <1>2, SchemaAssumption DEF IsInjective
<1>6. QED
  BY <1>1, <1>2, <1>3, <1>4, <1>5

LEMMA IndexOfField ==
    ASSUME NEW i \in 1 .. Len(Schema)
    PROVE  Index(Schema[i]) = i
<1>1. Schema[i] \in FieldNames
  BY SchemaFacts
<1>2. Index(Schema[i]) \in 1 .. Len(Schema) /\ Schema[Index(Schema[i])] = Schema[i]
  BY <1>1, IndexFacts, SchemaFacts
<1>3. QED
  BY <1>2, SchemaFacts

LEMMA RowFacts ==
    ASSUME NEW row \in Rows
    PROVE  /\ row \in Seq(Int) /\ Len(row) = Len(Schema) /\ DOMAIN row = DOMAIN Schema
           /\ \A i \in DOMAIN Schema : row[i] \in Int
<1>1. row \in Seq(Int) /\ Len(row) = Len(Schema)
  BY RowsAssumption
<1>2. DOMAIN row = DOMAIN Schema
  BY <1>1, SchemaFacts
<1>3. QED
  BY <1>1, <1>2

LEMMA CellFacts ==
    ASSUME NEW table \in Seq(Rows), NEW f \in DOMAIN Schema
    PROVE  \A r \in DOMAIN table : table[r][f] \in Int
<1>1. \A r \in DOMAIN table : table[r] \in Rows
  OBVIOUS
<1>2. QED
  BY <1>1, RowFacts

\* The records of a table that a comparison selects.
HoldIn(table, c) == {r \in DOMAIN table : Holds(table[r], c)}

\* A sorted sequence of those.
MeansOne(records, table, c) ==
    \E n \in Nat : IsArrangement(records, n, HoldIn(table, c), ByCell(table, Index(c.field)))

\* The scan of the persistent index.
LEMMA QueryIndexMeans ==
    ASSUME rows \in Seq(Rows), NEW c \in Comparisons, c.field \in FieldNames
    PROVE  MeansOne(QueryIndex(c), rows, c)
<1> DEFINE f == Index(c.field)
<1> DEFINE D == DOMAIN rows
<1> DEFINE order == ByCell(rows, f)
<1> DEFINE entries == Arranged(D, order)
<1> DEFINE n == Cardinality(D)
<1>1. f \in DOMAIN Schema
  BY IndexFacts
<1>2. StrictOrder(D, order)
  BY <1>1, CellFacts, ByCellIsStrict
<1>3. D = 1 .. Len(rows) /\ Len(rows) \in Nat
  OBVIOUS
<1>4. IsFiniteSet(D) /\ n \in Nat
  BY <1>3, AscendingInterval
<1> HIDE DEF D, order, n
<1>5. IsArrangement(entries, n, D, order)
  BY <1>2, <1>4, ArrangedFacts DEF n
<1> HIDE DEF entries
<1>6. DOMAIN entries = 1 .. n /\ entries \in [1 .. n -> D]
  BY <1>4, <1>5, ArrangementShape
<1> DEFINE P == {i \in 1 .. n : Matches(rows[entries[i]][f], c.op, c.value)}
<1>7. /\ \A i \in P : entries[i] \in HoldIn(rows, c)
      /\ \A r \in HoldIn(rows, c) : \E i \in P : entries[i] = r
  <2>1. \A r \in D : \E i \in 1 .. n : entries[i] = r
    BY <1>4, <1>5, ArrangementCovers
  <2>2. \A r \in D : Holds(rows[r], c) <=> Matches(rows[r][f], c.op, c.value)
    BY DEF Holds
  <2>3. HoldIn(rows, c) = {r \in D : Matches(rows[r][f], c.op, c.value)}
    BY <2>2 DEF HoldIn, D
  <2> HIDE DEF f
  <2>4. ASSUME NEW r \in D, Matches(rows[r][f], c.op, c.value)
        PROVE  \E i \in P : entries[i] = r
    BY <2>1, <2>4
  <2>5. ASSUME NEW i \in P
        PROVE  entries[i] \in D /\ Matches(rows[entries[i]][f], c.op, c.value)
    BY <1>6
  <2>6. QED
    BY <2>3, <2>4, <2>5
<1>8. P \in SUBSET (1 .. n)
  OBVIOUS
<1>9. QueryIndex(c) = Picked(entries, P)
  BY <1>6 DEF QueryIndex, entries, order, D
<1> HIDE DEF P
<1>10. /\ Cardinality(P) \in Nat
       /\ IsArrangement(Picked(entries, P), Cardinality(P), HoldIn(rows, c), order)
  BY <1>4, <1>5, <1>7, <1>8, PickedArranged
<1>11. QED
  BY <1>9, <1>10 DEF MeansOne, order, f

\* The six comparisons on the keys of the index of a v1 table.
LEMMA KeysMatched ==
    ASSUME NEW copy \in Seq(Rows), NEW c \in Comparisons, c.field \in FieldNames
    PROVE  QueryCache(copy, c) =
              GetRecordIndices(copy, c.field,
                               {k \in Keys(copy, c.field) : Matches(k, c.op, c.value)})
<1> DEFINE all == Keys(copy, c.field)
<1> DEFINE v == c.value
<1>1. v \in Int /\ c.op \in Ops
  BY FiltersAssumption DEF Comparisons
<1>2. all \subseteq Int
  BY CellFacts, IndexFacts DEF Keys
<1> HIDE DEF all, v
<1>3. /\ all \intersect {v} = {k \in all : k = v}
      /\ all \ {v} = {k \in all : k # v}
      /\ all \ {k \in all : k > v} = {k \in all : k <= v}
      /\ all \ {k \in all : k >= v} = {k \in all : k < v}
  <2>1. \A k \in all : (~(k > v) <=> k <= v) /\ (~(k >= v) <=> k < v)
    BY <1>1, <1>2
  <2>2. all \intersect {v} = {k \in all : k = v} /\ all \ {v} = {k \in all : k # v}
    OBVIOUS
  <2>3. all \ {k \in all : k > v} = {k \in all : k <= v}
    BY <2>1
  <2>4. all \ {k \in all : k >= v} = {k \in all : k < v}
    BY <2>1
  <2>5. QED
    BY <2>2, <2>3, <2>4
<1>4. /\ FromUpperBound(copy, c.field, v) = {k \in all : k > v}
      /\ FromLowerBound(copy, c.field, v) = {k \in all : k >= v}
  BY DEF FromUpperBound, FromLowerBound, all
<1>5. (CASE c.op = "="  -> all \intersect {v}
         [] c.op = "<=" -> all \ FromUpperBound(copy, c.field, v)
         [] c.op = "<"  -> all \ FromLowerBound(copy, c.field, v)
         [] c.op = ">=" -> FromLowerBound(copy, c.field, v)
         [] c.op = ">"  -> FromUpperBound(copy, c.field, v)
         [] c.op = "!=" -> all \ {v})
      = {k \in all : Matches(k, c.op, v)}
  <2>1. CASE c.op = "="
    BY <1>3, <2>1 DEF Matches
  <2>2. CASE c.op = "!="
    BY <1>3, <2>2 DEF Matches
  <2>3. CASE c.op = "<"
    BY <1>3, <1>4, <2>3 DEF Matches
  <2>4. CASE c.op = "<="
    BY <1>3, <1>4, <2>4 DEF Matches
  <2>5. CASE c.op = ">"
    BY <1>3, <1>4, <2>5 DEF Matches
  <2>6. CASE c.op = ">="
    BY <1>3, <1>4, <2>6 DEF Matches
  <2>7. QED
    BY <1>1, <2>1, <2>2, <2>3, <2>4, <2>5, <2>6 DEF Ops
<1>6. QED
  BY <1>5 DEF QueryCache, all, v

LEMMA KeysFinite ==
    ASSUME NEW copy \in Seq(Rows), NEW field \in FieldNames
    PROVE  /\ Keys(copy, field) \in SUBSET Int /\ IsFiniteSet(Keys(copy, field))
           /\ IsFiniteSet(DOMAIN copy) /\ DOMAIN copy \subseteq Int
<1> DEFINE D == DOMAIN copy
<1> DEFINE f == Index(field)
<1> DEFINE K == {copy[r][f] : r \in D}
<1>1. D = 1 .. Len(copy) /\ Len(copy) \in Nat
  OBVIOUS
<1>2. IsFiniteSet(D) /\ D \subseteq Int
  <2>1. IsFiniteSet(1 .. Len(copy))
    BY <1>1, AscendingInterval
  <2>2. QED
    BY <1>1, <2>1
<1>3. \A r \in D : copy[r][f] \in Int
  BY CellFacts, IndexFacts
<1> HIDE DEF D
<1>4. K \in SUBSET Int
  BY <1>3
<1> DEFINE g == [r \in D |-> copy[r][f]]
<1>5. g \in Surjection(D, K)
  BY DEF Surjection
<1> HIDE DEF g, K
<1>6. IsFiniteSet(K)
  BY <1>2, <1>5, FS_Surjection
<1>7. Keys(copy, field) = K
  BY DEF Keys, K, D, f
<1>8. QED
  BY <1>2, <1>4, <1>6, <1>7 DEF D

\* The records of one key, in ascending order, are in the order of the cells.
LEMMA ValueListArranged ==
    ASSUME NEW copy \in Seq(Rows), NEW field \in FieldNames, NEW key \in Int
    PROVE  LET block == {r \in DOMAIN copy : copy[r][Index(field)] = key}
           IN  /\ Cardinality(block) \in Nat
               /\ IsArrangement(ValueList(copy, field, key), Cardinality(block), block,
                                ByCell(copy, Index(field)))
               /\ ValueList(copy, field, key) \in Seq(DOMAIN copy)
<1> DEFINE D == DOMAIN copy
<1> DEFINE f == Index(field)
<1> DEFINE block == {r \in D : copy[r][f] = key}
<1> DEFINE s == Ascending(block)
<1> DEFINE n == Cardinality(block)
<1>1. IsFiniteSet(D) /\ D \subseteq Int
  BY KeysFinite
<1>2. f \in DOMAIN Schema
  BY IndexFacts
<1>3. \A x, y \in D : <<x, y>> \in ByCell(copy, f) <=>
         copy[x][f] < copy[y][f] \/ (copy[x][f] = copy[y][f] /\ x < y)
  BY <1>2, CellFacts, ByCellIsStrict
<1>4. block \subseteq D /\ \A r \in block : copy[r][f] = key
  OBVIOUS
<1>5. ValueList(copy, field, key) = s
  BY DEF ValueList
<1> HIDE DEF D, f, block
<1>6. block \in SUBSET Int /\ IsFiniteSet(block)
  BY <1>1, <1>4, FS_Subset
<1>7. n \in Nat /\ IsArrangement(s, n, block, Less(block))
  BY <1>6, AscendingFacts
<1> HIDE DEF s, n
<1>8. s \in [1 .. n -> block] /\ DOMAIN s = 1 .. n /\ s \in Seq(block)
  BY <1>7, ArrangementShape
<1>9. ToSet(s) = block
  BY <1>7 DEF IsArrangement
<1>10. ASSUME NEW i \in 1 .. n, NEW j \in 1 .. n, i < j
       PROVE  <<s[i], s[j]>> \in ByCell(copy, f)
  <2>1. <<s[i], s[j]>> \in Less(block)
    BY <1>7, <1>10, ArrangementSorted
  <2>2. s[i] \in block /\ s[j] \in block
    BY <1>8
  <2>3. s[i] < s[j]
    BY <2>1, <2>2, InLess
  <2>4. QED
    BY <1>3, <1>4, <2>2, <2>3
<1>11. IsArrangement(s, n, block, ByCell(copy, f))
  BY <1>8, <1>9, <1>10 DEF IsArrangement
<1>12. s \in Seq(D)
  BY <1>4, <1>8
<1>13. QED
  BY <1>5, <1>7, <1>11, <1>12 DEF n, block, D, f

\* get_record_indices of a set of keys.
LEMMA GetRecordIndicesArranged ==
    ASSUME NEW copy \in Seq(Rows), NEW field \in FieldNames, NEW keys \in SUBSET Keys(copy, field)
    PROVE  \E n \in Nat :
              IsArrangement(GetRecordIndices(copy, field, keys), n,
                            {r \in DOMAIN copy : copy[r][Index(field)] \in keys},
                            ByCell(copy, Index(field)))
<1> DEFINE D == DOMAIN copy
<1> DEFINE f == Index(field)
<1> DEFINE order == ByCell(copy, f)
<1> DEFINE a == Ascending(keys)
<1> DEFINE m == Cardinality(keys)
<1> DEFINE B(key) == {r \in D : copy[r][f] = key}
<1> DEFINE seqs == [i \in 1 .. m |-> ValueList(copy, field, a[i])]
<1> DEFINE blocks == [i \in 1 .. m |-> B(a[i])]
<1> DEFINE sizes == [i \in 1 .. m |-> Cardinality(B(a[i]))]
<1>1. keys \in SUBSET Int /\ IsFiniteSet(keys)
  BY KeysFinite, FS_Subset
<1>2. /\ m \in Nat /\ a \in [1 .. m -> keys] /\ DOMAIN a = 1 .. m
      /\ \A i, j \in 1 .. m : i < j => a[i] < a[j]
      /\ \A x \in keys : \E i \in 1 .. m : a[i] = x
  BY <1>1, AscendingShape, AscendingGrows, AscendingCovers
<1>3. GetRecordIndices(copy, field, keys) = FlattenSeq(seqs)
  BY <1>2 DEF GetRecordIndices
<1>4. \A x, y \in D : <<x, y>> \in order <=>
         copy[x][f] < copy[y][f] \/ (copy[x][f] = copy[y][f] /\ x < y)
  <2>1. f \in DOMAIN Schema
    BY IndexFacts
  <2>2. QED
    BY <2>1, CellFacts, ByCellIsStrict
<1>5. \A i \in 1 .. m : a[i] \in Int
  BY <1>1, <1>2
<1>6. \A i \in 1 .. m : /\ Cardinality(B(a[i])) \in Nat
                        /\ IsArrangement(ValueList(copy, field, a[i]), Cardinality(B(a[i])), B(a[i]), order)
                        /\ ValueList(copy, field, a[i]) \in Seq(D)
  BY <1>5, ValueListArranged
<1> HIDE DEF D, f, order, a, m
<1>7. /\ seqs \in Seq(Seq(D)) /\ Len(seqs) = m /\ sizes \in [1 .. m -> Nat]
      /\ \A i \in 1 .. m : IsArrangement(seqs[i], sizes[i], blocks[i], order)
  <2> HIDE DEF B
  <2>1. seqs \in [1 .. m -> Seq(D)] /\ sizes \in [1 .. m -> Nat]
    BY <1>6
  <2>2. \A i \in 1 .. m : IsArrangement(seqs[i], sizes[i], blocks[i], order)
    BY <1>6
  <2> HIDE DEF seqs
  <2>3. seqs \in Seq(Seq(D)) /\ Len(seqs) = m
    BY <1>2, <2>1
  <2>4. QED
    BY <2>1, <2>2, <2>3
<1>8. \A i, j \in 1 .. m : i < j => \A x \in blocks[i], y \in blocks[j] : <<x, y>> \in order
  <2> SUFFICES ASSUME NEW i \in 1 .. m, NEW j \in 1 .. m, i < j,
                      NEW x \in blocks[i], NEW y \in blocks[j]
               PROVE  <<x, y>> \in order
    OBVIOUS
  <2>1. x \in D /\ y \in D /\ copy[x][f] = a[i] /\ copy[y][f] = a[j]
    OBVIOUS
  <2>2. a[i] < a[j]
    BY <1>2
  <2>3. QED
    BY <1>4, <2>1, <2>2
<1> DEFINE T == {r \in D : copy[r][f] \in keys}
<1>9. /\ \A i \in 1 .. m : blocks[i] \subseteq T
      /\ \A r \in T : \E i \in 1 .. m : r \in blocks[i]
  <2>1. ASSUME NEW r \in D, copy[r][f] \in keys PROVE \E i \in 1 .. m : r \in blocks[i]
    <3>1. PICK i \in 1 .. m : a[i] = copy[r][f]
      BY <1>2, <2>1
    <3>2. QED
      BY <3>1
  <2>2. ASSUME NEW i \in 1 .. m, NEW r \in blocks[i] PROVE r \in D /\ copy[r][f] \in keys
    BY <1>2
  <2> HIDE DEF blocks
  <2>3. QED
    BY <2>1, <2>2
<1> HIDE DEF seqs, sizes, blocks, B, T
<1>10. \E n \in Nat : IsArrangement(FlattenSeq(seqs), n, T, order)
  BY <1>2, <1>7, <1>8, <1>9, FlattenArranged
<1>11. QED
  BY <1>3, <1>10 DEF T, order, D, f

\* The index of a v1 table.
LEMMA QueryCacheMeans ==
    ASSUME NEW copy \in Seq(Rows), NEW c \in Comparisons, c.field \in FieldNames
    PROVE  MeansOne(QueryCache(copy, c), copy, c)
<1> DEFINE f == Index(c.field)
<1> DEFINE D == DOMAIN copy
<1> DEFINE keys == {k \in Keys(copy, c.field) : Matches(k, c.op, c.value)}
<1>1. keys \in SUBSET Keys(copy, c.field)
  OBVIOUS
<1>2. QueryCache(copy, c) = GetRecordIndices(copy, c.field, keys)
  BY KeysMatched
<1>3. {r \in D : copy[r][f] \in keys} = HoldIn(copy, c)
  <2>1. \A r \in D : copy[r][f] \in keys <=> Holds(copy[r], c)
    BY DEF Keys, Holds
  <2>2. QED
    BY <2>1 DEF HoldIn
<1> HIDE DEF keys
<1>4. \E n \in Nat : IsArrangement(GetRecordIndices(copy, c.field, keys), n,
                                   {r \in D : copy[r][f] \in keys}, ByCell(copy, f))
  BY <1>1, GetRecordIndicesArranged
<1>5. QED
  BY <1>2, <1>3, <1>4 DEF MeansOne

-----------------------------------------------------------------------------
(* What a clause selects *)

LEMMA ClauseFacts ==
    ASSUME NEW clause \in Filters
    PROVE  /\ clause.comparisons \in Seq(Comparisons)
           /\ Len(clause.comparisons) \in {0, 1, 2}
           /\ clause.logical \in {"and", "or"}
           /\ Len(clause.comparisons) = 0 <=> clause = NoClause
           /\ DOMAIN clause.comparisons = 1 .. Len(clause.comparisons)
<1>1. /\ clause.comparisons \in Seq(Comparisons) /\ clause.logical \in {"and", "or"}
      /\ Len(clause.comparisons) <= 2
      /\ Len(clause.comparisons) = 0 => clause = NoClause
  BY FiltersAssumption DEF Comparisons
<1>2. /\ Len(clause.comparisons) \in Nat
      /\ DOMAIN clause.comparisons = 1 .. Len(clause.comparisons)
  BY <1>1
<1>3. NoClause.comparisons = <<>> /\ Len(<<>>) = 0
  BY DEF NoClause, Clause
<1>4. Len(clause.comparisons) = 0 <=> clause = NoClause
  BY <1>1, <1>3
<1>5. Len(clause.comparisons) \in {0, 1, 2}
  <2> DEFINE n == Len(clause.comparisons)
  <2>1. n \in Nat /\ n <= 2
    BY <1>1, <1>2
  <2> HIDE DEF n
  <2>2. n \in {0, 1, 2}
    BY <2>1
  <2>3. QED
    BY <2>2 DEF n
<1>6. QED
  BY <1>1, <1>2, <1>4, <1>5, Zenon

LEMMA KnownFields ==
    ASSUME NEW clause \in Filters, ClauseKnown(clause), NEW i \in 1 .. Len(clause.comparisons)
    PROVE  clause.comparisons[i] \in Comparisons /\ clause.comparisons[i].field \in FieldNames
BY ClauseFacts DEF ClauseKnown

LEMMA SelectHelpMeans ==
    ASSUME rows \in Seq(Rows), NEW table \in Tables, NEW c \in Comparisons, c.field \in FieldNames
    PROVE  MeansOne(SelectHelp(table, c), IF table.v2 THEN rows ELSE table.storedRows, c)
<1>1. CASE table.v2
  BY <1>1, QueryIndexMeans DEF SelectHelp
<1>2. CASE ~table.v2
  <2>1. table.storedRows \in Seq(Rows)
    BY DEF Tables
  <2>2. QED
    BY <1>2, <2>1, QueryCacheMeans DEF SelectHelp
<1>3. QED
  BY <1>1, <1>2

\* What one comparison selects is a set of records, in the order of the cells.
LEMMA MeansOneIs ==
    ASSUME NEW table \in Seq(Rows), NEW c \in Comparisons, c.field \in FieldNames,
           NEW records, MeansOne(records, table, c)
    PROVE  /\ records = Arranged(HoldIn(table, c), ByCell(table, Index(c.field)))
           /\ ToSet(records) = HoldIn(table, c)
<1> DEFINE order == ByCell(table, Index(c.field))
<1> DEFINE S == HoldIn(table, c)
<1>1. PICK n \in Nat : IsArrangement(records, n, S, order)
  BY DEF MeansOne
<1>2. StrictOrder(DOMAIN table, order)
  BY IndexFacts, CellFacts, ByCellIsStrict
<1>3. S \in SUBSET (DOMAIN table)
  BY DEF HoldIn
<1> HIDE DEF S, order
<1>4. StrictOrder(S, order)
  BY <1>2, <1>3, OrderOnSubset
<1>5. records = Arranged(S, order)
  BY <1>1, <1>4, ArrangedIs
<1>6. ToSet(records) = S
  BY <1>1 DEF IsArrangement
<1>7. QED
  BY <1>5, <1>6 DEF S, order

\* Without a clause, all records.
LEMMA MeaningOfNoClause ==
    ASSUME NEW table \in Seq(Rows)
    PROVE  Meaning(table, NoClause) = [i \in 1 .. Len(table) |-> i]
<1>1. /\ Len(NoClause.comparisons) = 0 /\ DOMAIN NoClause.comparisons = {}
      /\ NoClause.logical = "and"
  BY DEF NoClause, Clause
<1>2. \A row : Satisfies(row, NoClause)
  BY <1>1 DEF Satisfies
<1> DEFINE S == {r \in DOMAIN table : Satisfies(table[r], NoClause)}
<1>3. S = 1 .. Len(table)
  <2>1. DOMAIN table = 1 .. Len(table)
    OBVIOUS
  <2>2. QED
    BY <1>2, <2>1
<1>4. Meaning(table, NoClause) = Ascending(S)
  BY <1>1 DEF Meaning
<1> HIDE DEF S
<1>5. Len(table) \in Nat
  OBVIOUS
<1>6. QED
  BY <1>3, <1>4, <1>5, AscendingInterval

LEMMA SatisfiesOne ==
    ASSUME NEW clause \in Filters, Len(clause.comparisons) = 1, NEW row
    PROVE  Satisfies(row, clause) <=> Holds(row, clause.comparisons[1])
<1>1. DOMAIN clause.comparisons = {1}
  BY ClauseFacts
<1>2. QED
  BY <1>1 DEF Satisfies

LEMMA SatisfiesTwo ==
    ASSUME NEW clause \in Filters, Len(clause.comparisons) = 2, NEW row
    PROVE  Satisfies(row, clause) <=>
              IF clause.logical = "or"
              THEN Holds(row, clause.comparisons[1]) \/ Holds(row, clause.comparisons[2])
              ELSE Holds(row, clause.comparisons[1]) /\ Holds(row, clause.comparisons[2])
<1>1. DOMAIN clause.comparisons = {1, 2}
  BY ClauseFacts
<1>2. QED
  BY <1>1 DEF Satisfies

\* Eval answers what the clause means, of the file or of the copy.
LEMMA SelectedMeans ==
    ASSUME rows \in Seq(Rows), NEW table \in Tables, table.numRecords = Len(table.storedRows),
           NEW clause \in Filters, ClauseKnown(clause)
    PROVE  Selected(table, clause) =
              Meaning(IF table.v2 /\ clause # NoClause THEN rows ELSE table.storedRows, clause)
<1> DEFINE T == IF table.v2 /\ clause # NoClause THEN rows ELSE table.storedRows
<1> DEFINE n == Len(clause.comparisons)
<1>1. T \in Seq(Rows) /\ table.storedRows \in Seq(Rows)
  BY DEF Tables
<1>2. n \in {0, 1, 2} /\ clause.logical \in {"and", "or"}
  BY ClauseFacts
<1>3. n # 0 => T = IF table.v2 THEN rows ELSE table.storedRows
  BY ClauseFacts
<1> HIDE DEF T
<1>4. CASE n = 0
  <2>1. clause = NoClause
    BY <1>4, ClauseFacts
  <2>2. T = table.storedRows
    BY <2>1 DEF T
  <2>3. Selected(table, clause) = [i \in 1 .. table.numRecords |-> i]
    BY <1>4 DEF Selected
  <2>4. QED
    BY <1>1, <2>1, <2>2, <2>3, MeaningOfNoClause DEF T
<1>5. CASE n = 1
  <2> DEFINE c == clause.comparisons[1]
  <2>1. c \in Comparisons /\ c.field \in FieldNames
    BY <1>5, KnownFields
  <2>2. MeansOne(SelectHelp(table, c), T, c)
    BY <1>3, <1>5, <2>1, SelectHelpMeans
  <2>3. Selected(table, clause) = SelectHelp(table, c)
    BY <1>5 DEF Selected
  <2>4. {r \in DOMAIN T : Satisfies(T[r], clause)} = HoldIn(T, c)
    BY <1>5, SatisfiesOne DEF HoldIn
  <2>5. Meaning(T, clause) = Arranged(HoldIn(T, c), ByCell(T, Index(c.field)))
    BY <1>5, <2>4 DEF Meaning
  <2>6. QED
    BY <1>1, <2>1, <2>2, <2>3, <2>5, MeansOneIs DEF T
<1>6. CASE n = 2
  <2> DEFINE c == clause.comparisons[1]
  <2> DEFINE d == clause.comparisons[2]
  <2> DEFINE a == SelectHelp(table, c)
  <2> DEFINE b == SelectHelp(table, d)
  <2>1. /\ c \in Comparisons /\ c.field \in FieldNames
        /\ d \in Comparisons /\ d.field \in FieldNames
    BY <1>6, KnownFields
  <2>2. MeansOne(a, T, c) /\ MeansOne(b, T, d)
    BY <1>3, <1>6, <2>1, SelectHelpMeans
  <2>3. ToSet(a) = HoldIn(T, c) /\ ToSet(b) = HoldIn(T, d)
    BY <1>1, <2>1, <2>2, MeansOneIs
  <2> DEFINE meant == {r \in DOMAIN T : Satisfies(T[r], clause)}
  <2>4. Meaning(T, clause) = Ascending(meant)
    BY <1>6 DEF Meaning
  <2>5. clause.logical = "or" => meant = HoldIn(T, c) \union HoldIn(T, d)
    BY <1>6, SatisfiesTwo DEF HoldIn
  <2>6. clause.logical # "or" => meant = HoldIn(T, c) \intersect HoldIn(T, d)
    BY <1>6, SatisfiesTwo DEF HoldIn
  <2>7. Selected(table, clause) =
           IF clause.logical = "or" THEN MyUnion(a, b) ELSE MyIntersection(a, b)
    BY <1>6 DEF Selected
  <2> HIDE DEF a, b, meant
  <2>8. CASE clause.logical = "or"
    <3>1. meant = ToSet(a) \union ToSet(b)
      BY <2>3, <2>5, <2>8
    <3>2. QED
      BY <2>4, <2>7, <2>8, <3>1 DEF MyUnion, T
  <2>9. CASE clause.logical # "or"
    <3>1. meant = ToSet(a) \intersect ToSet(b)
      BY <2>3, <2>6, <2>9
    <3>2. QED
      BY <2>4, <2>7, <2>9, <3>1 DEF MyIntersection, T
  <2>10. QED
    BY <2>8, <2>9
<1>7. QED
  BY <1>2, <1>4, <1>5, <1>6

LEMMA SeqOfMore ==
    ASSUME NEW S, NEW T, S \subseteq T, NEW s \in Seq(S)
    PROVE  s \in Seq(T)
OBVIOUS

\* The records a clause means are records of the table.
LEMMA MeaningShape ==
    ASSUME NEW table \in Seq(Rows), NEW clause, clause \in Filters \/ clause = NoClause,
           ClauseKnown(clause)
    PROVE  /\ Meaning(table, clause) \in Seq(DOMAIN table)
           /\ ToSet(Meaning(table, clause)) \subseteq DOMAIN table
<1> DEFINE D == DOMAIN table
<1> DEFINE S == {r \in D : Satisfies(table[r], clause)}
<1>1. D = 1 .. Len(table) /\ Len(table) \in Nat
  OBVIOUS
<1>2. IsFiniteSet(1 .. Len(table))
  BY <1>1, AscendingInterval
<1>3. IsFiniteSet(S) /\ S \in SUBSET Int /\ S \in SUBSET D
  BY <1>1, <1>2, FS_Subset
<1>4. \E order : \E n \in Nat : IsArrangement(Meaning(table, clause), n, S, order)
  <2>1. CASE Len(clause.comparisons) = 1
    <3> DEFINE c == clause.comparisons[1]
    <3> DEFINE order == ByCell(table, Index(c.field))
    <3>0. clause \in Filters
      <4>1. NoClause.comparisons = <<>> /\ Len(<<>>) = 0
        BY DEF NoClause, Clause
      <4>2. ASSUME clause = NoClause PROVE FALSE
        <5>1. clause.comparisons = <<>>
          BY <4>1, <4>2
        <5>2. QED
          BY <2>1, <4>1, <5>1
      <4>3. QED
        BY <4>2
    <3>1. c.field \in FieldNames
      BY <2>1, <3>0, KnownFields
    <3>2. StrictOrder(D, order)
      BY <3>1, IndexFacts, CellFacts, ByCellIsStrict
    <3>3. Meaning(table, clause) = Arranged(S, order)
      BY <2>1 DEF Meaning
    <3> HIDE DEF order, S, D
    <3>4. StrictOrder(S, order)
      BY <1>3, <3>2, OrderOnSubset
    <3>5. IsArrangement(Arranged(S, order), Cardinality(S), S, order) /\ Cardinality(S) \in Nat
      BY <1>3, <3>4, ArrangedFacts, FS_CardinalityType
    <3>6. QED
      BY <3>3, <3>5
  <2>2. CASE Len(clause.comparisons) # 1
    <3>1. Meaning(table, clause) = Ascending(S)
      BY <2>2 DEF Meaning
    <3> HIDE DEF S, D
    <3>2. QED
      BY <1>3, <3>1, AscendingFacts
  <2>3. QED
    BY <2>1, <2>2
<1> HIDE DEF S
<1> DEFINE s == Meaning(table, clause)
<1>5. PICK order, n : n \in Nat /\ IsArrangement(s, n, S, order)
  BY <1>4
<1> HIDE DEF s, D
<1>6. s \in Seq(S) /\ ToSet(s) = S
  BY <1>5, ArrangementShape DEF IsArrangement
<1>7. s \in Seq(D)
  BY <1>3, <1>6, SeqOfMore
<1>8. QED
  BY <1>3, <1>6, <1>7 DEF s, D

-----------------------------------------------------------------------------
(* What a projection shows *)

\* The fields a known projection names.
LEMMA NamesFacts ==
    ASSUME NEW projection, projection \in Projections \/ projection = <<>>,
           ProjectionKnown(projection)
    PROVE  LET names == Names(projection)
           IN  /\ names \in Seq(STRING) /\ Len(names) \in Nat \ {0}
               /\ DOMAIN names = 1 .. Len(names)
               /\ \A i \in 1 .. Len(names) : names[i] \in FieldNames
<1>1. CASE projection = <<>> \/ projection[1] = "*"
  <2>1. Names(projection) = Schema
    BY <1>1 DEF Names
  <2>2. QED
    BY <2>1, SchemaFacts
<1>2. CASE ~(projection = <<>> \/ projection[1] = "*")
  <2>1. Names(projection) = projection
    BY <1>2 DEF Names
  <2>2. projection # <<>> /\ projection # <<"*">>
    BY <1>2
  <2>3. ToSet(projection) \subseteq FieldNames
    BY <2>2 DEF ProjectionKnown
  <2>4. projection \in Seq(STRING)
    BY <2>2, ProjectionsAssumption
  <2>5. Len(projection) \in Nat \ {0} /\ DOMAIN projection = 1 .. Len(projection)
    BY <2>2, <2>4
  <2>6. \A i \in 1 .. Len(projection) : projection[i] \in FieldNames
    BY <2>3, <2>5 DEF ToSet
  <2>7. QED
    BY <2>1, <2>4, <2>5, <2>6
<1>3. QED
  BY <1>1, <1>2

\* Sorting the names by their position in the schema keeps each as often.
LEMMA PermutateFieldsIs ==
    ASSUME NEW names \in Seq(STRING), \A i \in 1 .. Len(names) : names[i] \in FieldNames
    PROVE  /\ PermutateFields(names) \in Seq(FieldNames)
           /\ Len(PermutateFields(names)) = Len(names)
           /\ InSchemaOrder(PermutateFields(names), names)
<1> DEFINE n == Len(names)
<1> DEFINE D == DOMAIN names
<1> DEFINE indices == [i \in D |-> <<Index(names[i])>>]
<1> DEFINE order == ByCell(indices, 1)
<1> DEFINE o == Arranged(D, order)
<1> DEFINE header == PermutateFields(names)
<1>1. n \in Nat /\ D = 1 .. n
  OBVIOUS
<1>2. \A i \in D : /\ Index(names[i]) \in 1 .. Len(Schema)
                   /\ Schema[Index(names[i])] = names[i]
  BY <1>1, IndexFacts, SchemaFacts
<1>3. /\ indices \in Seq(Seq(Int)) /\ DOMAIN indices = D
      /\ \A r \in D : indices[r][1] = Index(names[r]) /\ indices[r][1] \in Int
  <2>1. \A i \in D : <<Index(names[i])>> \in Seq(Int) /\ <<Index(names[i])>>[1] = Index(names[i])
    BY <1>2
  <2>2. indices \in [1 .. n -> Seq(Int)]
    BY <1>1, <2>1
  <2>3. DOMAIN indices = D /\ \A r \in D : indices[r][1] = Index(names[r]) /\ indices[r][1] \in Int
    BY <1>2, <2>1
  <2> HIDE DEF indices, D
  <2>4. indices \in Seq(Seq(Int))
    BY <1>1, <2>2
  <2>5. QED
    BY <2>3, <2>4
<1> HIDE DEF indices, D
<1>4. /\ StrictOrder(D, order)
      /\ \A x, y \in D : <<x, y>> \in order <=>
            indices[x][1] < indices[y][1] \/ (indices[x][1] = indices[y][1] /\ x < y)
  BY <1>3, ByCellIsStrict
<1>5. \A x, y \in D : <<x, y>> \in order <=>
         \/ Index(names[x]) < Index(names[y])
         \/ Index(names[x]) = Index(names[y]) /\ x < y
  <2> HIDE DEF order, n
  <2> SUFFICES ASSUME NEW x \in D, NEW y \in D
               PROVE  <<x, y>> \in order <=>
                         \/ Index(names[x]) < Index(names[y])
                         \/ Index(names[x]) = Index(names[y]) /\ x < y
    OBVIOUS
  <2>1. indices[x][1] = Index(names[x]) /\ indices[y][1] = Index(names[y])
    BY <1>3
  <2>2. QED
    BY <1>4, <2>1
<1>6. IsFiniteSet(D) /\ Cardinality(D) = n
  BY <1>1, AscendingInterval
<1>7. IsArrangement(o, n, D, order)
  BY <1>4, <1>6, ArrangedFacts
<1>8. PermutateFields(names) = [k \in DOMAIN o |-> names[o[k]]]
  BY DEF PermutateFields, o, order, indices, D
<1> HIDE DEF order, o
<1>9. /\ o \in [1 .. n -> D] /\ DOMAIN o = 1 .. n
      /\ \A i, j \in 1 .. n : i < j => <<o[i], o[j]>> \in order
      /\ \A x \in D : \E i \in 1 .. n : o[i] = x
  <2> HIDE DEF n
  <2>1. o \in [1 .. n -> D] /\ DOMAIN o = 1 .. n
    <3>1. n \in Nat /\ IsArrangement(o, n, D, order)
      BY <1>1, <1>7
    <3>2. QED
      BY <3>1, ArrangementShape
  <2>2. \A i, j \in 1 .. n : i < j => <<o[i], o[j]>> \in order
    BY <1>1, <1>7, ArrangementSorted
  <2>3. \A x \in D : \E i \in 1 .. n : o[i] = x
    <3>1. n \in Nat /\ IsArrangement(o, n, D, order)
      BY <1>1, <1>7
    <3>2. QED
      BY <3>1, ArrangementCovers
  <2>4. QED
    BY <2>1, <2>2, <2>3
<1>10. header = [k \in 1 .. n |-> names[o[k]]]
  BY <1>8, <1>9
<1> HIDE DEF header
<1>11. \A k \in 1 .. n : o[k] \in 1 .. n /\ header[k] = names[o[k]] /\ header[k] \in FieldNames
  BY <1>1, <1>9, <1>10
<1>12. header \in Seq(FieldNames) /\ Len(header) = n /\ DOMAIN header = 1 .. n
  <2> HIDE DEF n
  <2>1. header \in [1 .. n -> FieldNames]
    BY <1>10, <1>11
  <2>2. QED
    BY <1>1, <2>1
<1>13. ASSUME NEW i \in 1 .. n, NEW j \in 1 .. n, i < j
       PROVE  Index(header[i]) <= Index(header[j])
  <2>1. <<o[i], o[j]>> \in order /\ o[i] \in D /\ o[j] \in D
    BY <1>9, <1>13
  <2>2. \/ Index(names[o[i]]) < Index(names[o[j]])
        \/ Index(names[o[i]]) = Index(names[o[j]])
    BY <1>5, <2>1
  <2>3. Index(names[o[i]]) \in Nat /\ Index(names[o[j]]) \in Nat
    BY <1>2, <2>1
  <2>4. QED
    BY <1>11, <2>2, <2>3
<1>14. ASSUME NEW i \in 1 .. n, NEW j \in 1 .. n, o[i] = o[j] PROVE i = j
  <2>1. \A x \in D : <<x, x>> \notin order
    BY <1>1, <1>2, <1>5
  <2>2. ~(i < j) /\ ~(j < i)
    BY <1>9, <1>14, <2>1
  <2>3. QED
    BY <1>1, <2>2
<1>15. ASSUME NEW field
       PROVE  Cardinality(Positions(header, field)) = Cardinality(Positions(names, field))
  <2> DEFINE H == Positions(header, field)
  <2> DEFINE N == Positions(names, field)
  <2> DEFINE f == [k \in H |-> o[k]]
  <2>1. H = {k \in 1 .. n : names[o[k]] = field} /\ N = {i \in 1 .. n : names[i] = field}
    BY <1>1, <1>11, <1>12 DEF Positions, D
  <2>2. IsFiniteSet(H)
    <3>1. IsFiniteSet(1 .. n) /\ H \subseteq 1 .. n
      BY <1>1, <1>6, <2>1
    <3>2. QED
      BY <3>1, FS_Subset
  <2> HIDE DEF H, N
  <2>3. f \in [H -> N]
    BY <1>11, <2>1
  <2>4. \A k, l \in H : f[k] = f[l] => k = l
    BY <1>14, <2>1
  <2>5. ASSUME NEW i \in N PROVE \E k \in H : f[k] = i
    <3>1. i \in 1 .. n /\ names[i] = field
      BY <2>1
    <3>2. PICK k \in 1 .. n : o[k] = i
      BY <1>1, <1>9, <3>1
    <3>3. k \in H
      BY <2>1, <3>1, <3>2
    <3>4. QED
      BY <3>2, <3>3
  <2> HIDE DEF f
  <2>6. f \in Bijection(H, N)
    BY <2>3, <2>4, <2>5, Zenon DEF Bijection, Injection, IsInjective, Surjection
  <2>7. QED
    BY <2>2, <2>6, FS_Bijection DEF ExistsBijection, H, N
<1>16. InSchemaOrder(header, names)
  BY <1>12, <1>13, <1>15 DEF InSchemaOrder
<1>17. QED
  BY <1>12, <1>16 DEF header

\* As many fields are shown as are named, or fewer if one is named twice.
LEMMA NamedFields ==
    ASSUME NEW names \in Seq(STRING), Len(names) # 0,
           \A i \in 1 .. Len(names) : names[i] \in FieldNames
    PROVE  /\ Cardinality(Named(names)) \in Nat \ {0}
           /\ Cardinality(Named(names)) <= Len(names)
           /\ Cardinality(Named(names)) = Len(names) <=> IsInjective(names)
<1> DEFINE n == Len(names)
<1> DEFINE P == Named(names)
<1> DEFINE f == [i \in 1 .. n |-> Index(names[i])]
<1>1. n \in Nat \ {0} /\ DOMAIN names = 1 .. n
  OBVIOUS
<1>2. IsFiniteSet(1 .. n) /\ Cardinality(1 .. n) = n
  BY <1>1, AscendingInterval
<1>3. \A i \in 1 .. n : /\ Index(names[i]) \in 1 .. Len(Schema)
                        /\ Schema[Index(names[i])] = names[i]
  BY <1>1, IndexFacts, SchemaFacts
<1>4. P = {p \in 1 .. Len(Schema) : \E i \in 1 .. n : Schema[p] = names[i]}
  BY <1>1, SchemaFacts DEF Named, ToSet
<1> HIDE DEF n, P
<1>5. f \in [1 .. n -> P]
  BY <1>3, <1>4
<1>6. ASSUME NEW p \in P PROVE \E i \in 1 .. n : f[i] = p
  <2>1. PICK i \in 1 .. n : Schema[p] = names[i]
    BY <1>4
  <2>2. Index(names[i]) = p
    BY <1>4, <2>1, IndexOfField
  <2>3. QED
    BY <2>2
<1>7. IsInjective(f) <=> IsInjective(names)
  <2>1. \A i, j \in 1 .. n : f[i] = f[j] <=> names[i] = names[j]
    BY <1>3
  <2>2. DOMAIN f = 1 .. n /\ DOMAIN names = 1 .. n
    BY <1>1
  <2> HIDE DEF f
  <2>3. QED
    BY <2>1, <2>2 DEF IsInjective
<1> HIDE DEF f
<1>8. f \in Surjection(1 .. n, P) /\ (f \in Injection(1 .. n, P) <=> IsInjective(names))
  BY <1>5, <1>6, <1>7, Zenon DEF Surjection, Injection
<1>9. /\ IsFiniteSet(P) /\ Cardinality(P) <= n
      /\ Cardinality(P) = n <=> IsInjective(names)
  BY <1>2, <1>8, FS_Surjection
<1>10. f[1] \in P
  BY <1>1, <1>5
<1>11. Cardinality(P) \in Nat /\ Cardinality(P) # 0
  BY <1>9, <1>10, FS_CardinalityType, FS_EmptySet
<1>12. QED
  BY <1>9, <1>11 DEF n, P

\* What is shown of a row.
LEMMA ProjectRowShape ==
    ASSUME NEW row \in Rows, NEW names
    PROVE  /\ ProjectRow(row, names) \in Seq(Int)
           /\ Len(ProjectRow(row, names)) = Cardinality(Named(names))
<1>1. row \in Seq(Int) /\ DOMAIN row = DOMAIN Schema
  BY RowFacts
<1>2. Named(names) \in SUBSET (DOMAIN row)
  BY <1>1 DEF Named
<1>3. QED
  BY <1>1, <1>2, PickedShape DEF ProjectRow

\* The whole schema.
LEMMA WholeSchema ==
    \A row \in Rows : ProjectRow(row, Schema) = row
<1>1. Named(Schema) = DOMAIN Schema
  BY SchemaFacts DEF Named, ToSet
<1>2. ASSUME NEW row \in Rows PROVE ProjectRow(row, Schema) = row
  <2>1. row \in Seq(Int) /\ DOMAIN row = DOMAIN Schema
    BY RowFacts
  <2>2. Picked(row, DOMAIN row) = row
    BY <2>1, PickedAll
  <2>3. QED
    BY <1>1, <2>1, <2>2 DEF ProjectRow
<1>3. QED
  BY <1>2

\* Rows as long as the header are printed as they are.
LEMMA PrintedIs ==
    ASSUME NEW result, NEW V, NEW n \in Nat \ {0}, Len(result.fieldNames) = n,
           NEW lines \in Seq(Seq(V)), \A k \in 1 .. Len(lines) : Len(lines[k]) = n,
           result.printQueue = FlattenSeq(lines)
    PROVE  Printed(result) = lines
<1> DEFINE m == Len(lines)
<1> DEFINE s == FlattenSeq(lines)
<1> HIDE DEF s
<1>1. m \in Nat /\ \A k \in 1 .. m : lines[k] \in Seq(V) /\ Len(lines[k]) = n
  OBVIOUS
<1>2. /\ s \in Seq(V) /\ Len(s) = n * m
      /\ \A k \in 1 .. m : \A i \in 1 .. n : s[n * (k - 1) + i] = lines[k][i]
  <2>1. /\ lines \in Seq(Seq(V)) /\ Len(lines) = m /\ n \in Nat
        /\ \A k \in 1 .. m : Len(lines[k]) = n /\ m \in Nat
    OBVIOUS
  <2> HIDE DEF m
  <2>2. QED
    BY <1>1, <2>1, FlattenRows DEF s
<1>3. n * m \in Nat /\ (n * m + n - 1) \div n = m
  BY <1>1, Product, LinesOf
<1> HIDE DEF s, m
<1>4. Printed(result) = [k \in 1 .. m |-> SubSeq(s, n * (k - 1) + 1,
                                                 IF n * k < n * m THEN n * k ELSE n * m)]
  <2>1. n # 0 /\ Len(result.fieldNames) = n /\ result.printQueue = s
    BY DEF s
  <2>2. QED
    BY <1>2, <1>3, <2>1 DEF Printed
<1>5. ASSUME NEW k \in 1 .. m
      PROVE  SubSeq(s, n * (k - 1) + 1, IF n * k < n * m THEN n * k ELSE n * m) = lines[k]
  <2> DEFINE p == n * (k - 1)
  <2> DEFINE w == n * k
  <2> DEFINE t == n * m
  <2>1. k \in Nat /\ k - 1 \in Nat /\ (k - 1) + 1 = k /\ k <= m
    BY <1>1
  <2>2. p \in Nat /\ n * ((k - 1) + 1) = p + n
    BY <2>1, Product
  <2>3. w <= t
    BY <1>1, <2>1, ProductGrows
  <2>4. w = p + n
    BY <2>1, <2>2
  <2>5. t \in Nat /\ Len(s) = t /\ \A i \in 1 .. n : s[p + i] = lines[k][i]
    BY <1>2, <1>3
  <2>6. lines[k] \in Seq(V) /\ Len(lines[k]) = n
    BY <1>1
  <2> DEFINE l == lines[k]
  <2> HIDE DEF p, w, t, l
  <2>7. (IF w < t THEN w ELSE t) = p + n
    BY <2>2, <2>3, <2>4, <2>5
  <2>8. SubSeq(s, p + 1, p + n) = l
    <3> DEFINE u == SubSeq(s, p + 1, p + n)
    <3>1. u \in Seq(V) /\ Len(u) = n /\ \A i \in 1 .. n : u[i] = s[p + i]
      <4>1. p + 1 \in 1 .. Len(s) /\ p + n \in 1 .. Len(s)
        BY <2>2, <2>3, <2>4, <2>5
      <4>2. QED
        BY <1>2, <2>2, <4>1
    <3> HIDE DEF u
    <3>2. l \in Seq(V) /\ Len(l) = n /\ \A i \in 1 .. n : u[i] = l[i]
      BY <2>5, <2>6, <3>1 DEF l
    <3>3. u = l
      BY <3>1, <3>2
    <3>4. QED
      BY <3>3 DEF u
  <2>9. QED
    BY <2>7, <2>8 DEF p, w, t, l
<1>6. lines = [k \in 1 .. m |-> lines[k]]
  BY DEF m
<1>7. QED
  BY <1>4, <1>5, <1>6

LEMMA NoneOneMore == \A m \in Nat : m = 0 \/ m = 1 \/ m > 1
OBVIOUS

\* One row shorter than the header fits on its line.
LEMMA PrintedOne ==
    ASSUME NEW result, NEW V, NEW n \in Nat \ {0}, Len(result.fieldNames) = n,
           NEW line \in Seq(V), Len(line) \in 1 .. n, result.printQueue = line
    PROVE  Printed(result) = <<line>>
<1> DEFINE c == Len(line)
<1>1. (c + n - 1) \div n = 1
  <2>1. c + n - 1 \in n .. n + n - 1
    OBVIOUS
  <2>2. \A a \in n .. n + n - 1 : a \div n = 1
    OBVIOUS
  <2>3. QED
    BY <2>1, <2>2
<1>2. Printed(result) = [k \in 1 .. 1 |-> SubSeq(line, n * (k - 1) + 1,
                                                 IF n * k < c THEN n * k ELSE c)]
  BY <1>1 DEF Printed
<1>3. \A k \in 1 .. 1 : n * (k - 1) + 1 = 1 /\ ~(n * k < c)
  OBVIOUS
<1>4. SubSeq(line, 1, c) = line
  OBVIOUS
<1>5. Printed(result) = [k \in 1 .. 1 |-> line]
  BY <1>2, <1>3, <1>4
<1>6. QED
  BY <1>5

\* A second row is cut wrongly if rows are shorter than the header.
LEMMA PrintedIsNot ==
    ASSUME NEW result, NEW V, NEW n \in Nat \ {0}, Len(result.fieldNames) = n,
           NEW lines \in Seq(Seq(V)), Len(lines) > 1,
           NEW c \in Nat \ {0}, c < n, \A k \in 1 .. Len(lines) : Len(lines[k]) = c,
           result.printQueue = FlattenSeq(lines)
    PROVE  Printed(result) # lines
<1> DEFINE m == Len(lines)
<1> DEFINE s == FlattenSeq(lines)
<1>1. m \in Nat /\ m > 1
  OBVIOUS
<1>2. s \in Seq(V) /\ Len(s) = c * m
  <2>1. /\ lines \in Seq(Seq(V)) /\ Len(lines) = m /\ c \in Nat
        /\ \A k \in 1 .. m : Len(lines[k]) = c /\ m \in Nat
    OBVIOUS
  <2> HIDE DEF m
  <2>2. QED
    BY <1>1, <2>1, FlattenRows
<1> HIDE DEF s
<1>3. c * m \in Nat /\ c * m > c
  <2> HIDE DEF m
  <2>1. c * 2 <= c * m /\ c * m \in Nat
    BY <1>1, Product, ProductGrows
  <2>2. QED
    BY <2>1
<1>4. SUFFICES ASSUME Printed(result) = lines PROVE FALSE
  OBVIOUS
<1> DEFINE count == (Len(s) + n - 1) \div n
<1> HIDE DEF count
<1>5. Printed(result) = [k \in 1 .. count |-> SubSeq(s, n * (k - 1) + 1,
                                       IF n * k < Len(s) THEN n * k ELSE Len(s))]
  BY DEF Printed, s, count
<1>6. 1 \in DOMAIN Printed(result) /\ Printed(result)[1] = lines[1] /\ Len(lines[1]) = c
  BY <1>1, <1>4
<1>7. lines[1] = SubSeq(s, 1, IF n < Len(s) THEN n ELSE Len(s))
  <2>1. n * (1 - 1) + 1 = 1 /\ n * 1 = n
    OBVIOUS
  <2>2. 1 \in 1 .. count
    BY <1>5, <1>6
  <2>3. Printed(result)[1] = SubSeq(s, n * (1 - 1) + 1,
                                    IF n * 1 < Len(s) THEN n * 1 ELSE Len(s))
    BY <1>5, <2>2
  <2>4. QED
    BY <1>6, <2>1, <2>3
<1>8. CASE n < Len(s)
  <2>1. lines[1] = SubSeq(s, 1, n) /\ n \in 1 .. Len(s)
    BY <1>2, <1>7, <1>8
  <2>2. Len(SubSeq(s, 1, n)) = n
    BY <1>2, <2>1
  <2>3. QED
    BY <1>6, <2>1, <2>2
<1>9. CASE ~(n < Len(s))
  <2>1. lines[1] = SubSeq(s, 1, Len(s))
    BY <1>7, <1>9
  <2>2. Len(SubSeq(s, 1, Len(s))) = Len(s)
    BY <1>2
  <2>3. QED
    BY <1>2, <1>3, <1>6, <2>1, <2>2
<1>10. QED
  BY <1>8, <1>9

\* What is printed are the rows if they are as long as the header, or no second
\* one follows, and in no other case.
LEMMA PrintedRows ==
    ASSUME NEW result, NEW V, NEW n \in Nat \ {0}, Len(result.fieldNames) = n,
           NEW lines \in Seq(Seq(V)), NEW c \in 1 .. n,
           \A k \in 1 .. Len(lines) : Len(lines[k]) = c,
           result.printQueue = FlattenSeq(lines)
    PROVE  Printed(result) = lines <=> c = n \/ Len(lines) <= 1
<1>1. CASE c = n
  BY <1>1, PrintedIs
<1>2. CASE c # n /\ Len(lines) = 0
  <2>1. lines = <<>>
    BY <1>2
  <2>2. result.printQueue = <<>>
    BY <2>1, FlattenEmpty
  <2>3. (0 + n - 1) \div n = 0
    OBVIOUS
  <2>4. Printed(result) = <<>>
    BY <2>2, <2>3 DEF Printed
  <2>5. QED
    BY <1>2, <2>1, <2>4
<1>3. CASE c # n /\ Len(lines) = 1
  <2> DEFINE line == lines[1]
  <2>1. line \in Seq(V) /\ Len(line) = c
    <3>1. 1 \in 1 .. Len(lines)
      BY <1>3
    <3>2. QED
      BY <3>1
  <2>2. lines = <<line>>
    <3>1. lines \in Seq(Seq(V)) /\ Len(lines) = 1
      BY <1>3
    <3>2. QED
      BY <3>1
  <2>3. FlattenSeq(lines) = line
    <3>1. Len(lines) > 0
      BY <1>3
    <3>2. PICK f : f[1] = lines[1] /\ FlattenSeq(lines) = f[Len(lines)]
      BY <3>1, FlattenIs
    <3>3. QED
      BY <1>3, <3>2
  <2> HIDE DEF line
  <2>4. Printed(result) = <<line>>
    BY <2>1, <2>3, PrintedOne
  <2>5. QED
    BY <1>3, <2>2, <2>4
<1>4. CASE c # n /\ Len(lines) > 1
  <2>1. c \in Nat \ {0} /\ c < n
    BY <1>4
  <2>2. Printed(result) # lines
    BY <1>4, <2>1, PrintedIsNot
  <2>3. QED
    BY <1>4, <2>2
<1>5. Len(lines) = 0 \/ Len(lines) = 1 \/ Len(lines) > 1
  <2>1. Len(lines) \in Nat
    OBVIOUS
  <2>2. QED
    BY <2>1, NoneOneMore, Zenon
<1>6. QED
  BY <1>1, <1>2, <1>3, <1>4, <1>5, Zenon

-----------------------------------------------------------------------------
(* The copy is no longer than the file *)

CopyBounded ==
    /\ Len(handle.storedRows) <= MaxRows
    /\ handle.v2 => Len(handle.storedRows) <= Len(rows)

LEMMA InitCopy == Init => CopyBounded
BY MaxRowsAssumption DEF Init, NoTable, CopyBounded

LEMMA NextCopy == TablesOK /\ TablesOK' /\ CopyBounded /\ [Next]_vars => CopyBounded'
<1> SUFFICES ASSUME TablesOK, TablesOK', CopyBounded, [Next]_vars PROVE CopyBounded'
  OBVIOUS
<1> USE MaxRowsAssumption
<1>0. Len(<<>>) = 0 /\ MaxRows \in Nat
  OBVIOUS
<1>1. ASSUME handle' = handle, rows' = rows PROVE CopyBounded'
  BY <1>1 DEF CopyBounded
<1>2. ASSUME handle' = handle, NEW row \in Rows, rows' = Append(rows, row) PROVE CopyBounded'
  <2>1. Len(rows') = Len(rows) + 1 /\ Len(rows) \in Nat /\ Len(handle.storedRows) \in Nat
    BY <1>2, AppendShape DEF TablesOK
  <2>2. QED
    BY <1>2, <2>1 DEF CopyBounded
<1>3. ASSUME handle' = handle, ~handle.v2 PROVE CopyBounded'
  BY <1>3 DEF CopyBounded
<1>4. ASSUME NEW schemaValid \in BOOLEAN, SqlCreate(schemaValid) PROVE CopyBounded'
  <2>1. CASE UNCHANGED rows
    BY <1>1, <1>4, <2>1 DEF SqlCreate
  <2>2. CASE ~Exists
    BY <1>3, <1>4, <2>2 DEF SqlCreate, TablesOK, Exists, IsV2
  <2>3. QED
    BY <1>4, <2>1, <2>2 DEF SqlCreate
<1>5. ASSUME NEW values \in Rows \union BadRows, SqlInsert(values) PROVE CopyBounded'
  <2>1. CASE UNCHANGED rows
    BY <1>1, <1>5, <2>1 DEF SqlInsert
  <2>2. CASE Insertable(IsV2, values) /\ \E threw \in BOOLEAN : InsertRow(values, threw)
    <3>1. IsV2 /\ values \in Rows
      BY <2>2, InsertedIsRow
    <3>2. rows' = Append(rows, values) \/ rows' = rows
      BY <2>2, <3>1, InsertRowShape
    <3>3. handle' = handle
      BY <1>5 DEF SqlInsert
    <3>4. QED
      BY <1>1, <1>2, <3>1, <3>2, <3>3
  <2>3. QED
    BY <1>5, <2>1, <2>2 DEF SqlInsert
<1>6. ASSUME NEW values \in Rows \union BadRows, HandleInsert(values) PROVE CopyBounded'
  <2>1. IsV2 /\ values \in Rows /\ handle \in Tables
    BY <1>6, InsertedIsRow DEF HandleInsert, TablesOK, Tables
  <2>2. PICK threw \in BOOLEAN : /\ InsertRow(values, threw)
                                 /\ handle' = IF threw THEN handle ELSE WithRow(handle, values)
    BY <1>6 DEF HandleInsert
  <2>3. rows' = Append(rows, values) \/ rows' = rows
    BY <2>1, <2>2, InsertRowShape
  <2>4. CASE threw
    BY <1>1, <1>2, <2>1, <2>2, <2>3, <2>4
  <2>5. CASE ~threw
    <3>1. rows' = Append(rows, values)
      BY <2>1, <2>2, <2>5, InsertRowShape
    <3>2. handle'.storedRows = Append(handle.storedRows, values)
      BY <2>1, <2>2, <2>5, WithRowShape DEF TablesOK
    <3>3. /\ Len(rows') = Len(rows) + 1 /\ Len(rows) \in Nat
          /\ Len(handle'.storedRows) = Len(handle.storedRows) + 1
          /\ Len(handle.storedRows) \in Nat
      BY <2>1, <3>1, <3>2, AppendShape DEF TablesOK
    <3>4. handle.v2 /\ Len(rows) < MaxRows
      BY <1>6 DEF HandleInsert, Insertable
    <3>5. QED
      BY <3>3, <3>4 DEF CopyBounded
  <2>6. QED
    BY <2>4, <2>5
<1>7. ASSUME NEW projection, NEW clause, SqlSelect(projection, clause) PROVE CopyBounded'
  BY <1>1, <1>7 DEF SqlSelect
<1>8. ASSUME NEW projection, NEW clause, NEW header, NEW records,
             HandleQuery(projection, clause, header, records)
      PROVE  CopyBounded'
  BY <1>1, <1>8 DEF HandleQuery
<1>9. CASE SqlBatchMissing \/ TakeReply
  BY <1>1, <1>9 DEF SqlBatchMissing, TakeReply
<1>10. CASE HandleOpen
  <2>1. rows' = rows /\ (handle' = handle \/ handle' = OpenTable)
    BY <1>10 DEF HandleOpen
  <2>2. OpenTable.storedRows = rows
    BY TableShapes
  <2>3. Len(rows) \in Nat /\ Len(rows) <= MaxRows
    BY DEF TablesOK
  <2>4. QED
    BY <1>1, <2>1, <2>2, <2>3 DEF CopyBounded
<1>11. CASE HandleCreate
  <2>1. ~handle.v2
    BY <1>11 DEF HandleCreate, TablesOK, Exists, IsV2
  <2>2. handle' = handle \/ handle' = NewTable
    BY <1>11 DEF HandleCreate
  <2>3. rows' \in Seq(Rows) /\ Len(rows') \in Nat
    BY DEF TablesOK
  <2>4. NewTable.storedRows = <<>>
    BY TableShapes
  <2>5. QED
    BY <1>0, <1>3, <2>1, <2>2, <2>3, <2>4 DEF CopyBounded
<1>12. CASE Restart
  <2>1. handle' = NoTable /\ ~NoTable.v2 /\ NoTable.storedRows = <<>>
    BY <1>12, TableShapes DEF Restart
  <2>2. QED
    BY <1>0, <2>1 DEF CopyBounded
<1>13. ASSUME NEW row \in Rows, V1Append(row) PROVE CopyBounded'
  BY <1>2, <1>13 DEF V1Append
<1>14. CASE Migrate
  BY <1>3, <1>14 DEF Migrate, TablesOK, IsV2
<1>15. CASE UNCHANGED vars
  BY <1>1, <1>15 DEF vars
<1>16. QED
  BY <1>4, <1>5, <1>6, <1>7, <1>8, <1>9, <1>10, <1>11, <1>12, <1>13, <1>14, <1>15
     DEF Next, HandleSelect, HandleSelectOne

-----------------------------------------------------------------------------
(* What a statement answers *)

\* The table of a statement that selects nothing shows all the rows.
LEMMA WholeAnswers ==
    ASSUME NEW table \in Tables, table.numRecords = Len(table.storedRows)
    PROVE  LET result == Whole(table)
               meaning == Meaning(table.storedRows, NoClause)
               meant == MeantRows(table.storedRows, Names(<<>>), meaning)
           IN  /\ result.recordIndices = meaning
               /\ result.printQueue = FlattenSeq(meant)
               /\ result.fieldNames = Schema
               /\ InSchemaOrder(Schema, Names(<<>>)) /\ IsInjective(Names(<<>>))
               /\ result.recordIndices = [i \in 1 .. Len(table.storedRows) |-> i]
               /\ Printed(result) = meant
<1> DEFINE T == table.storedRows
<1> DEFINE all == [i \in 1 .. Len(T) |-> i]
<1>1. T \in Seq(Rows)
  BY DEF Tables
<1>2. Meaning(T, NoClause) = all
  BY <1>1, MeaningOfNoClause
<1>3. Names(<<>>) = Schema
  BY DEF Names
<1>4. /\ Whole(table).fieldNames = Schema /\ Whole(table).recordIndices = all
      /\ Whole(table).printQueue = FlattenSeq(T)
  BY DEF Whole
<1>5. MeantRows(T, Schema, all) = T
  <2>1. \A k \in 1 .. Len(T) : T[k] \in Rows
    BY <1>1
  <2>2. \A k \in 1 .. Len(T) : ProjectRow(T[k], Schema) = T[k]
    BY <2>1, WholeSchema
  <2>3. MeantRows(T, Schema, all) = [k \in 1 .. Len(T) |-> ProjectRow(T[k], Schema)]
    BY DEF MeantRows
  <2>4. T = [k \in 1 .. Len(T) |-> T[k]]
    BY <1>1
  <2>5. QED
    BY <2>2, <2>3, <2>4
<1>6. T \in Seq(Seq(Int)) /\ \A k \in 1 .. Len(T) : Len(T[k]) = Len(Schema)
  <2>1. \A k \in 1 .. Len(T) : T[k] \in Rows
    BY <1>1
  <2>2. \A k \in 1 .. Len(T) : T[k] \in Seq(Int) /\ Len(T[k]) = Len(Schema)
    BY <2>1, RowFacts
  <2>3. Rows \subseteq Seq(Int)
    BY RowFacts
  <2>4. T \in Seq(Seq(Int))
    BY <1>1, <2>3, SeqOfMore
  <2>5. QED
    BY <2>2, <2>4
<1>7. Printed(Whole(table)) = T
  <2> DEFINE result == Whole(table)
  <2> DEFINE n == Len(Schema)
  <2>1. n \in Nat \ {0} /\ Len(result.fieldNames) = n /\ result.printQueue = FlattenSeq(T)
    BY <1>4, SchemaFacts
  <2> HIDE DEF result
  <2>2. Printed(result) = T
    BY <1>6, <2>1, PrintedIs
  <2>3. QED
    BY <2>2 DEF result
<1>8. InSchemaOrder(Schema, Schema) /\ IsInjective(Schema)
  <2>1. \A i, j \in 1 .. Len(Schema) : i < j => Index(Schema[i]) <= Index(Schema[j])
    BY IndexOfField
  <2>2. QED
    BY <2>1, SchemaFacts, SchemaAssumption DEF InSchemaOrder
<1>9. QED
  BY <1>2, <1>3, <1>4, <1>5, <1>7, <1>8

\* The header of a projection, and the cells of a row under it.
LEMMA HeaderFacts ==
    ASSUME NEW projection, projection \in Projections \/ projection = <<>>,
           ProjectionKnown(projection)
    PROVE  LET names == Names(projection)
           IN  /\ PermutateFields(names) \in Seq(FieldNames)
               /\ Len(PermutateFields(names)) \in Nat \ {0}
               /\ InSchemaOrder(PermutateFields(names), names)
               /\ Cardinality(Named(names)) \in 1 .. Len(PermutateFields(names))
               /\ Cardinality(Named(names)) = Len(PermutateFields(names))
                     <=> IsInjective(names)
<1> DEFINE names == Names(projection)
<1>1. /\ names \in Seq(STRING) /\ Len(names) \in Nat \ {0}
      /\ \A i \in 1 .. Len(names) : names[i] \in FieldNames
  BY NamesFacts
<1> HIDE DEF names
<1>2. /\ PermutateFields(names) \in Seq(FieldNames)
      /\ Len(PermutateFields(names)) = Len(names)
      /\ InSchemaOrder(PermutateFields(names), names)
  BY <1>1, PermutateFieldsIs
<1>3. /\ Cardinality(Named(names)) \in Nat \ {0}
      /\ Cardinality(Named(names)) <= Len(names)
      /\ Cardinality(Named(names)) = Len(names) <=> IsInjective(names)
  BY <1>1, NamedFields
<1>4. QED
  BY <1>1, <1>2, <1>3 DEF names

\* The lines a SELECT prints.
LEMMA MeantRowsShape ==
    ASSUME NEW table \in Seq(Rows), NEW names, NEW records \in Seq(DOMAIN table)
    PROVE  /\ MeantRows(table, names, records) \in Seq(Seq(Int))
           /\ \A k \in 1 .. Len(MeantRows(table, names, records)) :
                 Len(MeantRows(table, names, records)[k]) = Cardinality(Named(names))
<1> DEFINE n == Len(records)
<1> DEFINE lines == MeantRows(table, names, records)
<1>1. n \in Nat /\ DOMAIN records = 1 .. n /\ \A k \in 1 .. n : table[records[k]] \in Rows
  OBVIOUS
<1>2. lines = [k \in 1 .. n |-> ProjectRow(table[records[k]], names)]
  BY <1>1 DEF MeantRows
<1>3. \A k \in 1 .. n : /\ ProjectRow(table[records[k]], names) \in Seq(Int)
                        /\ Len(ProjectRow(table[records[k]], names)) = Cardinality(Named(names))
  BY <1>1, ProjectRowShape
<1> HIDE DEF lines, n
<1>4. lines \in [1 .. n -> Seq(Int)]
  BY <1>2, <1>3
<1>5. lines \in Seq(Seq(Int)) /\ Len(lines) = n
  BY <1>1, <1>4
<1>6. \A k \in 1 .. n : Len(lines[k]) = Cardinality(Named(names))
  BY <1>2, <1>3
<1>7. QED
  BY <1>5, <1>6 DEF lines

\* The records a filter finds in the file are those of the file, and those of
\* the copy that it does not drop.
LEMMA SelectAnswers ==
    ASSUME TablesOK, NEW table \in Tables, table.numRecords = Len(table.storedRows),
           NEW projection \in Projections, NEW clause \in Filters, Valid(projection, clause),
           ~OutOfRange(table, Selected(table, clause))
    PROVE  LET copied == ~table.v2 \/ clause = NoClause
               T == IF copied THEN table.storedRows ELSE rows
               names == Names(projection)
               meaning == Meaning(T, clause)
           IN  /\ Selected(table, clause) = meaning
               /\ copied \/ IsPrefix(table.storedRows, rows) =>
                     [k \in DOMAIN meaning |-> ProjectRow(table.storedRows[meaning[k]], names)]
                        = MeantRows(T, names, meaning)
<1> DEFINE copied == ~table.v2 \/ clause = NoClause
<1> DEFINE copy == table.storedRows
<1> DEFINE T == IF copied THEN copy ELSE rows
<1> DEFINE names == Names(projection)
<1> DEFINE meaning == Meaning(T, clause)
<1>1. rows \in Seq(Rows) /\ copy \in Seq(Rows) /\ T \in Seq(Rows) /\ ClauseKnown(clause)
  BY DEF TablesOK, Tables, Valid
<1>2. Selected(table, clause) = meaning
  <2>1. T = IF table.v2 /\ clause # NoClause THEN rows ELSE copy
    OBVIOUS
  <2>2. QED
    BY <1>1, <2>1, SelectedMeans
<1>3. meaning \in Seq(DOMAIN T) /\ ToSet(meaning) \subseteq DOMAIN T
  BY <1>1, MeaningShape
<1> HIDE DEF meaning
<1>4. ASSUME ~copied, IsPrefix(copy, rows), NEW k \in DOMAIN meaning
      PROVE  copy[meaning[k]] = rows[meaning[k]]
  <2>1. meaning[k] \in ToSet(meaning) /\ meaning[k] \in DOMAIN rows
    BY <1>3, <1>4 DEF ToSet
  <2>2. ~(meaning[k] > Len(copy))
    BY <1>2, <2>1 DEF OutOfRange
  <2>3. meaning[k] \in 1 .. Len(copy)
    BY <1>1, <2>1, <2>2
  <2>4. QED
    BY <1>1, <1>4, <2>3, PrefixPointwise
<1>5. ASSUME copied \/ IsPrefix(copy, rows)
      PROVE  [k \in DOMAIN meaning |-> ProjectRow(copy[meaning[k]], names)]
                = MeantRows(T, names, meaning)
  <2>1. \A k \in DOMAIN meaning : copy[meaning[k]] = T[meaning[k]]
    BY <1>4, <1>5
  <2>2. QED
    BY <2>1 DEF MeantRows
<1>6. QED
  BY <1>2, <1>5 DEF meaning

-----------------------------------------------------------------------------
(* The reply to a statement *)

\* What a reply says of its result.
ReplyOK ==
    /\ last.result.fieldNames \in Seq(FieldNames)
    /\ last.result.recordIndices \in Seq(1 .. MaxRows)
    /\ last.threw \in BOOLEAN /\ last.error \in BOOLEAN

\* What is to be proved of every reply.
RepliesOK == ReplyOK /\ SqlAnswersFile /\ FilterExactOrRefused

LEMMA NoResultShape ==
    /\ NoResult.fieldNames \in Seq(FieldNames)
    /\ NoResult.recordIndices \in Seq(1 .. MaxRows)
BY DEF NoResult

LEMMA NoReplyOK == last = NoReply => RepliesOK
<1> SUFFICES ASSUME last = NoReply PROVE RepliesOK
  OBVIOUS
<1>1. last.by = "nobody" /\ last.threw = FALSE /\ last.error = FALSE /\ last.result = NoResult
  BY Zenon DEF NoReply, Reply
<1>2. QED
  BY <1>1, NoResultShape DEF RepliesOK, ReplyOK, SqlAnswersFile, FilterExactOrRefused

\* A statement that errs, and one that shows a whole table.
LEMMA SqlErrorOK ==
    ASSUME NEW what, NEW projection, NEW clause, NEW threw \in BOOLEAN,
           last = Reply("sql", what, projection, clause, threw, TRUE, NoResult),
           what = "select" => ~(Exists /\ Valid(projection, clause)) \/ threw
    PROVE  RepliesOK
<1>1. /\ last.by = "sql" /\ last.what = what /\ last.projection = projection
      /\ last.clause = clause /\ last.threw = threw /\ last.error = TRUE
      /\ last.result = NoResult
  BY Zenon DEF Reply
<1>2. ReplyOK
  BY <1>1, NoResultShape DEF ReplyOK
<1>3. SqlAnswersFile
  BY <1>1 DEF SqlAnswersFile, Exists
<1>4. QED
  BY <1>1, <1>2, <1>3 DEF RepliesOK, FilterExactOrRefused

LEMMA SqlWholeOK ==
    ASSUME TablesOK, Exists, NEW what, NEW table \in Tables, NEW threw \in BOOLEAN,
           table.numRecords = Len(table.storedRows), table.storedRows = rows,
           last = Reply("sql", what, <<>>, NoClause, threw, FALSE, Whole(table))
    PROVE  RepliesOK
<1>1. /\ last.by = "sql" /\ last.what = what /\ last.projection = <<>>
      /\ last.clause = NoClause /\ last.threw = threw /\ last.error = FALSE
      /\ last.result = Whole(table)
  BY Zenon DEF Reply
<1> DEFINE result == Whole(table)
<1> DEFINE meaning == Meaning(rows, NoClause)
<1>2. /\ result.recordIndices = meaning
      /\ result.printQueue = FlattenSeq(MeantRows(rows, Names(<<>>), meaning))
      /\ result.fieldNames = Schema
      /\ InSchemaOrder(Schema, Names(<<>>)) /\ IsInjective(Names(<<>>))
      /\ result.recordIndices = [i \in 1 .. Len(rows) |-> i]
      /\ Printed(result) = MeantRows(rows, Names(<<>>), meaning)
  BY WholeAnswers
<1>3. Valid(<<>>, NoClause)
  BY DEF Valid, ProjectionKnown, ClauseKnown, NoClause, Clause
<1> HIDE DEF result
<1>4. ReplyOK
  <2>1. Len(rows) \in Nat /\ Len(rows) <= MaxRows /\ MaxRows \in Nat
    BY MaxRowsAssumption DEF TablesOK
  <2>2. [i \in 1 .. Len(rows) |-> i] \in Seq(1 .. MaxRows)
    BY <2>1
  <2>3. QED
    BY <1>1, <1>2, <2>2, SchemaFacts DEF ReplyOK, result
<1>5. SqlAnswersFile
  BY <1>1, <1>2, <1>3 DEF SqlAnswersFile, Exists, result
<1>6. QED
  BY <1>1, <1>4, <1>5 DEF RepliesOK, FilterExactOrRefused

\* The records of a clause are among those a table may have.
LEMMA MeaningBounded ==
    ASSUME NEW table \in Seq(Rows), Len(table) <= MaxRows, NEW clause \in Filters,
           ClauseKnown(clause)
    PROVE  Meaning(table, clause) \in Seq(1 .. MaxRows)
<1>1. Meaning(table, clause) \in Seq(DOMAIN table)
  BY MeaningShape
<1>2. DOMAIN table \subseteq 1 .. MaxRows
  BY MaxRowsAssumption
<1>3. QED
  BY <1>1, <1>2, SeqOfMore

LEMMA SqlSelectOK ==
    ASSUME TablesOK, Exists, NEW projection \in Projections, NEW clause \in Filters,
           Valid(projection, clause), NEW table \in Tables, NEW threw \in BOOLEAN,
           table.numRecords = Len(table.storedRows), table.storedRows = rows,
           last = Reply("sql", "select", projection, clause, threw, FALSE,
                        ResultTable(table, PermutateFields(Names(projection)), Names(projection),
                                    Selected(table, clause)))
    PROVE  RepliesOK
<1> DEFINE names == Names(projection)
<1> DEFINE meaning == Meaning(rows, clause)
<1> DEFINE header == PermutateFields(names)
<1> DEFINE result == ResultTable(table, header, names, Selected(table, clause))
<1> DEFINE lines == MeantRows(rows, names, meaning)
<1>1. /\ last.by = "sql" /\ last.what = "select" /\ last.projection = projection
      /\ last.clause = clause /\ last.threw = threw /\ last.error = FALSE
      /\ last.result = result
  BY Zenon DEF Reply
<1>2. /\ rows \in Seq(Rows) /\ Len(rows) <= MaxRows
      /\ ClauseKnown(clause) /\ ProjectionKnown(projection)
  BY DEF TablesOK, Valid
<1>3. Selected(table, clause) = meaning
  BY <1>2, SelectedMeans
<1>4. meaning \in Seq(DOMAIN rows) /\ meaning \in Seq(1 .. MaxRows)
  BY <1>2, MeaningShape, MeaningBounded
<1>5. /\ header \in Seq(FieldNames) /\ Len(header) \in Nat \ {0}
      /\ InSchemaOrder(header, names)
      /\ Cardinality(Named(names)) \in 1 .. Len(header)
      /\ Cardinality(Named(names)) = Len(header) <=> IsInjective(names)
  BY <1>2, HeaderFacts
<1>6. /\ lines \in Seq(Seq(Int))
      /\ \A k \in 1 .. Len(lines) : Len(lines[k]) = Cardinality(Named(names))
  BY <1>2, <1>4, MeantRowsShape
<1> HIDE DEF meaning, header
<1>7. /\ result.fieldNames = header /\ result.recordIndices = meaning
      /\ result.printQueue = FlattenSeq(lines)
  BY <1>3 DEF ResultTable, MeantRows
<1> HIDE DEF result, lines
<1>8. Printed(result) = lines <=> IsInjective(names) \/ Len(lines) <= 1
  <2>1. Printed(result) = lines <=> Cardinality(Named(names)) = Len(header) \/ Len(lines) <= 1
    BY <1>5, <1>6, <1>7, PrintedRows
  <2>2. QED
    BY <1>5, <2>1, Zenon
<1>9. ReplyOK
  BY <1>1, <1>4, <1>5, <1>7 DEF ReplyOK
<1>10. SqlAnswersFile
  BY <1>1, <1>5, <1>7, <1>8 DEF SqlAnswersFile, Exists, meaning, lines
<1>11. QED
  BY <1>1, <1>9, <1>10 DEF RepliesOK, FilterExactOrRefused

\* A query of the kept Table; one that throws shows nothing.
LEMMA HandleErrorOK ==
    ASSUME NEW projection, NEW clause, NEW threw \in BOOLEAN,
           last = Reply("handle", "select", projection, clause, threw, TRUE, NoResult)
    PROVE  RepliesOK
<1>1. /\ last.by = "handle" /\ last.threw = threw /\ last.error = TRUE
      /\ last.result = NoResult
  BY Zenon DEF Reply
<1>2. QED
  BY <1>1, NoResultShape DEF RepliesOK, ReplyOK, SqlAnswersFile, FilterExactOrRefused

LEMMA HandleQueryOK ==
    ASSUME TablesOK, CopyBounded, NEW projection \in Projections, NEW clause \in Filters,
           Valid(projection, clause), NEW header \in Seq(FieldNames), NEW threw \in BOOLEAN,
           ~OutOfRange(handle, Selected(handle, clause)),
           last = Reply("handle", "select", projection, clause, threw, FALSE,
                        ResultTable(handle, header, Names(projection), Selected(handle, clause)))
    PROVE  RepliesOK
<1> DEFINE names == Names(projection)
<1> DEFINE copied == ~handle.v2 \/ clause = NoClause
<1> DEFINE T == IF copied THEN handle.storedRows ELSE rows
<1> DEFINE meaning == Meaning(T, clause)
<1> DEFINE result == ResultTable(handle, header, names, Selected(handle, clause))
<1>1. /\ last.by = "handle" /\ last.projection = projection
      /\ last.clause = clause /\ last.threw = threw /\ last.error = FALSE
      /\ last.result = result
  BY Zenon DEF Reply
<1>2. /\ rows \in Seq(Rows) /\ Len(rows) <= MaxRows /\ handle \in Tables
      /\ handle.storedRows \in Seq(Rows) /\ Len(handle.storedRows) <= MaxRows
      /\ handle.numRecords = Len(handle.storedRows)
      /\ ClauseKnown(clause)
  BY DEF TablesOK, Tables, CopyBounded, Valid
<1>3. T \in Seq(Rows) /\ Len(T) <= MaxRows
  BY <1>2
<1>4. /\ Selected(handle, clause) = meaning
      /\ copied \/ IsPrefix(handle.storedRows, rows) =>
            [k \in DOMAIN meaning |-> ProjectRow(handle.storedRows[meaning[k]], names)]
               = MeantRows(T, names, meaning)
  BY <1>2, SelectAnswers
<1> HIDE DEF T
<1>5. meaning \in Seq(1 .. MaxRows)
  BY <1>2, <1>3, MeaningBounded
<1> HIDE DEF meaning
<1>6. /\ result.fieldNames = header /\ result.recordIndices = meaning
      /\ result.printQueue =
            FlattenSeq([k \in DOMAIN meaning |-> ProjectRow(handle.storedRows[meaning[k]], names)])
  BY <1>4 DEF ResultTable
<1> HIDE DEF result
<1>7. ReplyOK
  BY <1>1, <1>5, <1>6 DEF ReplyOK
<1>8. copied \/ IsPrefix(handle.storedRows, rows) =>
         result.printQueue = FlattenSeq(MeantRows(T, names, meaning))
  BY <1>4, <1>6
<1>9. FilterExactOrRefused
  BY <1>1, <1>6, <1>8 DEF FilterExactOrRefused, meaning, T
<1>10. QED
  BY <1>1, <1>7, <1>9 DEF RepliesOK, SqlAnswersFile

\* The replies there are, each by the table of the state it is in.
SqlError ==
    \E what, projection, clause : \E threw \in BOOLEAN :
        /\ last = Reply("sql", what, projection, clause, threw, TRUE, NoResult)
        /\ what = "select" => ~(Exists /\ Valid(projection, clause)) \/ threw
SqlWhole ==
    /\ Exists
    /\ \E what : \E table \in Tables, threw \in BOOLEAN :
          /\ table.numRecords = Len(table.storedRows) /\ table.storedRows = rows
          /\ last = Reply("sql", what, <<>>, NoClause, threw, FALSE, Whole(table))
SqlSelected ==
    /\ Exists
    /\ \E projection \in Projections, clause \in Filters, table \in Tables, threw \in BOOLEAN :
          /\ Valid(projection, clause)
          /\ table.numRecords = Len(table.storedRows) /\ table.storedRows = rows
          /\ last = Reply("sql", "select", projection, clause, threw, FALSE,
                          ResultTable(table, PermutateFields(Names(projection)),
                                      Names(projection), Selected(table, clause)))
HandleError ==
    \E projection, clause : \E threw \in BOOLEAN :
        last = Reply("handle", "select", projection, clause, threw, TRUE, NoResult)
HandleSelected ==
    \E projection \in Projections, clause \in Filters, header \in Seq(FieldNames),
       threw \in BOOLEAN :
        /\ Valid(projection, clause)
        /\ ~OutOfRange(handle, Selected(handle, clause))
        /\ last = Reply("handle", "select", projection, clause, threw, FALSE,
                        ResultTable(handle, header, Names(projection), Selected(handle, clause)))
BatchMissing ==
    /\ \E what, projection, clause, threw, error, result :
          last = Reply("batch", what, projection, clause, threw, error, result)
    /\ ReplyOK

Justified ==
    \/ last = NoReply
    \/ SqlError
    \/ SqlWhole
    \/ SqlSelected
    \/ HandleError
    \/ HandleSelected
    \/ BatchMissing

LEMMA JustifiedReplies ==
    TablesOK /\ CopyBounded /\ Justified => RepliesOK
<1> SUFFICES ASSUME TablesOK, CopyBounded, Justified PROVE RepliesOK
  OBVIOUS
<1>1. CASE last = NoReply
  BY <1>1, NoReplyOK
<1>2. CASE SqlError
  <2>1. PICK what, projection, clause, threw :
           /\ threw \in BOOLEAN
           /\ last = Reply("sql", what, projection, clause, threw, TRUE, NoResult)
           /\ what = "select" => ~(Exists /\ Valid(projection, clause)) \/ threw
    BY <1>2, Zenon DEF SqlError
  <2>2. QED
    BY <2>1, SqlErrorOK, Zenon
<1>3. CASE SqlWhole
  <2>1. PICK what, table, threw :
           /\ table \in Tables /\ threw \in BOOLEAN
           /\ table.numRecords = Len(table.storedRows) /\ table.storedRows = rows
           /\ last = Reply("sql", what, <<>>, NoClause, threw, FALSE, Whole(table))
    BY <1>3, Zenon DEF SqlWhole
  <2>2. QED
    BY <1>3, <2>1, SqlWholeOK, Zenon DEF SqlWhole
<1>4. CASE SqlSelected
  <2>1. PICK projection \in Projections, clause \in Filters, table \in Tables, threw \in BOOLEAN :
           /\ Valid(projection, clause)
           /\ table.numRecords = Len(table.storedRows) /\ table.storedRows = rows
           /\ last = Reply("sql", "select", projection, clause, threw, FALSE,
                           ResultTable(table, PermutateFields(Names(projection)),
                                       Names(projection), Selected(table, clause)))
    BY <1>4 DEF SqlSelected
  <2>2. QED
    BY <1>4, <2>1, SqlSelectOK DEF SqlSelected
<1>5. CASE HandleError
  <2>1. PICK projection, clause, threw :
           /\ threw \in BOOLEAN
           /\ last = Reply("handle", "select", projection, clause, threw, TRUE, NoResult)
    BY <1>5, Zenon DEF HandleError
  <2>2. QED
    BY <2>1, HandleErrorOK, Zenon
<1>6. CASE HandleSelected
  <2>1. PICK projection \in Projections, clause \in Filters, header \in Seq(FieldNames),
             threw \in BOOLEAN :
           /\ Valid(projection, clause)
           /\ ~OutOfRange(handle, Selected(handle, clause))
           /\ last = Reply("handle", "select", projection, clause, threw, FALSE,
                           ResultTable(handle, header, Names(projection), Selected(handle, clause)))
    BY <1>6 DEF HandleSelected
  <2>2. QED
    BY <2>1, HandleQueryOK
<1>7. CASE BatchMissing
  <2>1. last.by = "batch"
    <3>1. PICK what, projection, clause, threw, error, result :
             last = Reply("batch", what, projection, clause, threw, error, result)
      BY <1>7, Zenon DEF BatchMissing
    <3>2. QED
      BY <3>1, Zenon DEF Reply
  <2>2. QED
    BY <1>7, <2>1 DEF BatchMissing, RepliesOK, SqlAnswersFile, FilterExactOrRefused
<1>8. QED
  BY <1>1, <1>2, <1>3, <1>4, <1>5, <1>6, <1>7 DEF Justified

-----------------------------------------------------------------------------
(* What a clause selects depends on the rows and the table only *)

IndexScan(r, c) ==
    LET entries == Arranged(DOMAIN r, ByCell(r, Index(c.field)))
    IN  Picked(entries, {i \in DOMAIN entries :
                            Matches(r[entries[i]][Index(c.field)], c.op, c.value)})

HelpOf(r, table, c) == IF table.v2 THEN IndexScan(r, c) ELSE QueryCache(table.storedRows, c)

SelectedOf(r, table, clause) ==
    CASE Len(clause.comparisons) = 0 -> [i \in 1 .. table.numRecords |-> i]
      [] Len(clause.comparisons) = 1 -> HelpOf(r, table, clause.comparisons[1])
      [] Len(clause.comparisons) = 2 ->
            LET a == HelpOf(r, table, clause.comparisons[1])
                b == HelpOf(r, table, clause.comparisons[2])
            IN  IF clause.logical = "or" THEN MyUnion(a, b) ELSE MyIntersection(a, b)

LEMMA SelectedIs ==
    ASSUME NEW table, NEW clause
    PROVE  /\ Selected(table, clause) = SelectedOf(rows, table, clause)
           /\ Selected(table, clause)' = SelectedOf(rows', table, clause)
<1>1. \A c : QueryIndex(c) = IndexScan(rows, c)
  BY DEF QueryIndex, IndexScan
<1>2. \A c : QueryIndex(c)' = IndexScan(rows', c)
  BY DEF QueryIndex, IndexScan
<1>3. \A c : SelectHelp(table, c) = HelpOf(rows, table, c)
  BY <1>1 DEF SelectHelp, HelpOf
<1>4. \A c : SelectHelp(table, c)' = HelpOf(rows', table, c)
  BY <1>2 DEF SelectHelp, HelpOf
<1> DEFINE x == clause.comparisons[1]
<1> DEFINE y == clause.comparisons[2]
<1>5. /\ SelectHelp(table, x) = HelpOf(rows, table, x) /\ SelectHelp(table, y) = HelpOf(rows, table, y)
      /\ SelectHelp(table, x)' = HelpOf(rows', table, x)
      /\ SelectHelp(table, y)' = HelpOf(rows', table, y)
  BY <1>3, <1>4
<1>6. Selected(table, clause) = SelectedOf(rows, table, clause)
  BY <1>5 DEF Selected, SelectedOf
<1>7. Selected(table, clause)' = SelectedOf(rows', table, clause)
  BY <1>5 DEF Selected, SelectedOf
<1>8. QED
  BY <1>6, <1>7

LEMMA SelectedSame ==
    ASSUME NEW table, NEW clause, rows' = rows
    PROVE  Selected(table, clause)' = Selected(table, clause)
BY SelectedIs

LEMMA SelectedByHandle ==
    ASSUME NEW clause
    PROVE  /\ Selected(handle, clause) = SelectedOf(rows, handle, clause)
           /\ Selected(handle, clause)' = SelectedOf(rows', handle', clause)
<1>1. Selected(handle, clause) = SelectedOf(rows, handle, clause)
  <2>1. PICK table : table = handle
    OBVIOUS
  <2>2. Selected(table, clause) = SelectedOf(rows, table, clause)
    BY SelectedIs
  <2>3. QED
    BY <2>1, <2>2
<1>2. \A c : QueryIndex(c)' = IndexScan(rows', c)
  BY DEF QueryIndex, IndexScan
<1>3. \A c : SelectHelp(handle, c)' = HelpOf(rows', handle', c)
  BY <1>2 DEF SelectHelp, HelpOf
<1> DEFINE x == clause.comparisons[1]
<1> DEFINE y == clause.comparisons[2]
<1>4. /\ SelectHelp(handle, x)' = HelpOf(rows', handle', x)
      /\ SelectHelp(handle, y)' = HelpOf(rows', handle', y)
  BY <1>3
<1>5. Selected(handle, clause)' = SelectedOf(rows', handle', clause)
  BY <1>4 DEF Selected, SelectedOf
<1>6. QED
  BY <1>1, <1>5

\* SQL::command's reply, when it is an error and when it is none.
LEMMA SqlReplyIs ==
    ASSUME NEW what, NEW projection, NEW clause, NEW threw, NEW error \in BOOLEAN, NEW result,
           SqlReply(what, projection, clause, threw, error, result)
    PROVE  \/ error /\ last' = Reply("sql", what, projection, clause, threw, TRUE, NoResult)
           \/ ~error /\ last' = Reply("sql", what, projection, clause, threw, FALSE, result)
<1>1. CASE error
  <2>1. error = TRUE
    BY <1>1
  <2>2. QED
    BY <2>1 DEF SqlReply
<1>2. CASE ~error
  <2>1. error = FALSE
    BY <1>2
  <2>2. QED
    BY <2>1 DEF SqlReply
<1>3. QED
  BY <1>1, <1>2

LEMMA SqlErrorNext ==
    ASSUME NEW what, NEW projection, NEW clause, NEW threw \in BOOLEAN,
           last' = Reply("sql", what, projection, clause, threw, TRUE, NoResult),
           what = "select" => ~(Exists' /\ Valid(projection, clause)) \/ threw
    PROVE  Justified'
<1>1. SqlError'
  BY Zenon DEF SqlError
<1>2. QED
  BY <1>1 DEF Justified

LEMMA SqlWholeNext ==
    ASSUME Exists', NEW what, NEW table \in Tables, NEW threw \in BOOLEAN,
           table.numRecords = Len(table.storedRows), table.storedRows = rows',
           last' = Reply("sql", what, <<>>, NoClause, threw, FALSE, Whole(table))
    PROVE  Justified'
<1>1. SqlWhole'
  BY Zenon DEF SqlWhole
<1>2. QED
  BY <1>1 DEF Justified

LEMMA CreateJustified ==
    ASSUME TablesOK, NEW schemaValid \in BOOLEAN, SqlCreate(schemaValid)
    PROVE  Justified'
<1>1. CASE SqlReply("create", <<>>, NoClause, FALSE, TRUE, NoResult)
  <2>1. last' = Reply("sql", "create", <<>>, NoClause, FALSE, TRUE, NoResult)
    BY <1>1 DEF SqlReply
  <2>2. QED
    BY <2>1, SqlErrorNext
<1>2. ASSUME NEW threw \in BOOLEAN, CreateFiles(threw),
             SqlReply("create", <<>>, NoClause, threw, threw, Whole(NewTable))
      PROVE  Justified'
  <2>1. CASE threw /\ last' = Reply("sql", "create", <<>>, NoClause, threw, TRUE, NoResult)
    BY <2>1, SqlErrorNext
  <2>2. CASE ~threw /\ last' = Reply("sql", "create", <<>>, NoClause, threw, FALSE, Whole(NewTable))
    <3>1. rows' = <<>> /\ IsV2'
      BY <1>2, <2>2, CreateFilesShape
    <3>2. Exists'
      BY <3>1 DEF Exists, IsV2
    <3>3. /\ NewTable \in Tables /\ NewTable.numRecords = Len(NewTable.storedRows)
          /\ NewTable.storedRows = rows'
      BY <3>1, TableShapes
    <3>4. QED
      BY <2>2, <3>2, <3>3, SqlWholeNext
  <2>3. QED
    BY <1>2, <2>1, <2>2, SqlReplyIs
<1>3. QED
  BY <1>1, <1>2, Zenon DEF SqlCreate

LEMMA InsertJustified ==
    ASSUME TablesOK, NEW values \in Rows \union BadRows, SqlInsert(values)
    PROVE  Justified'
<1>1. CASE SqlReply("insert", <<>>, NoClause, FALSE, TRUE, NoResult)
  <2>1. last' = Reply("sql", "insert", <<>>, NoClause, FALSE, TRUE, NoResult)
    BY <1>1 DEF SqlReply
  <2>2. QED
    BY <2>1, SqlErrorNext
<1>2. ASSUME Insertable(IsV2, values), NEW threw \in BOOLEAN, InsertRow(values, threw),
             SqlReply("insert", <<>>, NoClause, threw, threw, Whole(WithRow(OpenTable, values)))
      PROVE  Justified'
  <2> DEFINE new == WithRow(OpenTable, values)
  <2>1. IsV2 /\ values \in Rows
    BY <1>2, InsertedIsRow
  <2>2. CASE threw /\ last' = Reply("sql", "insert", <<>>, NoClause, threw, TRUE, NoResult)
    BY <2>2, SqlErrorNext
  <2>3. CASE ~threw /\ last' = Reply("sql", "insert", <<>>, NoClause, threw, FALSE, Whole(new))
    <3>1. rows' = Append(rows, values) /\ IsV2'
      BY <1>2, <2>1, <2>3, InsertRowShape
    <3>2. Exists'
      BY <3>1 DEF Exists, IsV2
    <3>3. /\ OpenTable \in Tables /\ OpenTable.numRecords = Len(OpenTable.storedRows)
          /\ OpenTable.storedRows = rows
      BY TableShapes
    <3>4. /\ new \in Tables /\ new.numRecords = Len(new.storedRows)
          /\ new.storedRows = rows'
      BY <2>1, <3>1, <3>3, WithRowShape
    <3> HIDE DEF new
    <3>5. QED
      BY <2>3, <3>2, <3>4, SqlWholeNext
  <2>4. QED
    BY <1>2, <2>2, <2>3, SqlReplyIs
<1>3. QED
  BY <1>1, <1>2, Zenon DEF SqlInsert

LEMMA SelectJustified ==
    ASSUME TablesOK, NEW projection \in Projections, NEW clause \in Filters,
           SqlSelect(projection, clause)
    PROVE  Justified'
<1> DEFINE names == Names(projection)
<1> DEFINE result == ResultTable(OpenTable, PermutateFields(names), names,
                                 Selected(OpenTable, clause))
<1>1. PICK threw \in BOOLEAN :
         /\ Open(threw)
         /\ SqlReply("select", projection, clause, threw,
                     threw \/ ~Exists \/ ~Valid(projection, clause), result)
  BY Zenon DEF SqlSelect
<1>2. rows' = rows /\ handle' = handle
  BY DEF SqlSelect
<1>3. Exists' = Exists
  BY <1>1, OpenShape
<1> DEFINE error == threw \/ ~Exists \/ ~Valid(projection, clause)
<1>4. error \in BOOLEAN
  OBVIOUS
<1>5. PICK table : table = OpenTable
  OBVIOUS
<1>6. /\ table \in Tables /\ table.numRecords = Len(table.storedRows)
      /\ table.storedRows = rows'
  BY <1>2, <1>5, TableShapes
<1> DEFINE shown(s) == ResultTable(table, PermutateFields(names), names, s)
<1>7. Selected(table, clause)' = Selected(table, clause)
  BY <1>2, SelectedSame
<1>8. CASE error
  <2>1. error = TRUE
    BY <1>8
  <2>2. last' = Reply("sql", "select", projection, clause, threw, TRUE, NoResult)
    BY <1>1, <2>1 DEF SqlReply
  <2>3. ~(Exists' /\ Valid(projection, clause)) \/ threw
    BY <1>3, <1>8
  <2>4. QED
    BY <2>2, <2>3, SqlErrorNext
<1>9. CASE ~error
  <2>1. error = FALSE
    BY <1>9
  <2>2. last' = Reply("sql", "select", projection, clause, threw, FALSE, result)
    BY <1>1, <2>1 DEF SqlReply
  <2>3. result = shown(Selected(table, clause))
    BY <1>5
  <2>4. Exists' /\ Valid(projection, clause)
    BY <1>3, <1>9
  <2>5. last' = Reply("sql", "select", projection, clause, threw, FALSE,
                      shown(Selected(table, clause)'))
    BY <1>7, <2>2, <2>3
  <2>6. SqlSelected'
    BY <1>6, <2>4, <2>5, Zenon DEF SqlSelected
  <2>7. QED
    BY <2>6 DEF Justified
<1>10. QED
  BY <1>8, <1>9

LEMMA QueryJustified ==
    ASSUME NEW projection \in Projections, NEW clause \in Filters, Valid(projection, clause),
           NEW header \in Seq(FieldNames), NEW records, records = Selected(handle, clause),
           HandleQuery(projection, clause, header, records)
    PROVE  Justified'
<1> DEFINE names == Names(projection)
<1> DEFINE result == ResultTable(handle, header, names, records)
<1> DEFINE error(threw) == threw \/ OutOfRange(handle, records)
<1>1. PICK threw \in BOOLEAN :
         last' = Reply("handle", "select", projection, clause, threw, error(threw),
                       IF error(threw) THEN NoResult ELSE result)
  BY Zenon DEF HandleQuery
<1>2. rows' = rows /\ handle' = handle
  BY DEF HandleQuery
<1>3. Selected(handle, clause)' = records
  BY <1>2, SelectedByHandle
<1>4. error(threw) \in BOOLEAN
  OBVIOUS
<1>5. CASE error(threw)
  <2>1. error(threw) = TRUE
    BY <1>5
  <2>2. last' = Reply("handle", "select", projection, clause, threw, TRUE, NoResult)
    BY <1>1, <2>1
  <2>3. HandleError'
    BY <2>2, Zenon DEF HandleError
  <2>4. QED
    BY <2>3 DEF Justified
<1>6. CASE ~error(threw)
  <2>1. error(threw) = FALSE
    BY <1>6
  <2>2. last' = Reply("handle", "select", projection, clause, threw, FALSE, result)
    BY <1>1, <2>1
  <2>3. ~OutOfRange(handle', Selected(handle, clause)')
    BY <1>2, <1>3, <1>6
  <2>4. last' = Reply("handle", "select", projection, clause, threw, FALSE,
                      ResultTable(handle', header, names, Selected(handle, clause)'))
    BY <1>2, <1>3, <2>2
  <2>5. HandleSelected'
    BY <2>3, <2>4, Zenon DEF HandleSelected
  <2>6. QED
    BY <2>5 DEF Justified
<1>7. QED
  BY <1>5, <1>6

LEMMA BatchJustified ==
    ASSUME TablesOK, CopyBounded, Justified, SqlBatchMissing
    PROVE  Justified'
<1>1. ReplyOK
  BY JustifiedReplies DEF RepliesOK
<1>2. \E what, projection, clause, threw, error, result :
         last = Reply("sql", what, projection, clause, threw, error, result)
  <2>1. last.by = "sql"
    BY DEF SqlBatchMissing
  <2>2. \E by, what, projection, clause, threw, error, result :
           last = Reply(by, what, projection, clause, threw, error, result)
    BY Zenon DEF Justified, NoReply, SqlError, SqlWhole, SqlSelected, HandleError,
                 HandleSelected, BatchMissing
  <2>3. QED
    BY <2>1, <2>2, Zenon DEF Reply
<1>3. PICK what, projection, clause, threw, error, result :
         last = Reply("sql", what, projection, clause, threw, error, result)
  BY <1>2
<1>4. last' = Reply("batch", what, projection, clause, threw, TRUE, result)
  BY <1>3 DEF SqlBatchMissing, Reply
<1>5. ReplyOK'
  <2>1. last.result = result /\ last.threw = threw
    BY <1>3, Zenon DEF Reply
  <2>2. last'.result = result /\ last'.threw = threw /\ last'.error = TRUE
    BY <1>4, Zenon DEF Reply
  <2>3. QED
    BY <1>1, <2>1, <2>2 DEF ReplyOK
<1>6. BatchMissing'
  BY <1>4, <1>5, Zenon DEF BatchMissing
<1>7. QED
  BY <1>6 DEF Justified

LEMMA JustifiedKept ==
    ASSUME Justified, UNCHANGED vars
    PROVE  Justified'
<1>1. format' = format /\ rows' = rows /\ handle' = handle /\ last' = last
  BY DEF vars
<1>2. Exists' = Exists
  BY <1>1 DEF Exists
<1>3. \A table, clause : Selected(table, clause)' = Selected(table, clause)
  <2> TAKE table, clause
  <2>1. QED
    BY <1>1, SelectedSame
<1>4. \A clause : Selected(handle, clause)' = Selected(handle, clause)
  BY <1>1, SelectedByHandle
<1>5. CASE SqlError
  <2>1. SqlError'
    BY <1>1, <1>2, <1>5, Zenon DEF SqlError
  <2>2. QED
    BY <2>1 DEF Justified
<1>6. CASE SqlWhole
  <2>1. SqlWhole'
    BY <1>1, <1>2, <1>6, Zenon DEF SqlWhole
  <2>2. QED
    BY <2>1 DEF Justified
<1>7. CASE SqlSelected
  <2>1. SqlSelected'
    BY <1>1, <1>2, <1>3, <1>7, Zenon DEF SqlSelected
  <2>2. QED
    BY <2>1 DEF Justified
<1>8. CASE HandleError
  <2>1. HandleError'
    BY <1>1, <1>8, Zenon DEF HandleError
  <2>2. QED
    BY <2>1 DEF Justified
<1>9. CASE HandleSelected
  <2>1. HandleSelected'
    BY <1>1, <1>4, <1>9, Zenon DEF HandleSelected
  <2>2. QED
    BY <2>1 DEF Justified
<1>10. CASE BatchMissing
  <2>1. BatchMissing'
    BY <1>1, <1>10, Zenon DEF BatchMissing, ReplyOK
  <2>2. QED
    BY <2>1 DEF Justified
<1>11. CASE last = NoReply
  BY <1>1, <1>11 DEF Justified
<1>12. QED
  BY <1>5, <1>6, <1>7, <1>8, <1>9, <1>10, <1>11 DEF Justified

LEMMA NextJustified ==
    TablesOK /\ CopyBounded /\ Justified /\ [Next]_vars => Justified'
<1> SUFFICES ASSUME TablesOK, CopyBounded, Justified, [Next]_vars PROVE Justified'
  OBVIOUS
<1>1. ASSUME NEW schemaValid \in BOOLEAN, SqlCreate(schemaValid) PROVE Justified'
  BY <1>1, CreateJustified
<1>2. ASSUME NEW values \in Rows \union BadRows, SqlInsert(values) PROVE Justified'
  BY <1>2, InsertJustified
<1>3. ASSUME last' = NoReply PROVE Justified'
  BY <1>3 DEF Justified
<1>4. ASSUME NEW projection \in Projections, NEW clause \in Filters,
             SqlSelect(projection, clause)
      PROVE  Justified'
  BY <1>4, SelectJustified
<1>5. ASSUME NEW projection \in Projections, NEW clause \in Filters,
             HandleSelect(projection, clause)
      PROVE  Justified'
  <2> DEFINE header == PermutateFields(Names(projection))
  <2>1. /\ Valid(projection, clause)
        /\ HandleQuery(projection, clause, header, Selected(handle, clause))
    BY <1>5 DEF HandleSelect
  <2>2. header \in Seq(FieldNames)
    BY <2>1, HeaderFacts DEF Valid
  <2>3. PICK records : records = Selected(handle, clause)
    OBVIOUS
  <2> HIDE DEF header
  <2>4. QED
    BY <2>1, <2>2, <2>3, QueryJustified
<1>6. ASSUME NEW projection \in Projections, NEW clause \in Filters,
             HandleSelectOne(projection, clause)
      PROVE  Justified'
  <2>1. /\ Valid(projection, clause) /\ Len(clause.comparisons) = 1
        /\ HandleQuery(projection, clause, Schema, SelectHelp(handle, clause.comparisons[1]))
    BY <1>6 DEF HandleSelectOne
  <2>2. Selected(handle, clause) = SelectHelp(handle, clause.comparisons[1])
    BY <2>1 DEF Selected
  <2>3. PICK records : records = SelectHelp(handle, clause.comparisons[1])
    OBVIOUS
  <2>4. Schema \in Seq(FieldNames)
    BY SchemaFacts
  <2>5. QED
    BY <2>1, <2>2, <2>3, <2>4, QueryJustified
<1>7. CASE SqlBatchMissing
  BY <1>7, BatchJustified
<1>8. CASE UNCHANGED vars
  BY <1>8, JustifiedKept
<1>9. ASSUME NEW values, HandleInsert(values) PROVE last' = NoReply
  BY <1>9 DEF HandleInsert
<1>10. ASSUME NEW row, V1Append(row) PROVE last' = NoReply
  BY <1>10 DEF V1Append
<1>11. CASE HandleOpen \/ HandleCreate \/ Restart \/ Migrate \/ TakeReply
  BY <1>3, <1>11 DEF HandleOpen, HandleCreate, Restart, Migrate, TakeReply
<1>12. QED
  BY <1>1, <1>2, <1>3, <1>4, <1>5, <1>6, <1>7, <1>8, <1>9, <1>10, <1>11 DEF Next

LEMMA InitJustified == Init => Justified
BY DEF Init, Justified

\* Every reply is one of those above, of the rows as they are.
LEMMA RepliesHold == Spec => [](TablesOK /\ RepliesOK)
<1> DEFINE IInv == TablesOK /\ CopyBounded /\ Justified
<1>1. Init => IInv
  BY InitTables, InitCopy, InitJustified
<1>2. IInv /\ [Next]_vars => IInv'
  <2>1. TablesOK /\ [Next]_vars => TablesOK'
    BY NextTables
  <2>2. QED
    BY <2>1, NextCopy, NextJustified
<1>3. IInv => TablesOK /\ RepliesOK
  BY JustifiedReplies
<1>4. QED
  BY <1>1, <1>2, <1>3, PTL DEF Spec

\* A reply names fields of the table and records it may have, whatever filters,
\* projections and rows there are (run_sql, sql.cpp, table.cpp).
THEOREM TypeCorrect == Spec => []TypeOK
<1>1. TablesOK /\ RepliesOK => TypeOK
  BY DEF RepliesOK, ReplyOK, TypeOK
<1>2. QED
  BY <1>1, RepliesHold, PTL

\* Every statement given to SQL::command, for every schema, all rows, all
\* projections the code accepts and all clauses of up to two comparisons, selects
\* exactly the rows the clause means of the table as its files hold it, and shows
\* their named cells under the named fields in the order of the schema: the scan
\* of the persistent index, the in-memory index of a v1 table, the union and the
\* intersection of two results and the sorting of the projection all come to that
\* (sql.cpp, table.cpp, storage_v2.cpp).  What is printed are these rows exactly
\* if no field was named twice or there is no second row: a repeated field makes
\* the header longer than the rows, and the printer cuts lines of its length.
THEOREM StatementsAnswerTheFile == Spec => []SqlAnswersFile
<1>1. TablesOK /\ RepliesOK => SqlAnswersFile
  BY DEF RepliesOK
<1>2. QED
  BY <1>1, RepliesHold, PTL

\* A Table that is kept while others insert answers a filter as the file has
\* it, or throws, as long as its copy is a prefix of the file; otherwise it
\* answers from its copy (Table::select, selectHelp).
THEOREM FiltersExactOrRefused == Spec => []FilterExactOrRefused
<1>1. TablesOK /\ RepliesOK => FilterExactOrRefused
  BY DEF RepliesOK
<1>2. QED
  BY <1>1, RepliesHold, PTL
=============================================================================
