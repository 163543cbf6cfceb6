--------------------------- MODULE AppendRowProofs ---------------------------
(***************************************************************************)
(* What storage_append_row leaves, for every file, every statement and any *)
(* number of calls and faults: a table it created and could not fill goes  *)
(* again, a row it could not write costs no record that was there, and one *)
(* it has written is found again.  What storage_select_projection prints   *)
(* is the table it was asked for.                                          *)
(***************************************************************************)
EXTENDS RowProofs

----------------------------------------------------------------------------
(***************************************************************************)
(* The rows and headers storage_append_row writes.                         *)
(***************************************************************************)
\* The values of an accepted statement in schema order.
LEMMA ValuesToStore ==
  ASSUME NEW st \in Inserts, NEW s, Len(s) \in Nat, Len(s) > 1, MapsToSchema(s, st)
  PROVE  OrderedValues(s, st) \in Seq(ByteValue)
<1>1. st.cols \in Seq(Text) /\ st.vals \in Seq(ByteValue)
  BY StatementsAssumption
<1>2. CASE st.cols = <<>>
  BY <1>1, <1>2 DEF OrderedValues
<1>3. CASE st.cols # <<>>
  <2>1. /\ Len(st.cols) = Len(Names(s)) /\ Len(st.vals) = Len(Names(s))
        /\ ColumnSet(st.cols) = ColumnSet(Names(s))
    BY <1>3 DEF MapsToSchema
  <2>2. DOMAIN Names(s) = 1 .. (Len(s) - 1) /\ DOMAIN st.cols = DOMAIN st.vals
    BY <1>1, <2>1 DEF Names
  <2>3. ASSUME NEW k \in DOMAIN Names(s)
        PROVE  st.vals[CHOOSE i \in DOMAIN st.vals : st.cols[i] = Names(s)[k]] \in ByteValue
    <3>1. Names(s)[k] \in ColumnSet(st.cols)
      BY <2>1 DEF ColumnSet
    <3>2. \E i \in DOMAIN st.vals : st.cols[i] = Names(s)[k]
      BY <2>2, <3>1 DEF ColumnSet
    <3>3. (CHOOSE i \in DOMAIN st.vals : st.cols[i] = Names(s)[k]) \in DOMAIN st.vals
      BY <3>2
    <3> QED
      BY <1>1, <3>3, ElementOfSeq, LenProperties
  <2>4. OrderedValues(s, st) \in [1 .. (Len(s) - 1) -> ByteValue]
    BY <1>3, <2>2, <2>3 DEF OrderedValues
  <2> QED
    BY <2>4, FunctionIsSeq
<1> QED
  BY <1>2, <1>3

FileOrNone == Bytes \cup {NoFile}

\* append_row_to_file writes text, and no row on the line of another.
LEMMA RowBytesType ==
  ASSUME schema \in FileOrNone, csv \in Bytes, stmt \in Inserts, ListAccepted(SchemaNow)
  PROVE  /\ RowBytes(RowToStore(SchemaNow, stmt)) \in Bytes
         /\ \A part \in Prefixes(RowBytes(RowToStore(SchemaNow, stmt))) :
              part \in Bytes /\ (csv = <<>> \/ part = <<>> \/ Follows(csv, part))
<1> DEFINE vals == RowToStore(SchemaNow, stmt)
           cells == [i \in DOMAIN vals |-> WriteValue(vals[i], LongMax)]
           row == RowBytes(vals)
<1>1. vals \in Seq(ByteValue)
  <2>1. CASE SchemaAbsent(SchemaNow)
    BY <2>1, StatementsAssumption DEF RowToStore
  <2>2. CASE ~SchemaAbsent(SchemaNow)
    <3>1. SchemaValid(SchemaNow) /\ MapsToSchema(SchemaNow, stmt)
      BY <2>2 DEF ListAccepted
    <3>2. schema \in Bytes
      BY <2>2 DEF SchemaAbsent, SchemaNow, Table, FileOrNone
    <3>3. Len(SchemaNow) \in Nat /\ Len(SchemaNow) > 1
      BY <3>1, <3>2, RowsType DEF SchemaValid, SchemaNow
    <3>4. OrderedValues(SchemaNow, stmt) \in Seq(ByteValue)
      BY <3>1, <3>3, ValuesToStore
    <3> QED
      BY <2>2, <3>4 DEF RowToStore
  <2> QED
    BY <2>1, <2>2
<1> HIDE DEF vals
<1>2. Len(vals) \in Nat /\ DOMAIN vals = 1 .. Len(vals) /\ \A i \in 1 .. Len(vals) : vals[i] \in ByteValue
  BY <1>1
<1>3. cells \in Seq(Bytes)
  <2>1. cells \in [1 .. Len(vals) -> Bytes]
    BY <1>2, WriteValueType
  <2> QED
    BY <1>2, <2>1, FunctionIsSeq
<1> HIDE DEF cells
<1>4. Line(cells) \in Bytes
  BY <1>3, LineType
<1>5. LF \in Char /\ LF \in LineEnds /\ <<LF>> \in Bytes /\ <<>> \in Bytes
  BY SymbolsAssumption DEF LineEnds, Bytes
<1>6. NewlineIfNeeded(csv) \in Bytes
  BY <1>5 DEF NewlineIfNeeded
<1>7. row = NewlineIfNeeded(csv) \o Line(cells)
  BY DEF RowBytes, cells
<1>8. row \in Bytes
  BY <1>4, <1>6, <1>7, ConcatProperties DEF Bytes
<1>9. csv # <<>> /\ csv[Len(csv)] \notin LineEnds => row # <<>> /\ row[1] = LF
  <2>1. ASSUME csv # <<>>, csv[Len(csv)] \notin LineEnds
        PROVE  row # <<>> /\ row[1] = LF
    <3>1. row = <<LF>> \o Line(cells)
      BY <1>7, <2>1 DEF NewlineIfNeeded
    <3> HIDE DEF row
    <3> QED
      BY <1>4, <1>5, <3>1 DEF Bytes
  <2> QED
    BY <2>1
<1> HIDE DEF row
<1>10. ASSUME NEW part \in Prefixes(row)
       PROVE  part \in Bytes /\ (csv = <<>> \/ part = <<>> \/ Follows(csv, part))
  <2>1. PICK l \in 0 .. Len(row) : part = SubSeq(row, 1, l)
    BY DEF Prefixes
  <2>2. /\ Len(row) \in Nat /\ 1 \in Int /\ l \in Int
        /\ \A i \in 1 .. l : row[i] \in Char
    BY <1>8, <2>1 DEF Bytes
  <2>3. part \in Bytes /\ Len(part) = l /\ \A i \in 1 .. l : part[i] = row[i]
    <3>1. /\ SubSeq(row, 1, l) \in Seq(Char)
          /\ Len(SubSeq(row, 1, l)) = IF 1 <= l THEN l - 1 + 1 ELSE 0
          /\ \A i \in 1 .. (l - 1 + 1) : SubSeq(row, 1, l)[i] = row[1 + i - 1]
      BY <2>2, SubSeqProperties
    <3> QED
      BY <2>1, <3>1 DEF Bytes
  <2>4. CASE l = 0
    BY <2>3, <2>4, EmptySeq DEF Bytes
  <2>5. CASE l # 0
    <3>1. part[1] = row[1]
      BY <2>1, <2>3, <2>5
    <3> QED
      BY <1>5, <1>9, <2>3, <3>1 DEF Follows
  <2> QED
    BY <2>4, <2>5
<1> QED
  BY <1>8, <1>10 DEF row, vals

\* create_csv_from_schema writes text.
LEMMA HeaderBytesType ==
  ASSUME schema \in FileOrNone, ListAccepted(SchemaNow), stmt.cols # <<>>
  PROVE  Line(SchemaNames) \in Bytes
<1>1. ~SchemaAbsent(SchemaNow) /\ SchemaValid(SchemaNow)
  BY DEF ListAccepted
<1>2. schema \in Bytes
  BY <1>1 DEF SchemaAbsent, SchemaNow, Table, FileOrNone
<1>3. /\ Rows(schema) \in Seq(Seq(Bytes)) /\ Len(Rows(schema)) = Len(SchemaNow)
      /\ Len(SchemaNow) \in Nat /\ Len(SchemaNow) > 1
      /\ \A k \in 1 .. Len(SchemaNow) : Len(SchemaNow[k]) = Len(Rows(schema)[k])
  BY <1>1, <1>2, RowsType DEF SchemaNow, SchemaValid
<1>4. ASSUME NEW k \in 1 .. (Len(Rows(schema)) - 1)
      PROVE  Rows(schema)[k + 1][1] \in Bytes
  <2>1. k + 1 \in 2 .. Len(SchemaNow) /\ k + 1 \in 1 .. Len(SchemaNow)
    BY <1>3
  <2>2. Len(SchemaNow[k + 1]) = 2
    BY <1>1, <2>1 DEF SchemaValid, BadRows, RowShapeOK
  <2>3. Rows(schema)[k + 1] \in Seq(Bytes) /\ Len(Rows(schema)[k + 1]) = 2
    BY <1>3, <2>1, <2>2
  <2> QED
    BY <2>3, ElementOfSeq
<1>5. SchemaNames \in [1 .. (Len(Rows(schema)) - 1) -> Bytes] /\ Len(Rows(schema)) - 1 \in Nat
  BY <1>3, <1>4 DEF SchemaNames
<1> QED
  BY <1>5, FunctionIsSeq, LineType

----------------------------------------------------------------------------
(***************************************************************************)
(* The inductive invariant.                                                *)
(***************************************************************************)
FilesAreBytes == schema \in FileOrNone /\ csv \in FileOrNone /\ before \in FileOrNone

\* What LoadSchema has checked stays so: the schema does not change.
Checked ==
  /\ at \notin {"idle", "died"} => stmt \in Inserts
  /\ at \in {"exists", "create", "header", "reopen", "append"} => ListAccepted(SchemaNow)
  /\ at = "create" => stmt.cols # <<>>

\* Up to the row's first byte the file is the one found or the one created.
CreatedInStep ==
  /\ IsFiniteSet(met)
  /\ created => before = NoFile /\ "create" \notin met
  /\ at \in {"schema", "exists", "create"} => csv = before /\ ~created /\ met = {}
  /\ at = "create" => csv = NoFile
  /\ at \in {"header", "reopen", "append"} => created \/ csv = before
  /\ at = "cleanup" => created /\ result = "failed"

\* A file g that is f, grown by what may follow it.
GrownFrom(f, g) ==
  \E part \in Bytes : g = f \o part /\ (f = <<>> \/ part = <<>> \/ Follows(f, part))

FailureLeaves ==
  InsertReturned /\ result = "failed" /\ before # NoFile => csv # NoFile /\ GrownFrom(before, csv)

AppendInv ==
  /\ TypeOK
  /\ FilesAreBytes
  /\ Checked
  /\ CreatedInStep
  /\ FailureLeaves
  /\ CreatedTableIsRemoved

\* The operations that fail are counted.
LEMMA FaultsCounted ==
  ASSUME AppendInv, Works \/ \E pt \in FaultNames : Fails(pt)
  PROVE  /\ met' \subseteq FaultPoints /\ IsFiniteSet(met')
         /\ faults' \in 0 .. MaxFaults /\ Cardinality(met') <= faults'
<1>1. /\ met \subseteq FaultPoints /\ IsFiniteSet(met) /\ faults \in 0 .. MaxFaults
      /\ Cardinality(met) <= faults /\ MaxFaults \in Nat
  BY BoundsAssumption DEF AppendInv, TypeOK, CreatedInStep
<1>2. CASE Works
  BY <1>1, <1>2 DEF Works
<1>3. ASSUME NEW pt \in FaultNames, Fails(pt)
      PROVE  /\ met' \subseteq FaultPoints /\ IsFiniteSet(met')
             /\ faults' \in 0 .. MaxFaults /\ Cardinality(met') <= faults'
  <2>1. /\ pt \in FaultPoints /\ faults < MaxFaults /\ faults' = faults + 1
        /\ met' = met \cup {pt}
    BY <1>3 DEF Fails
  <2>2. /\ IsFiniteSet(met \cup {pt}) /\ Cardinality(met) \in Nat
        /\ Cardinality(met \cup {pt}) <= Cardinality(met) + 1
    <3>1. /\ IsFiniteSet(met \cup {pt}) /\ Cardinality(met) \in Nat
          /\ Cardinality(met \cup {pt}) = IF pt \in met THEN Cardinality(met) ELSE Cardinality(met) + 1
      BY <1>1, FS_AddElement, FS_CardinalityType
    <3> QED
      BY <3>1
  <2>3. Cardinality(met') <= Cardinality(met) + 1
    BY <2>1, <2>2
  <2>4. met' \subseteq FaultPoints /\ IsFiniteSet(met')
    BY <1>1, <2>1, <2>2
  <2>5. Cardinality(met') \in Nat
    BY <2>4, FS_CardinalityType
  <2> QED
    BY <1>1, <2>1, <2>2, <2>3, <2>4, <2>5
<1> QED
  BY <1>2, <1>3

LEMMA AppendInit == Init => AppendInv
<1> SUFFICES ASSUME Init PROVE AppendInv
  OBVIOUS
<1>1. PICK files0 \in Tables0 : schema = files0.schema /\ csv = files0.csv
  BY DEF Init
<1>2. /\ at = "idle" /\ stmt = NoStmt /\ created = FALSE /\ result = "none"
      /\ before = csv /\ met = {} /\ faults = 0 /\ calls = 0
  BY DEF Init
<1>3. FilesAreBytes
  BY <1>1, <1>2, FilesAssumption DEF FilesAreBytes, FileOrNone
<1>4. Cardinality({}) = 0 /\ IsFiniteSet({})
  BY FS_EmptySet
<1>5. TypeOK
  <2>1. faults \in 0 .. MaxFaults /\ calls \in 0 .. MaxCalls /\ Cardinality(met) <= faults
    BY <1>2, <1>4, BoundsAssumption
  <2>2. /\ at \in Labels /\ created \in BOOLEAN /\ result \in {"none", "ok", "failed"}
        /\ stmt \in Inserts \cup Selects \cup {NoStmt} /\ met \subseteq FaultPoints
    BY <1>2 DEF Labels
  <2> QED
    BY <1>2, <2>1, <2>2 DEF TypeOK
<1>6. ~InsertReturned
  BY <1>2 DEF InsertReturned, Returned
<1> QED
  BY <1>2, <1>3, <1>4, <1>5, <1>6
     DEF AppendInv, Checked, CreatedInStep, FailureLeaves, CreatedTableIsRemoved

\* A call begins.
LEMMA BeginSound ==
  ASSUME AppendInv, NEW s \in Inserts \cup Selects, Begin(s)
  PROVE  /\ FilesAreBytes' /\ faults' \in 0 .. MaxFaults /\ calls' \in 0 .. MaxCalls
         /\ met' = {} /\ IsFiniteSet(met') /\ Cardinality(met') <= faults'
         /\ stmt' = s /\ before' = csv /\ csv' = csv /\ schema' = schema /\ created' = FALSE
<1>1. /\ calls < MaxCalls /\ calls' = calls + 1 /\ stmt' = s /\ before' = csv
      /\ created' = FALSE /\ met' = {} /\ schema' = schema /\ csv' = csv /\ faults' = faults
  BY DEF Begin, files
<1>2. faults \in 0 .. MaxFaults /\ calls \in 0 .. MaxCalls
  BY DEF AppendInv, TypeOK
<1>3. calls' \in 0 .. MaxCalls
  BY <1>1, <1>2, BoundsAssumption
<1>4. Cardinality({}) = 0 /\ IsFiniteSet({})
  BY FS_EmptySet
<1>5. FilesAreBytes'
  BY <1>1 DEF AppendInv, FilesAreBytes
<1> QED
  BY <1>1, <1>2, <1>3, <1>4, <1>5, BoundsAssumption

LEMMA AppendCallSound ==
  ASSUME AppendInv, AppendCall
  PROVE  AppendInv'
<1>1. PICK s \in Inserts : Begin(s)
  BY DEF AppendCall
<1>2. at' = "schema" /\ result' = "none"
  BY DEF AppendCall
<1>3. /\ FilesAreBytes' /\ faults' \in 0 .. MaxFaults /\ calls' \in 0 .. MaxCalls
      /\ met' = {} /\ IsFiniteSet(met') /\ Cardinality(met') <= faults'
      /\ stmt' = s /\ before' = csv /\ csv' = csv /\ created' = FALSE
  BY <1>1, BeginSound
<1>4. TypeOK'
  BY <1>2, <1>3 DEF TypeOK, Labels
<1>5. ~InsertReturned'
  BY <1>2 DEF InsertReturned, Returned
<1> QED
  BY <1>2, <1>3, <1>4, <1>5
     DEF AppendInv, Checked, CreatedInStep, FailureLeaves, CreatedTableIsRemoved

LEMMA SelectCallSound ==
  ASSUME AppendInv, SelectCall
  PROVE  AppendInv'
<1>1. PICK st \in Selects : Begin(st)
  BY DEF SelectCall
<1>2. at' \in {"idle", "died"} /\ result' \in {"none", "ok", "failed"}
  BY DEF SelectCall
<1>3. /\ FilesAreBytes' /\ faults' \in 0 .. MaxFaults /\ calls' \in 0 .. MaxCalls
      /\ met' = {} /\ IsFiniteSet(met') /\ Cardinality(met') <= faults'
      /\ stmt' = st /\ before' = csv /\ csv' = csv /\ created' = FALSE
  BY <1>1, BeginSound
<1>4. TypeOK'
  BY <1>2, <1>3 DEF TypeOK, Labels
<1>5. ~InsertReturned'
  BY <1>3, StatementsAssumption DEF InsertReturned, Returned
<1> QED
  BY <1>2, <1>3, <1>4, <1>5
     DEF AppendInv, Checked, CreatedInStep, FailureLeaves, CreatedTableIsRemoved

\* Nothing grows into what it was.
LEMMA GrownByNothing ==
  ASSUME NEW f \in FileOrNone, f # NoFile
  PROVE  GrownFrom(f, f)
<1>1. <<>> \in Bytes /\ f = f \o <<>>
  BY ConcatEmptySeq DEF Bytes, FileOrNone
<1> QED
  BY <1>1 DEF GrownFrom

\* A call that returns before it has written anything.
LEMMA RefusalSound ==
  ASSUME AppendInv, at \in {"schema", "exists", "header", "reopen"},
         Works \/ \E pt \in FaultNames \ {"create"} : Fails(pt), Return,
         UNCHANGED <<files, created, call>>
  PROVE  AppendInv'
<1>1. /\ result' = "failed" /\ at' = (IF created THEN "cleanup" ELSE "idle")
      /\ schema' = schema /\ csv' = csv /\ created' = created
      /\ stmt' = stmt /\ before' = before /\ calls' = calls
  BY DEF Return, files, call
<1>2. /\ met' \subseteq FaultPoints /\ IsFiniteSet(met')
      /\ faults' \in 0 .. MaxFaults /\ Cardinality(met') <= faults'
  BY FaultsCounted
<1>3. /\ TypeOK /\ FilesAreBytes /\ Checked /\ CreatedInStep /\ stmt \in Inserts
  BY DEF AppendInv, Checked
<1>4. created \in BOOLEAN /\ at' \in {"idle", "cleanup"}
  BY <1>1, <1>3 DEF TypeOK
<1>5. TypeOK'
  BY <1>1, <1>2, <1>3, <1>4 DEF TypeOK, Labels
<1>6. FilesAreBytes'
  BY <1>1, <1>3 DEF FilesAreBytes
<1>7. Checked'
  BY <1>1, <1>3, <1>4 DEF Checked
<1>8. CreatedInStep'
  <2>1. created => "create" \notin met'
    BY <1>3 DEF CreatedInStep, Works, Fails
  <2>2. at' = "cleanup" => created
    BY <1>1
  <2> QED
    BY <1>1, <1>2, <1>3, <1>4, <2>1, <2>2 DEF CreatedInStep
<1>9. at' = "idle" => csv = before
  BY <1>1, <1>3 DEF CreatedInStep
<1>10. FailureLeaves'
  BY <1>1, <1>3, <1>9, GrownByNothing DEF FailureLeaves, FilesAreBytes, InsertReturned, Returned
<1>11. CreatedTableIsRemoved'
  BY <1>1, <1>9 DEF CreatedTableIsRemoved, InsertReturned, Returned
<1> QED
  BY <1>5, <1>6, <1>7, <1>8, <1>10, <1>11 DEF AppendInv

\* A call that goes on, with the files as they are.
LEMMA GoingOnSound ==
  ASSUME AppendInv, at \notin {"idle", "died"}, Works, UNCHANGED result,
         UNCHANGED <<files, created, call>>,
         \/ at = "schema" /\ at' = "exists" /\ ListAccepted(SchemaNow)
         \/ at = "schema" /\ at' = "died"
         \/ at = "exists" /\ at' = "header" /\ csv # NoFile
         \/ at = "exists" /\ at' = "create" /\ csv = NoFile /\ stmt.cols # <<>>
         \/ at = "header" /\ at' = "reopen"
         \/ at = "reopen" /\ at' = "append"
  PROVE  AppendInv'
<1>1. /\ result' = result /\ met' = met /\ faults' = faults
      /\ schema' = schema /\ csv' = csv /\ created' = created
      /\ stmt' = stmt /\ before' = before /\ calls' = calls
  BY DEF Works, files, call
<1>2. /\ TypeOK /\ FilesAreBytes /\ Checked /\ CreatedInStep /\ stmt \in Inserts
  BY DEF AppendInv, Checked
<1>3. SchemaNow' = SchemaNow /\ ListAccepted(SchemaNow)' = ListAccepted(SchemaNow)
  BY <1>1 DEF SchemaNow, Table, ListAccepted
<1>4. TypeOK'
  BY <1>1, <1>2 DEF TypeOK, Labels
<1>5. FilesAreBytes'
  BY <1>1, <1>2 DEF FilesAreBytes
<1>6. Checked'
  BY <1>1, <1>2, <1>3 DEF Checked
<1>7. CreatedInStep'
  BY <1>1, <1>2 DEF CreatedInStep
<1>8. ~InsertReturned'
  BY DEF InsertReturned, Returned
<1> QED
  BY <1>4, <1>5, <1>6, <1>7, <1>8 DEF AppendInv, FailureLeaves, CreatedTableIsRemoved

LEMMA LoadSchemaSound ==
  ASSUME AppendInv, LoadSchema
  PROVE  AppendInv'
<1>1. at = "schema" /\ UNCHANGED <<files, created, call>>
  BY DEF LoadSchema
<1>2. CASE Works /\ ListAccepted(SchemaNow) /\ at' = "exists" /\ UNCHANGED result
  BY <1>1, <1>2, GoingOnSound
<1>3. CASE Works /\ Return
  BY <1>1, <1>3, RefusalSound
<1>4. CASE Works /\ at' = "died" /\ UNCHANGED result
  BY <1>1, <1>4, GoingOnSound
<1>5. CASE Fails("schema") /\ Return
  <2>1. "schema" \in FaultNames \ {"create"}
    BY DEF FaultNames
  <2> QED
    BY <1>1, <1>5, <2>1, RefusalSound
<1> QED
  BY <1>2, <1>3, <1>4, <1>5 DEF LoadSchema

LEMMA CheckExistsSound ==
  ASSUME AppendInv, CheckExists
  PROVE  AppendInv'
<1>1. at = "exists" /\ Works /\ UNCHANGED <<files, created, call>>
  BY DEF CheckExists
<1>2. CASE csv # NoFile /\ at' = "header" /\ UNCHANGED result
  BY <1>1, <1>2, GoingOnSound
<1>3. CASE csv = NoFile /\ stmt.cols # <<>> /\ at' = "create" /\ UNCHANGED result
  BY <1>1, <1>3, GoingOnSound
<1>4. CASE Return
  BY <1>1, <1>4, RefusalSound
<1> QED
  BY <1>2, <1>3, <1>4 DEF CheckExists

LEMMA CheckHeaderSound ==
  ASSUME AppendInv, CheckHeader
  PROVE  AppendInv'
<1>1. at = "header" /\ UNCHANGED <<files, created, call>>
  BY DEF CheckHeader
<1>2. CASE Works /\ at' = "reopen" /\ UNCHANGED result
  BY <1>1, <1>2, GoingOnSound
<1>3. CASE Works /\ Return
  BY <1>1, <1>3, RefusalSound
<1>4. CASE Fails("header") /\ Return
  <2>1. "header" \in FaultNames \ {"create"}
    BY DEF FaultNames
  <2> QED
    BY <1>1, <1>4, <2>1, RefusalSound
<1> QED
  BY <1>2, <1>3, <1>4 DEF CheckHeader

LEMMA ReopenSound ==
  ASSUME AppendInv, Reopen
  PROVE  AppendInv'
<1>1. at = "reopen" /\ UNCHANGED <<files, created, call>>
  BY DEF Reopen
<1>2. CASE Works /\ at' = "append" /\ UNCHANGED result
  BY <1>1, <1>2, GoingOnSound
<1>3. CASE Fails("reopen") /\ Return
  <2>1. "reopen" \in FaultNames \ {"create"}
    BY DEF FaultNames
  <2> QED
    BY <1>1, <1>3, <2>1, RefusalSound
<1> QED
  BY <1>2, <1>3 DEF Reopen

\* A prefix of a text is one.
LEMMA PrefixType ==
  ASSUME NEW row \in Bytes, NEW part \in Prefixes(row)
  PROVE  part \in Bytes
<1>1. PICK l \in 0 .. Len(row) : part = SubSeq(row, 1, l)
  BY DEF Prefixes
<1>2. 1 \in Int /\ l \in Int /\ \A i \in 1 .. l : row[i] \in Char
  BY <1>1 DEF Bytes
<1> QED
  BY <1>1, <1>2, SubSeqProperties DEF Bytes

LEMMA CreateCsvSound ==
  ASSUME AppendInv, CreateCsv
  PROVE  AppendInv'
<1>1. /\ at = "create" /\ schema' = schema
      /\ stmt' = stmt /\ before' = before /\ calls' = calls
  BY DEF CreateCsv, call
<1>2. /\ TypeOK /\ FilesAreBytes /\ Checked /\ CreatedInStep /\ stmt \in Inserts
  BY <1>1 DEF AppendInv, Checked
<1>3. /\ csv = NoFile /\ before = NoFile /\ created = FALSE /\ ListAccepted(SchemaNow)
      /\ Line(SchemaNames) \in Bytes
  <2>1. stmt.cols # <<>> /\ ListAccepted(SchemaNow) /\ schema \in FileOrNone
    BY <1>1, <1>2 DEF Checked, FilesAreBytes
  <2>2. created \in BOOLEAN
    BY <1>2 DEF TypeOK
  <2> QED
    BY <1>1, <1>2, <2>1, <2>2, HeaderBytesType DEF CreatedInStep
<1>4. /\ met' \subseteq FaultPoints /\ IsFiniteSet(met')
      /\ faults' \in 0 .. MaxFaults /\ Cardinality(met') <= faults'
  <2>1. "create" \in FaultNames
    BY DEF FaultNames
  <2> QED
    BY <2>1, FaultsCounted DEF CreateCsv
<1>5. SchemaNow' = SchemaNow /\ ListAccepted(SchemaNow)' = ListAccepted(SchemaNow)
  BY <1>1 DEF SchemaNow, Table, ListAccepted
<1>6. CASE /\ Works /\ csv' = Line(SchemaNames) /\ created' = TRUE
           /\ at' = "header" /\ UNCHANGED result
  <2>1. csv' # NoFile /\ csv' \in FileOrNone
    BY <1>3, <1>6, FilesAssumption DEF FileOrNone
  <2>2. TypeOK'
    BY <1>1, <1>2, <1>4, <1>6, <2>1 DEF TypeOK, Labels
  <2>3. FilesAreBytes'
    BY <1>1, <1>2, <2>1 DEF FilesAreBytes
  <2>4. Checked'
    BY <1>1, <1>2, <1>3, <1>5, <1>6 DEF Checked
  <2>5. "create" \notin met'
    BY <1>1, <1>2, <1>6 DEF CreatedInStep, Works
  <2>6. CreatedInStep'
    BY <1>1, <1>3, <1>4, <1>6, <2>5 DEF CreatedInStep
  <2>7. ~InsertReturned'
    BY <1>6 DEF InsertReturned, Returned
  <2> QED
    BY <2>2, <2>3, <2>4, <2>6, <2>7 DEF AppendInv, FailureLeaves, CreatedTableIsRemoved
<1>7. CASE /\ Fails("create") /\ csv' \in Prefixes(Line(SchemaNames)) \cup {NoFile}
           /\ UNCHANGED created /\ Return
  <2>1. csv' \in FileOrNone
    BY <1>3, <1>7, PrefixType DEF FileOrNone
  <2>2. at' = "idle" /\ result' = "failed" /\ created' = FALSE /\ "create" \in met'
    BY <1>3, <1>7 DEF Return, Fails
  <2>3. TypeOK'
    BY <1>1, <1>2, <1>4, <2>2 DEF TypeOK, Labels
  <2>4. FilesAreBytes'
    BY <1>1, <1>2, <2>1 DEF FilesAreBytes
  <2>5. Checked' /\ CreatedInStep'
    BY <1>4, <2>2 DEF Checked, CreatedInStep
  <2>6. FailureLeaves' /\ CreatedTableIsRemoved'
    BY <1>1, <1>3, <2>2 DEF FailureLeaves, CreatedTableIsRemoved
  <2> QED
    BY <2>3, <2>4, <2>5, <2>6 DEF AppendInv
<1> QED
  BY <1>6, <1>7 DEF CreateCsv

LEMMA AppendBytesSound ==
  ASSUME AppendInv, AppendBytes
  PROVE  AppendInv'
<1>1. /\ at = "append" /\ schema' = schema /\ created' = created
      /\ stmt' = stmt /\ before' = before /\ calls' = calls
  BY DEF AppendBytes, call
<1>2. /\ TypeOK /\ FilesAreBytes /\ Checked /\ CreatedInStep /\ stmt \in Inserts
  BY <1>1 DEF AppendInv, Checked
<1> DEFINE row == RowBytes(RowToStore(SchemaNow, stmt))
<1>3. /\ csv \in Bytes /\ row \in Bytes
      /\ \A part \in Prefixes(row) : part \in Bytes /\ (csv = <<>> \/ part = <<>> \/ Follows(csv, part))
  <2>1. schema \in FileOrNone /\ csv \in Bytes /\ ListAccepted(SchemaNow)
    BY <1>1, <1>2 DEF Checked, FilesAreBytes, FileOrNone, TypeOK
  <2> QED
    BY <1>2, <2>1, RowBytesType
<1>4. \/ Works /\ csv' = csv \o row /\ result' = "ok" /\ at' = "idle"
      \/ Fails("append") /\ (\E part \in Prefixes(row) : csv' = csv \o part) /\ Return
  BY DEF AppendBytes
<1> HIDE DEF row
<1>5. /\ met' \subseteq FaultPoints /\ IsFiniteSet(met')
      /\ faults' \in 0 .. MaxFaults /\ Cardinality(met') <= faults'
  <2>1. "append" \in FaultNames
    BY DEF FaultNames
  <2> QED
    BY <1>4, <2>1, FaultsCounted
<1>6. csv' \in Bytes /\ csv' # NoFile
  <2>1. csv' \in Bytes
    BY <1>3, <1>4, ConcatProperties DEF Bytes
  <2> QED
    BY <2>1, FilesAssumption
<1>7. FilesAreBytes'
  BY <1>1, <1>2, <1>6 DEF FilesAreBytes, FileOrNone
<1>8. created \in BOOLEAN /\ created' \in BOOLEAN
  BY <1>1, <1>2 DEF TypeOK
<1>9. CASE Works /\ csv' = csv \o row /\ result' = "ok" /\ at' = "idle"
  <2>1. TypeOK'
    BY <1>1, <1>2, <1>5, <1>9 DEF TypeOK, Labels
  <2>2. Checked'
    BY <1>9 DEF Checked
  <2>3. CreatedInStep'
    BY <1>1, <1>2, <1>5, <1>9 DEF CreatedInStep, Works
  <2>4. FailureLeaves' /\ CreatedTableIsRemoved'
    BY <1>9 DEF FailureLeaves, CreatedTableIsRemoved
  <2> QED
    BY <1>7, <2>1, <2>2, <2>3, <2>4 DEF AppendInv
<1>10. CASE Fails("append") /\ (\E part \in Prefixes(row) : csv' = csv \o part) /\ Return
  <2>1. result' = "failed" /\ at' = (IF created THEN "cleanup" ELSE "idle")
    BY <1>10 DEF Return
  <2>2. TypeOK'
    BY <1>1, <1>2, <1>5, <1>6, <2>1 DEF TypeOK, Labels
  <2>3. Checked'
    BY <1>1, <1>2, <2>1 DEF Checked
  <2>4. CreatedInStep'
    <3>1. created => "create" \notin met'
      BY <1>2, <1>10 DEF CreatedInStep, Fails
    <3> QED
      BY <1>1, <1>2, <1>5, <2>1, <3>1 DEF CreatedInStep
  <2>5. FailureLeaves'
    <3>1. CASE created
      BY <1>1, <1>2, <2>1, <3>1 DEF FailureLeaves, CreatedInStep
    <3>2. CASE ~created
      <4>1. csv = before
        BY <1>1, <1>2, <3>2 DEF CreatedInStep
      <4>2. PICK part \in Prefixes(row) : csv' = csv \o part
        BY <1>10
      <4>3. GrownFrom(before', csv')
        BY <1>1, <1>3, <4>1, <4>2 DEF GrownFrom
      <4> QED
        BY <1>6, <4>3 DEF FailureLeaves
    <3> QED
      BY <3>1, <3>2
  <2>6. CreatedTableIsRemoved'
    <3>1. CASE created
      BY <2>1, <3>1 DEF CreatedTableIsRemoved, InsertReturned, Returned
    <3>2. CASE ~created
      <4>1. csv = before /\ csv # NoFile
        BY <1>1, <1>2, <3>2 DEF CreatedInStep, TypeOK
      <4> QED
        BY <1>1, <4>1 DEF CreatedTableIsRemoved
    <3> QED
      BY <3>1, <3>2
  <2> QED
    BY <1>7, <2>2, <2>3, <2>4, <2>5, <2>6 DEF AppendInv
<1> QED
  BY <1>4, <1>9, <1>10

LEMMA CleanupCreatedSound ==
  ASSUME AppendInv, CleanupCreated
  PROVE  AppendInv'
<1>1. /\ at = "cleanup" /\ at' = "idle" /\ schema' = schema /\ created' = created
      /\ result' = result /\ stmt' = stmt /\ before' = before /\ calls' = calls
      /\ \/ Works /\ csv' = NoFile
         \/ Fails("remove") /\ csv' = csv
  BY DEF CleanupCreated, call
<1>2. /\ TypeOK /\ FilesAreBytes /\ Checked /\ CreatedInStep /\ stmt \in Inserts
  BY <1>1 DEF AppendInv, Checked
<1>3. created /\ before = NoFile
  BY <1>1, <1>2 DEF CreatedInStep
<1>4. /\ met' \subseteq FaultPoints /\ IsFiniteSet(met')
      /\ faults' \in 0 .. MaxFaults /\ Cardinality(met') <= faults'
  <2>1. "remove" \in FaultNames
    BY DEF FaultNames
  <2> QED
    BY <1>1, <2>1, FaultsCounted
<1>5. TypeOK'
  BY <1>1, <1>2, <1>4 DEF TypeOK, Labels
<1>6. FilesAreBytes'
  BY <1>1, <1>2 DEF FilesAreBytes, FileOrNone
<1>7. Checked'
  BY <1>1 DEF Checked
<1>8. CreatedInStep'
  BY <1>1, <1>2, <1>3, <1>4 DEF CreatedInStep, Works, Fails
<1>9. FailureLeaves'
  BY <1>1, <1>3 DEF FailureLeaves
<1>10. CreatedTableIsRemoved'
  BY <1>1 DEF CreatedTableIsRemoved, Fails
<1> QED
  BY <1>5, <1>6, <1>7, <1>8, <1>9, <1>10 DEF AppendInv

LEMMA IdleSound ==
  ASSUME AppendInv, UNCHANGED vars
  PROVE  AppendInv'
BY DEF AppendInv, vars, TypeOK, FilesAreBytes, Checked, CreatedInStep, FailureLeaves,
       CreatedTableIsRemoved, InsertReturned, Returned, SchemaNow, Table, ListAccepted

LEMMA AppendSound == Spec => []AppendInv
<1>1. AppendInv /\ [Next]_vars => AppendInv'
  <2> SUFFICES ASSUME AppendInv, [Next]_vars PROVE AppendInv'
    OBVIOUS
  <2> QED
    BY AppendCallSound, LoadSchemaSound, CheckExistsSound, CreateCsvSound, CheckHeaderSound,
       ReopenSound, AppendBytesSound, CleanupCreatedSound, SelectCallSound, IdleSound
       DEF Next, Done
<1> QED
  BY <1>1, AppendInit, PTL DEF Spec

----------------------------------------------------------------------------
(***************************************************************************)
(* The cells of the row an INSERT stores.                                  *)
(***************************************************************************)
\* The smallest integer too is a sign and digits, which CSV need not quote.
LEMMA IntegerCell ==
  ASSUME NEW v \in (-LongMax - 1) .. LongMax
  PROVE  /\ WriteInteger(v, LongMax) \in Bytes
         /\ Cell(WriteInteger(v, LongMax), WriteInteger(v, LongMax))
         /\ Visible(WriteInteger(v, LongMax))
         /\ StripBom(WriteInteger(v, LongMax)) = WriteInteger(v, LongMax)
<1> DEFINE m == Magnitude(v, LongMax)
           digits == Digits(m)
           sign == IF v < 0 THEN <<"-">> ELSE <<>>
           w == sign \o digits
           D == DigitChar \cup {"-"}
<1>1. m \in Nat
  <2>1. \A k \in Nat : k % (2 * LongMax + 2) \in Nat
    BY LongMaxAssumption
  <2> QED
    BY <2>1, LongMaxAssumption DEF Magnitude
<1>2. digits \in Seq(DigitChar) /\ digits # <<>>
  BY <1>1, DigitsType DEF Numeral
<1>3. digits \in Seq(D) /\ sign \in Seq(D) /\ digits # <<>>
  <2>1. <<"-">> \in Seq(D) /\ <<>> \in Seq(D)
    BY SmallSeqs
  <2> HIDE DEF digits, m
  <2>2. digits \in Seq(D)
    BY <1>2
  <2> QED
    BY <1>2, <2>1, <2>2
<1> HIDE DEF digits, sign, m
<1>4. D \cap {Quote, Comma, LF, CR, Bom} = {} /\ D \subseteq Char
  <2>1. DigitChar \cap {Quote, Comma, LF, CR, Bom} = {}
    BY Marks DEF DigitChar
  <2>2. DigitChar \subseteq Char /\ "-" \in Char
    BY SymbolsAssumption DEF DigitChar
  <2> QED
    BY <2>1, <2>2, Marks
<1> HIDE DEF D
<1>5. w \in Seq(D) /\ w # <<>>
  <2>1. w \in Seq(D) /\ Len(w) = Len(sign) + Len(digits)
    BY <1>3, ConcatProperties
  <2>2. Len(digits) \in Nat \ {0} /\ Len(sign) \in Nat
    BY <1>3, EmptySeq
  <2> HIDE DEF w
  <2> QED
    BY <2>1, <2>2
<1>6. w = WriteInteger(v, LongMax)
  BY DEF WriteInteger, sign, digits, m
<1> HIDE DEF w
<1>7. \A k \in 1 .. Len(w) : w[k] \in D
  BY <1>5
<1>8. w \in Bytes
  BY <1>4, <1>5 DEF Bytes
<1>9. IsPlain(w)
  BY <1>4, <1>7 DEF IsPlain
<1>10. w[1] # Bom
  <2>1. 1 \in 1 .. Len(w)
    BY <1>5, EmptySeq
  <2> QED
    BY <1>4, <1>7, <2>1
<1>11. Cell(w, w) /\ Visible(w)
  BY <1>5, <1>8, <1>9, PlainCell
<1> QED
  BY <1>6, <1>8, <1>10, <1>11 DEF StripBom

\* What write_csv_value writes and what it stands for.
ValueText(v) == IF v.type = "STRING" THEN v.text ELSE WriteInteger(v.int, LongMax)
ValueCell(v) == [w |-> WriteValue(v, LongMax), t |-> ValueText(v)]
ValueCells(vals) == [i \in DOMAIN vals |-> ValueCell(vals[i])]

LEMMA ValueIsCell ==
  ASSUME NEW v \in ByteValue
  PROVE  ValueCell(v) \in CellPair /\ Visible(ValueCell(v).w)
<1>1. CASE v.type = "STRING"
  <2>1. v.text \in Bytes
    BY <1>1 DEF ByteValue
  <2>2. Cell(WriteString(v.text), v.text) /\ Visible(WriteString(v.text))
    BY <2>1, QuotedCell
  <2>3. WriteString(v.text) \in Bytes
    BY <2>2 DEF Cell
  <2> QED
    BY <1>1, <2>1, <2>2, <2>3 DEF ValueCell, ValueText, WriteValue, CellPair
<1>2. CASE v.type # "STRING"
  <2>1. v.int \in (-LongMax - 1) .. LongMax
    BY <1>2 DEF ByteValue
  <2>2. /\ WriteInteger(v.int, LongMax) \in Bytes
        /\ Cell(WriteInteger(v.int, LongMax), WriteInteger(v.int, LongMax))
        /\ Visible(WriteInteger(v.int, LongMax))
    BY <2>1, IntegerCell
  <2> QED
    BY <1>2, <2>2 DEF ValueCell, ValueText, WriteValue, CellPair
<1> QED
  BY <1>1, <1>2

\* The row read back has the texts of the values, but for a leading mark.
LEMMA RowOfValues ==
  ASSUME NEW vals \in Seq(ByteValue), vals # <<>>, IntegersAreDecimal
  PROVE  LET cs == ValueCells(vals)
         IN  /\ cs \in Seq(CellPair) /\ cs # <<>> /\ Visible(cs[1].w)
             /\ Ws(cs) = [i \in DOMAIN vals |-> WriteValue(vals[i], LongMax)]
             /\ StrRow(Shown(Ts(cs))) = [i \in DOMAIN vals |-> StrValue(AsRead(vals)[i]).text]
<1> DEFINE cs == ValueCells(vals)
           n == Len(vals)
<1>1. n \in Nat \ {0} /\ DOMAIN vals = 1 .. n /\ \A i \in 1 .. n : vals[i] \in ByteValue
  BY EmptySeq
<1> HIDE DEF n
<1>2. cs \in [1 .. n -> CellPair]
  BY <1>1, ValueIsCell DEF ValueCells
<1>3. cs \in Seq(CellPair) /\ Len(cs) = n /\ DOMAIN cs = 1 .. n
  BY <1>1, <1>2, FunctionIsSeq
<1>4. cs # <<>>
  BY <1>1, <1>3
<1>5. \A i \in 1 .. n : cs[i] = ValueCell(vals[i])
  BY <1>1 DEF ValueCells
<1> HIDE DEF cs
<1>50. Visible(cs[1].w)
  <2>1. 1 \in 1 .. n
    BY <1>1
  <2> QED
    BY <1>1, <1>5, <2>1, ValueIsCell
<1>6. Ws(cs) = [i \in DOMAIN vals |-> WriteValue(vals[i], LongMax)]
  BY <1>1, <1>3, <1>5 DEF Ws, ValueCell
<1>7. Ts(cs) = [i \in 1 .. n |-> ValueText(vals[i])]
  BY <1>3, <1>5 DEF Ts, ValueCell
<1>8. DOMAIN AsRead(vals) = 1 .. n
  BY <1>1 DEF AsRead
<1>9. ASSUME NEW i \in 1 .. n
      PROVE  Str(Unmarked(i, ValueText(vals[i]))) = StrValue(AsRead(vals)[i]).text
  <2> DEFINE v == vals[i]
  <2>1. v \in ByteValue
    BY <1>1
  <2>2. AsRead(vals)[i] = IF i = 1 /\ v.type = "STRING" THEN [v EXCEPT !.text = StripBom(@)] ELSE v
    BY <1>1 DEF AsRead, ReadIn
  <2> HIDE DEF v
  <2>3. CASE v.type = "STRING"
    <3>1. v \in [type : {"STRING"}, text : Bytes]
      BY <2>1, <2>3 DEF ByteValue
    <3>2. AsRead(vals)[i].type = "STRING" /\ AsRead(vals)[i].text = Unmarked(i, v.text)
      <4>1. CASE i = 1
        <5>1. AsRead(vals)[i] = [v EXCEPT !.text = StripBom(@)]
          BY <2>2, <2>3, <4>1
        <5> QED
          BY <3>1, <4>1, <5>1 DEF Unmarked
      <4>2. CASE i # 1
        BY <2>2, <2>3, <4>2 DEF Unmarked
      <4> QED
        BY <4>1, <4>2
    <3>3. ValueText(v) = v.text
      BY <2>3 DEF ValueText
    <3> QED
      BY <3>2, <3>3 DEF StrValue, v
  <2>4. CASE v.type # "STRING"
    <3>1. v.int \in (-LongMax - 1) .. LongMax
      BY <2>1, <2>4 DEF ByteValue
    <3>2. StripBom(WriteInteger(v.int, LongMax)) = WriteInteger(v.int, LongMax)
      BY <3>1, IntegerCell
    <3>3. ValueText(v) = WriteInteger(v.int, LongMax)
      BY <2>4 DEF ValueText
    <3>4. Unmarked(i, ValueText(v)) = WriteInteger(v.int, LongMax)
      BY <3>2, <3>3 DEF Unmarked
    <3>5. AsRead(vals)[i] = v
      BY <2>2, <2>4
    <3>6. StrValue(v).text = ToString(v.int)
      BY <2>4 DEF StrValue
    <3>7. Str(WriteInteger(v.int, LongMax)) = ToString(v.int)
      BY <3>1 DEF IntegersAreDecimal
    <3> QED
      BY <3>4, <3>5, <3>6, <3>7 DEF v
  <2> QED
    BY <2>3, <2>4
<1>10. StrRow(Shown(Ts(cs))) = [i \in 1 .. n |-> Str(Unmarked(i, ValueText(vals[i])))]
  BY <1>7 DEF StrRow, Shown
<1>11. StrRow(Shown(Ts(cs))) = [i \in DOMAIN vals |-> StrValue(AsRead(vals)[i]).text]
  BY <1>1, <1>9, <1>10
<1> QED
  BY <1>3, <1>4, <1>50, <1>6, <1>11 DEF cs

----------------------------------------------------------------------------
(***************************************************************************)
(* The header of a table that is created.                                  *)
(***************************************************************************)
\* An accepted column list names the columns of the schema, which are texts.
LEMMA NamesToWrite ==
  ASSUME schema \in FileOrNone, ListAccepted(SchemaNow), stmt.cols # <<>>, stmt \in Inserts
  PROVE  /\ SchemaNames \in Seq(Bytes) /\ SchemaNames # <<>>
         /\ DOMAIN SchemaNames = DOMAIN Names(SchemaNow)
         /\ \A k \in DOMAIN SchemaNames :
              /\ Str(SchemaNames[k]) = Names(SchemaNow)[k]
              /\ \E i \in DOMAIN stmt.cols : Str(SchemaNames[k]) = stmt.cols[i]
<1>1. SchemaValid(SchemaNow) /\ MapsToSchema(SchemaNow, stmt)
  BY DEF ListAccepted
<1>2. schema \in Bytes /\ schema # NoFile
  BY <1>1 DEF SchemaValid, HasSchemaHeader, SchemaNow, Table, FileOrNone
<1>3. /\ Rows(schema) \in Seq(Seq(Bytes)) /\ Len(Rows(schema)) = Len(SchemaNow)
      /\ Len(SchemaNow) \in Nat /\ Len(SchemaNow) > 1
      /\ \A k \in 1 .. Len(SchemaNow) : Len(SchemaNow[k]) = Len(Rows(schema)[k])
  BY <1>1, <1>2, RowsType DEF SchemaNow, SchemaValid
<1> DEFINE n == Len(SchemaNow) - 1
<1>4. n \in Nat \ {0} /\ \A k \in 1 .. n : k + 1 \in 2 .. Len(SchemaNow) /\ k + 1 \in 1 .. Len(SchemaNow)
  BY <1>3
<1>5. ASSUME NEW k \in 1 .. n
      PROVE  /\ Rows(schema)[k + 1] \in Seq(Bytes) /\ Len(Rows(schema)[k + 1]) = 2
             /\ Rows(schema)[k + 1][1] \in Bytes
             /\ SchemaNow[k + 1][1] = Str(Rows(schema)[k + 1][1])
  <2>1. Len(SchemaNow[k + 1]) = 2
    BY <1>1, <1>4 DEF SchemaValid, BadRows, RowShapeOK
  <2>2. Rows(schema)[k + 1] \in Seq(Bytes) /\ Len(Rows(schema)[k + 1]) = 2
    BY <1>3, <1>4, <2>1
  <2>3. SchemaNow = [m \in DOMAIN Rows(schema) |-> StrRow(Rows(schema)[m])]
    BY <1>2 DEF SchemaNow, Table
  <2>4. k + 1 \in DOMAIN Rows(schema)
    BY <1>3, <1>4
  <2>5. SchemaNow[k + 1] = StrRow(Rows(schema)[k + 1])
    BY <2>3, <2>4
  <2>6. 1 \in DOMAIN Rows(schema)[k + 1]
    BY <2>2
  <2> QED
    BY <2>2, <2>5, <2>6 DEF StrRow
<1>6. /\ DOMAIN Names(SchemaNow) = 1 .. n
      /\ \A k \in 1 .. n : Names(SchemaNow)[k] = SchemaNow[k + 1][1]
  BY DEF Names
<1>7. SchemaNames = [k \in 1 .. n |-> Rows(schema)[k + 1][1]]
  BY <1>3 DEF SchemaNames
<1> HIDE DEF n
<1>8. SchemaNames \in [1 .. n -> Bytes]
  BY <1>5, <1>7
<1>9. SchemaNames \in Seq(Bytes) /\ Len(SchemaNames) = n
  BY <1>4, <1>8, FunctionIsSeq
<1>10. SchemaNames # <<>>
  BY <1>4, <1>9
<1>11. \A k \in 1 .. n : Str(SchemaNames[k]) = Names(SchemaNow)[k]
  BY <1>5, <1>6, <1>7
<1>12. \A k \in 1 .. n : \E i \in DOMAIN stmt.cols : Names(SchemaNow)[k] = stmt.cols[i]
  <2>1. ColumnSet(stmt.cols) = ColumnSet(Names(SchemaNow))
    BY <1>1 DEF MapsToSchema
  <2> QED
    BY <1>6, <2>1 DEF ColumnSet
<1> QED
  BY <1>6, <1>8, <1>9, <1>10, <1>11, <1>12

\* A line of plain cells.
WordCells(ws) == [i \in DOMAIN ws |-> [w |-> ws[i], t |-> ws[i]]]

\* create_csv_from_schema writes the names as they are, and they are read as one
\* record, the schema's columns.
LEMMA HeaderReads ==
  ASSUME schema \in FileOrNone, ListAccepted(SchemaNow), stmt.cols # <<>>, stmt \in Inserts,
         ColumnsArePlain(Bytes)
  PROVE  /\ ~EndsInQuotes(Line(SchemaNames))
         /\ Table(Line(SchemaNames)) = << Names(SchemaNow) >>
<1> DEFINE ws == SchemaNames
           cs == WordCells(ws)
           n == Len(ws)
           f == Line(ws)
<1>1. /\ ws \in Seq(Bytes) /\ ws # <<>> /\ DOMAIN ws = DOMAIN Names(SchemaNow)
      /\ \A k \in DOMAIN ws :
           /\ Str(ws[k]) = Names(SchemaNow)[k]
           /\ \E i \in DOMAIN stmt.cols : Str(ws[k]) = stmt.cols[i]
  BY NamesToWrite
<1> HIDE DEF ws
<1>2. n \in Nat \ {0} /\ DOMAIN ws = 1 .. n /\ \A k \in 1 .. n : ws[k] \in Bytes
  BY <1>1, EmptySeq
<1> HIDE DEF n
<1>3. ASSUME NEW k \in 1 .. n
      PROVE  Cell(ws[k], ws[k]) /\ StripBom(ws[k]) = ws[k]
  <2>1. ws[k] \in Bytes
    BY <1>2
  <2>2. PICK i \in DOMAIN stmt.cols : Str(ws[k]) = stmt.cols[i]
    BY <1>1, <1>2
  <2>3. ws[k] # <<>> /\ ToSet(ws[k]) \cap (Special \cup {Bom}) = {}
    BY <2>1, <2>2 DEF ColumnsArePlain
  <2>4. \A j \in DOMAIN ws[k] : ws[k][j] \notin Special \cup {Bom}
    BY <2>3 DEF ToSet
  <2>5. Len(ws[k]) \in Nat \ {0} /\ DOMAIN ws[k] = 1 .. Len(ws[k])
    BY <2>1, <2>3, EmptySeq DEF Bytes
  <2>6. IsPlain(ws[k])
    BY <2>4, <2>5 DEF IsPlain, Special
  <2>7. ws[k][1] # Bom
    BY <2>4, <2>5
  <2> QED
    BY <2>1, <2>3, <2>6, <2>7, PlainCell DEF StripBom
<1>4. cs \in [1 .. n -> CellPair]
  BY <1>2, <1>3 DEF WordCells, CellPair
<1>5. cs \in Seq(CellPair) /\ Len(cs) = n /\ DOMAIN cs = 1 .. n
  BY <1>2, <1>4, FunctionIsSeq
<1>6. cs # <<>> /\ \A k \in 1 .. n : cs[k].w = ws[k] /\ cs[k].t = ws[k]
  BY <1>2, <1>5 DEF WordCells
<1> HIDE DEF cs
<1>7. Ws(cs) = ws /\ Ts(cs) = ws
  <2>1. ws = [k \in 1 .. n |-> ws[k]]
    BY <1>1, <1>2
  <2> QED
    BY <1>5, <1>6, <2>1 DEF Ws, Ts
<1>8. f \in Bytes /\ f # <<>> /\ f # NoFile
  <2>1. f \in Bytes
    BY <1>1, LineType
  <2>2. Len(f) # 0
    <3>1. Joined(ws) \in Seq(Char)
      BY <1>5, <1>7, CellSteps, JoinedSteps DEF Bytes
    <3>2. <<LF>> \in Seq(Char) /\ Len(<<LF>>) = 1
      BY SymbolsAssumption
    <3>3. Len(Joined(ws) \o <<LF>>) = Len(Joined(ws)) + Len(<<LF>>) /\ Len(Joined(ws)) \in Nat
      BY <3>1, <3>2, ConcatProperties
    <3> QED
      BY <3>2, <3>3 DEF Line
  <2> QED
    BY <2>1, <2>2, FilesAssumption
<1> DEFINE r == NewRecord(cs)
<1>9. RawRecords(f) = << r >>
  <2>1. <<>> \in Bytes /\ Len(<<>>) = 0
    BY DEF Bytes
  <2>2. RawFrom(<<>> \o Line(Ws(cs)))[Len(<<>>) + 1] = << r >>
    BY <1>5, <1>6, <2>1, LineRead DEF NewRecord
  <2>3. <<>> \o f = f
    BY <1>8, ConcatEmptySeq DEF Bytes
  <2>4. RawFrom(f)[1] = << r >>
    BY <1>7, <2>1, <2>2, <2>3
  <2> QED
    BY <1>8, <2>4, RawSteps
<1>10. ~EndsInQuotes(f)
  <2>1. r.open = FALSE
    BY DEF NewRecord, ClosedRecord
  <2> HIDE DEF r
  <2> QED
    BY <1>9, <2>1 DEF EndsInQuotes
<1>11. RecordOf(r) = Names(SchemaNow)
  <2>1. RecordOf(r) = StrRow(Shown(Ts(cs)))
    BY <1>5, <1>6, RowRead DEF RecordOf, NewRecord, ClosedRecord
  <2>2. \A k \in 1 .. n : Unmarked(k, ws[k]) = ws[k]
    BY <1>3 DEF Unmarked
  <2>3. Shown(ws) = [k \in 1 .. n |-> ws[k]]
    BY <1>2, <2>2 DEF Shown
  <2>4. StrRow(Shown(ws)) = [k \in 1 .. n |-> Str(ws[k])]
    BY <2>3 DEF StrRow
  <2>5. Names(SchemaNow) = [k \in DOMAIN Names(SchemaNow) |-> Names(SchemaNow)[k]]
    BY DEF Names
  <2> QED
    BY <1>1, <1>2, <1>7, <2>1, <2>4, <2>5
<1>12. Table(f) = << Names(SchemaNow) >>
  <2>1. /\ Len(Table(f)) = Len(RawRecords(f))
        /\ \A k \in 1 .. Len(RawRecords(f)) : Table(f)[k] = RecordOf(RawRecords(f)[k])
        /\ Table(f) \in Seq({RecordOf(x) : x \in RawRecord})
    BY <1>8, TableOf
  <2>2. Len(RawRecords(f)) = 1 /\ RawRecords(f)[1] = r
    BY <1>9
  <2>3. Len(Table(f)) = 1 /\ Table(f)[1] = Names(SchemaNow)
    BY <1>11, <2>1, <2>2
  <2> QED
    BY <2>1, <2>3
<1> QED
  BY <1>10, <1>12 DEF f, ws

----------------------------------------------------------------------------
(***************************************************************************)
(* What an INSERT that has returned has decided on.                        *)
(***************************************************************************)
\* The line append_row_to_file writes.
RowLine(vals) == Line([i \in DOMAIN vals |-> WriteValue(vals[i], LongMax)])

\* The file the row goes to: the one found, or the one created.
Base(f) == f = before \/ (before = NoFile /\ stmt.cols # <<>> /\ f = Line(SchemaNames))

\* The header has been checked, on the file there is.
HeaderChecked ==
  /\ at \in {"header", "reopen", "append"} /\ created => csv = Line(SchemaNames) /\ stmt.cols # <<>>
  /\ at \in {"reopen", "append"} => HeaderAccepted(SchemaNow, Table(csv))

Stored ==
  InsertReturned /\ result = "ok" =>
    /\ ListAccepted(SchemaNow)
    /\ \E f \in Bytes :
         /\ Base(f) /\ HeaderAccepted(SchemaNow, Table(f))
         /\ csv = f \o (NewlineIfNeeded(f) \o RowLine(RowToStore(SchemaNow, stmt)))

\* One of the checks did not hold.
RefusedFor ==
  \/ ~ListAccepted(SchemaNow)
  \/ before = NoFile /\ stmt.cols = <<>>
  \/ before # NoFile /\ ~HeaderAccepted(SchemaNow, Table(before))
  \/ before = NoFile /\ stmt.cols # <<>> /\ ~HeaderAccepted(SchemaNow, Table(Line(SchemaNames)))

Refused ==
  /\ at \in {"schema", "exists", "create", "header", "reopen", "append"} => result = "none"
  /\ at = "cleanup" => result = "failed"
  /\ at = "cleanup" /\ met = {} => RefusedFor
  /\ InsertReturned => result # "none"
  /\ InsertReturned /\ result = "failed" /\ met = {} => RefusedFor /\ csv = before

Decided == HeaderChecked /\ Stored /\ Refused

\* The terms that depend on the schema file and the statement alone.
LEMMA SameTerms ==
  ASSUME schema' = schema, stmt' = stmt
  PROVE  /\ SchemaNow' = SchemaNow /\ SchemaNames' = SchemaNames
         /\ ListAccepted(SchemaNow)' = ListAccepted(SchemaNow)
         /\ RowToStore(SchemaNow, stmt)' = RowToStore(SchemaNow, stmt)
         /\ \A c : HeaderAccepted(SchemaNow, c)' = HeaderAccepted(SchemaNow, c)
BY DEF SchemaNow, Table, SchemaNames, ListAccepted, RowToStore, OrderedValues, HeaderAccepted

LEMMA SameBase ==
  ASSUME schema' = schema, stmt' = stmt, before' = before
  PROVE  (\A f : Base(f)' = Base(f)) /\ RefusedFor' = RefusedFor
<1>1. /\ SchemaNow' = SchemaNow /\ SchemaNames' = SchemaNames
      /\ ListAccepted(SchemaNow)' = ListAccepted(SchemaNow)
      /\ \A c : HeaderAccepted(SchemaNow, c)' = HeaderAccepted(SchemaNow, c)
  BY SameTerms
<1>2. \A f : Base(f)' = Base(f)
  BY <1>1 DEF Base
<1>3. RefusedFor' = RefusedFor
  <2>1. Table(before)' = Table(before) /\ Table(Line(SchemaNames))' = Table(Line(SchemaNames))
    BY <1>1 DEF Table
  <2> QED
    BY <1>1, <2>1 DEF RefusedFor
<1> QED
  BY <1>2, <1>3

\* A call that returns without a row, and a file left as it was.
LEMMA RefusalDecided ==
  ASSUME AppendInv, Decided, at \in {"schema", "exists", "header", "reopen"},
         Return, UNCHANGED <<files, created, call>>,
         met' # {} \/ RefusedFor
  PROVE  Decided'
<1>1. /\ result' = "failed" /\ at' = (IF created THEN "cleanup" ELSE "idle")
      /\ schema' = schema /\ csv' = csv /\ created' = created
      /\ stmt' = stmt /\ before' = before
  BY DEF Return, files, call
<1>2. RefusedFor' = RefusedFor
  BY <1>1, SameBase
<1>3. created \in BOOLEAN
  BY DEF AppendInv, TypeOK
<1>4. at' = "idle" => csv = before
  BY <1>1 DEF AppendInv, CreatedInStep
<1>5. HeaderChecked' /\ Stored'
  BY <1>1, <1>3 DEF HeaderChecked, Stored
<1>6. Refused'
  BY <1>1, <1>2, <1>3, <1>4 DEF Refused, InsertReturned, Returned
<1> QED
  BY <1>5, <1>6 DEF Decided

\* A call that goes on.
LEMMA GoingOnDecided ==
  ASSUME AppendInv, Decided, UNCHANGED result, UNCHANGED <<files, created, call>>,
         \/ at = "schema" /\ at' = "exists"
         \/ at = "schema" /\ at' = "died"
         \/ at = "exists" /\ at' \in {"header", "create"}
         \/ at = "header" /\ at' = "reopen" /\ HeaderAccepted(SchemaNow, Table(csv))
         \/ at = "reopen" /\ at' = "append"
  PROVE  Decided'
<1>1. /\ result' = result /\ schema' = schema /\ csv' = csv /\ created' = created
      /\ stmt' = stmt /\ before' = before
  BY DEF files, call
<1>2. /\ SchemaNow' = SchemaNow /\ SchemaNames' = SchemaNames
      /\ \A c : HeaderAccepted(SchemaNow, c)' = HeaderAccepted(SchemaNow, c)
  BY <1>1, SameTerms
<1>3. ~InsertReturned'
  BY DEF InsertReturned, Returned
<1>4. at \in {"schema", "exists"} => ~created
  BY DEF AppendInv, CreatedInStep
<1>5. HeaderChecked'
  <2>1. Table(csv)' = Table(csv)
    BY <1>1 DEF Table
  <2> QED
    BY <1>1, <1>2, <1>4, <2>1 DEF Decided, HeaderChecked
<1>6. Stored' /\ Refused'
  BY <1>1, <1>3 DEF Decided, Stored, Refused
<1> QED
  BY <1>5, <1>6 DEF Decided

LEMMA BeginDecided ==
  ASSUME AppendInv, Decided, AppendCall \/ SelectCall
  PROVE  Decided'
<1>1. CASE AppendCall
  <2>1. at' = "schema" /\ result' = "none"
    BY <1>1 DEF AppendCall
  <2> QED
    BY <2>1 DEF Decided, HeaderChecked, Stored, Refused, InsertReturned, Returned
<1>2. CASE SelectCall
  <2>1. at' \in {"idle", "died"} /\ \E st \in Selects : stmt' = st
    BY <1>2 DEF SelectCall, Begin
  <2>2. stmt'.kind # "INSERT"
    BY <2>1, StatementsAssumption
  <2> QED
    BY <2>1, <2>2 DEF Decided, HeaderChecked, Stored, Refused, InsertReturned, Returned
<1> QED
  BY <1>1, <1>2

LEMMA LoadSchemaDecided ==
  ASSUME AppendInv, Decided, LoadSchema
  PROVE  Decided'
<1>1. at = "schema" /\ UNCHANGED <<files, created, call>>
  BY DEF LoadSchema
<1>2. CASE at' \in {"exists", "died"} /\ UNCHANGED result
  BY <1>1, <1>2, GoingOnDecided
<1>3. CASE ~ListAccepted(SchemaNow) /\ Return
  BY <1>1, <1>3, RefusalDecided DEF RefusedFor
<1>4. CASE Fails("schema") /\ Return
  <2>1. met' # {}
    BY <1>4 DEF Fails
  <2> QED
    BY <1>1, <1>4, <2>1, RefusalDecided
<1> QED
  BY <1>2, <1>3, <1>4 DEF LoadSchema

LEMMA CheckExistsDecided ==
  ASSUME AppendInv, Decided, CheckExists
  PROVE  Decided'
<1>1. at = "exists" /\ UNCHANGED <<files, created, call>> /\ csv = before
  BY DEF CheckExists, AppendInv, CreatedInStep
<1>2. CASE at' \in {"header", "create"} /\ UNCHANGED result
  BY <1>1, <1>2, GoingOnDecided
<1>3. CASE csv = NoFile /\ stmt.cols = <<>> /\ Return
  BY <1>1, <1>3, RefusalDecided DEF RefusedFor
<1> QED
  BY <1>2, <1>3 DEF CheckExists

LEMMA CheckHeaderDecided ==
  ASSUME AppendInv, Decided, CheckHeader
  PROVE  Decided'
<1>1. at = "header" /\ UNCHANGED <<files, created, call>>
  BY DEF CheckHeader
<1>2. CASE HeaderAccepted(SchemaNow, TableNow) /\ at' = "reopen" /\ UNCHANGED result
  BY <1>1, <1>2, GoingOnDecided DEF TableNow
<1>3. CASE ~HeaderAccepted(SchemaNow, TableNow) /\ Return
  <2>1. CASE created
    <3>1. before = NoFile /\ csv = Line(SchemaNames) /\ stmt.cols # <<>>
      BY <1>1, <2>1 DEF AppendInv, CreatedInStep, Decided, HeaderChecked
    <3> QED
      BY <1>1, <1>3, <3>1, RefusalDecided DEF RefusedFor, TableNow
  <2>2. CASE ~created
    <3>1. before = csv /\ csv # NoFile
      BY <1>1, <2>2 DEF AppendInv, CreatedInStep, TypeOK
    <3> QED
      BY <1>1, <1>3, <3>1, RefusalDecided DEF RefusedFor, TableNow
  <2> QED
    BY <2>1, <2>2 DEF AppendInv, TypeOK
<1>4. CASE Fails("header") /\ Return
  <2>1. met' # {}
    BY <1>4 DEF Fails
  <2> QED
    BY <1>1, <1>4, <2>1, RefusalDecided
<1> QED
  BY <1>2, <1>3, <1>4 DEF CheckHeader

LEMMA ReopenDecided ==
  ASSUME AppendInv, Decided, Reopen
  PROVE  Decided'
<1>1. at = "reopen" /\ UNCHANGED <<files, created, call>>
  BY DEF Reopen
<1>2. CASE at' = "append" /\ UNCHANGED result
  BY <1>1, <1>2, GoingOnDecided
<1>3. CASE Fails("reopen") /\ Return
  <2>1. met' # {}
    BY <1>3 DEF Fails
  <2> QED
    BY <1>1, <1>3, <2>1, RefusalDecided
<1> QED
  BY <1>2, <1>3 DEF Reopen

LEMMA CreateCsvDecided ==
  ASSUME AppendInv, Decided, CreateCsv
  PROVE  Decided'
<1>1. /\ at = "create" /\ schema' = schema /\ stmt' = stmt /\ before' = before
      /\ stmt.cols # <<>> /\ ~created /\ result = "none"
  BY DEF CreateCsv, call, AppendInv, Checked, CreatedInStep, Decided, Refused
<1>2. SchemaNames' = SchemaNames
  BY <1>1, SameTerms
<1>3. CASE csv' = Line(SchemaNames) /\ at' = "header" /\ UNCHANGED result
  BY <1>1, <1>2, <1>3 DEF Decided, HeaderChecked, Stored, Refused, InsertReturned, Returned
<1>4. CASE Fails("create") /\ UNCHANGED created /\ Return
  <2>1. met' # {} /\ at' = "idle" /\ result' = "failed"
    BY <1>1, <1>4 DEF Fails, Return
  <2> QED
    BY <2>1 DEF Decided, HeaderChecked, Stored, Refused, InsertReturned, Returned
<1> QED
  BY <1>3, <1>4 DEF CreateCsv

LEMMA AppendBytesDecided ==
  ASSUME AppendInv, Decided, AppendBytes
  PROVE  Decided'
<1>1. /\ at = "append" /\ schema' = schema /\ stmt' = stmt /\ before' = before
      /\ created' = created
  BY DEF AppendBytes, call
<1>2. /\ SchemaNow' = SchemaNow /\ ListAccepted(SchemaNow)' = ListAccepted(SchemaNow)
      /\ RowToStore(SchemaNow, stmt)' = RowToStore(SchemaNow, stmt)
      /\ \A c : HeaderAccepted(SchemaNow, c)' = HeaderAccepted(SchemaNow, c)
      /\ \A f : Base(f)' = Base(f)
  BY <1>1, SameTerms, SameBase
<1> DEFINE vals == RowToStore(SchemaNow, stmt)
<1>3. CASE csv' = csv \o RowBytes(vals) /\ result' = "ok" /\ at' = "idle"
  <2>1. csv \in Bytes /\ Base(csv) /\ HeaderAccepted(SchemaNow, Table(csv)) /\ ListAccepted(SchemaNow)
    <3>1. csv \in Bytes /\ created \in BOOLEAN /\ ListAccepted(SchemaNow)
      BY <1>1 DEF AppendInv, TypeOK, FilesAreBytes, FileOrNone, Checked
    <3>2. Base(csv)
      BY <1>1, <3>1 DEF AppendInv, CreatedInStep, Decided, HeaderChecked, Base
    <3> QED
      BY <1>1, <3>1, <3>2 DEF Decided, HeaderChecked
  <2>2. csv' = csv \o (NewlineIfNeeded(csv) \o RowLine(vals))
    BY <1>3 DEF RowBytes, RowLine
  <2>3. Stored'
    <3>1. RowLine(RowToStore(SchemaNow, stmt))' = RowLine(vals)
      BY <1>2 DEF RowLine
    <3> DEFINE f == csv
    <3>2. PICK g : g = csv
      OBVIOUS
    <3>3. /\ g \in Bytes /\ Base(g)' /\ HeaderAccepted(SchemaNow, Table(g))'
          /\ csv' = g \o (NewlineIfNeeded(g) \o RowLine(RowToStore(SchemaNow, stmt))')
      <4>1. HeaderAccepted(SchemaNow, Table(g))
        BY <2>1, <3>2
      <4>2. HeaderAccepted(SchemaNow, Table(g))'
        BY <1>2, <4>1
      <4> QED
        BY <1>2, <2>1, <2>2, <3>1, <3>2, <4>2
    <3> QED
      BY <1>2, <2>1, <3>3 DEF Stored
  <2>4. HeaderChecked' /\ Refused'
    BY <1>3 DEF HeaderChecked, Refused
  <2> QED
    BY <2>3, <2>4 DEF Decided
<1>4. CASE Fails("append") /\ Return
  <2>1. met' # {} /\ result' = "failed" /\ at' \in {"idle", "cleanup"}
    BY <1>4 DEF Fails, Return
  <2> QED
    BY <2>1 DEF Decided, HeaderChecked, Stored, Refused
<1> QED
  BY <1>3, <1>4 DEF AppendBytes

LEMMA CleanupCreatedDecided ==
  ASSUME AppendInv, Decided, CleanupCreated
  PROVE  Decided'
<1>1. /\ at = "cleanup" /\ at' = "idle" /\ schema' = schema /\ stmt' = stmt
      /\ before' = before /\ result' = result /\ result = "failed" /\ before = NoFile
  BY DEF CleanupCreated, call, AppendInv, CreatedInStep
<1>2. RefusedFor' = RefusedFor
  BY <1>1, SameBase
<1>3. met' = {} => met = {} /\ csv' = NoFile
  BY DEF CleanupCreated, Works, Fails
<1> QED
  BY <1>1, <1>2, <1>3 DEF Decided, HeaderChecked, Stored, Refused

LEMMA IdleDecided ==
  ASSUME AppendInv, Decided, UNCHANGED vars
  PROVE  Decided'
<1>1. /\ schema' = schema /\ stmt' = stmt /\ before' = before /\ csv' = csv /\ at' = at
      /\ created' = created /\ result' = result /\ met' = met
  BY DEF vars
<1>2. /\ SchemaNow' = SchemaNow /\ SchemaNames' = SchemaNames
      /\ ListAccepted(SchemaNow)' = ListAccepted(SchemaNow)
      /\ RowToStore(SchemaNow, stmt)' = RowToStore(SchemaNow, stmt)
      /\ \A c : HeaderAccepted(SchemaNow, c)' = HeaderAccepted(SchemaNow, c)
      /\ (\A f : Base(f)' = Base(f)) /\ RefusedFor' = RefusedFor
  BY <1>1, SameTerms, SameBase
<1>3. HeaderChecked'
  <2>1. Table(csv)' = Table(csv)
    BY <1>1 DEF Table
  <2> QED
    BY <1>1, <1>2, <2>1 DEF Decided, HeaderChecked
<1>4. Refused'
  BY <1>1, <1>2 DEF Decided, Refused, InsertReturned, Returned
<1>5. Stored'
  <2> SUFFICES ASSUME InsertReturned', result' = "ok" PROVE Stored'
    BY DEF Stored
  <2>1. InsertReturned /\ result = "ok"
    BY <1>1 DEF InsertReturned, Returned
  <2>2. ListAccepted(SchemaNow)
    BY <2>1 DEF Decided, Stored
  <2>3. PICK f \in Bytes :
          /\ Base(f) /\ HeaderAccepted(SchemaNow, Table(f))
          /\ csv = f \o (NewlineIfNeeded(f) \o RowLine(RowToStore(SchemaNow, stmt)))
    BY <2>1 DEF Decided, Stored
  <2>4. RowLine(RowToStore(SchemaNow, stmt))' = RowLine(RowToStore(SchemaNow, stmt))
    BY <1>2 DEF RowLine
  <2>5. Base(f)' /\ HeaderAccepted(SchemaNow, Table(f))'
    BY <1>2, <2>3
  <2>6. csv' = f \o (NewlineIfNeeded(f) \o RowLine(RowToStore(SchemaNow, stmt))')
    BY <1>1, <2>3, <2>4
  <2> QED
    BY <1>2, <2>2, <2>5, <2>6 DEF Stored
<1> QED
  BY <1>3, <1>4, <1>5 DEF Decided

LEMMA DecidedSound == Spec => []Decided
<1>1. Init => Decided
  <2> SUFFICES ASSUME Init PROVE Decided
    OBVIOUS
  <2>1. at = "idle" /\ stmt = NoStmt
    BY DEF Init
  <2> QED
    BY <2>1 DEF Decided, HeaderChecked, Stored, Refused, InsertReturned, Returned
<1>2. AppendInv /\ Decided /\ [Next]_vars => Decided'
  <2> SUFFICES ASSUME AppendInv, Decided, [Next]_vars PROVE Decided'
    OBVIOUS
  <2> QED
    BY BeginDecided, LoadSchemaDecided, CheckExistsDecided, CreateCsvDecided, CheckHeaderDecided,
       ReopenDecided, AppendBytesDecided, CleanupCreatedDecided, IdleDecided DEF Next, Done
<1> QED
  BY <1>1, <1>2, AppendSound, PTL DEF Spec

----------------------------------------------------------------------------
(***************************************************************************)
(* What has been decided on is what Storage says.                          *)
(***************************************************************************)
LEMMA ReturnedInsert ==
  ASSUME AppendInv, InsertReturned
  PROVE  stmt \in Inserts /\ schema \in FileOrNone /\ before \in FileOrNone /\ csv \in FileOrNone
<1>1. stmt \in Inserts \cup Selects \cup {NoStmt} /\ stmt # NoStmt /\ stmt.kind = "INSERT"
  BY DEF AppendInv, TypeOK, InsertReturned, Returned
<1>2. \A st \in Selects : st.kind = "SELECT"
  BY StatementsAssumption
<1> QED
  BY <1>1, <1>2 DEF AppendInv, FilesAreBytes

\* A table that is read is not the sign for none.
LEMMA TableIsContent ==
  ASSUME NEW f \in Bytes, StringsAreText(Bytes)
  PROVE  Table(f) \in Content /\ Table(f) # NoFile
<1> DEFINE rows == Rows(f)
<1>1. rows \in Seq(Seq(Bytes)) /\ f # NoFile
  BY RowsType, FilesAssumption
<1>2. Table(f) = [k \in DOMAIN rows |-> StrRow(rows[k])]
  BY <1>1 DEF Table
<1> HIDE DEF rows
<1>3. Len(rows) \in Nat /\ DOMAIN rows = 1 .. Len(rows) /\ \A k \in 1 .. Len(rows) : rows[k] \in Seq(Bytes)
  BY <1>1
<1>4. ASSUME NEW r \in Seq(Bytes)
      PROVE  StrRow(r) \in Record
  <2>1. Len(r) \in Nat /\ DOMAIN r = 1 .. Len(r) /\ \A i \in 1 .. Len(r) : r[i] \in Bytes
    OBVIOUS
  <2>2. StrRow(r) \in [1 .. Len(r) -> Text]
    BY <2>1 DEF StrRow, StringsAreText
  <2> QED
    BY <2>1, <2>2, FunctionIsSeq DEF Record
<1>5. Table(f) \in [1 .. Len(rows) -> Record]
  BY <1>2, <1>3, <1>4
<1>6. Table(f) \in Seq(Record)
  BY <1>3, <1>5, FunctionIsSeq
<1> QED
  BY <1>6, NoFileIsNoContent DEF Content

\* A record that is not the empty one has a field.
LEMMA FieldsThere ==
  ASSUME NEW f \in Bytes, HasHeader(Table(f))
  PROVE  Len(Table(f)[1]) \in Nat \ {0}
<1>1. Table(f) # <<>> /\ Table(f)[1] # <<>>
  BY DEF HasHeader
<1>2. /\ Rows(f) \in Seq(Seq(Bytes)) /\ Len(Rows(f)) = Len(Table(f)) /\ Len(Table(f)) \in Nat
      /\ \A k \in 1 .. Len(Table(f)) : Len(Table(f)[k]) = Len(Rows(f)[k])
      /\ Table(f) \in Seq({RecordOf(raw) : raw \in RawRecord})
  BY RowsType, TableOf
<1>3. 1 \in 1 .. Len(Table(f))
  BY <1>1, <1>2, EmptySeq
<1>4. Rows(f)[1] \in Seq(Bytes) /\ Len(Table(f)[1]) = Len(Rows(f)[1])
  BY <1>2, <1>3
<1>5. Table(f)[1] = StrRow(Rows(f)[1])
  <2>1. Table(f) = [k \in DOMAIN Rows(f) |-> StrRow(Rows(f)[k])]
    BY FilesAssumption DEF Table
  <2>2. 1 \in DOMAIN Rows(f)
    BY <1>2, <1>3
  <2> QED
    BY <2>1, <2>2
<1>6. Rows(f)[1] = <<>> => StrRow(Rows(f)[1]) = <<>>
  BY DEF StrRow
<1> QED
  BY <1>1, <1>4, <1>5, <1>6, EmptySeq

\* The values of a row that has been checked.
LEMMA CheckedValues ==
  ASSUME schema \in FileOrNone, stmt \in Inserts, NEW f \in Bytes,
         ListAccepted(SchemaNow), HeaderAccepted(SchemaNow, Table(f))
  PROVE  RowToStore(SchemaNow, stmt) \in Seq(ByteValue) /\ RowToStore(SchemaNow, stmt) # <<>>
<1> DEFINE vals == RowToStore(SchemaNow, stmt)
<1>1. stmt.vals \in Seq(ByteValue)
  BY StatementsAssumption
<1>2. CASE SchemaAbsent(SchemaNow)
  <2>1. HasHeader(Table(f)) /\ Len(Table(f)[1]) = Len(stmt.vals)
    BY <1>2 DEF HeaderAccepted
  <2>2. Len(stmt.vals) # 0
    BY <2>1, FieldsThere
  <2> QED
    BY <1>1, <1>2, <2>2 DEF RowToStore
<1>3. CASE ~SchemaAbsent(SchemaNow)
  <2>1. SchemaValid(SchemaNow) /\ MapsToSchema(SchemaNow, stmt)
    BY <1>3 DEF ListAccepted
  <2>2. schema \in Bytes
    BY <1>3 DEF SchemaAbsent, SchemaNow, Table, FileOrNone
  <2>3. Len(SchemaNow) \in Nat /\ Len(SchemaNow) > 1
    BY <2>1, <2>2, RowsType DEF SchemaValid, SchemaNow
  <2>4. OrderedValues(SchemaNow, stmt) \in Seq(ByteValue)
    BY <2>1, <2>3, ValuesToStore
  <2>5. DOMAIN Names(SchemaNow) = 1 .. (Len(SchemaNow) - 1) /\ Len(Names(SchemaNow)) = Len(SchemaNow) - 1
    BY <2>3 DEF Names
  <2>6. OrderedValues(SchemaNow, stmt) # <<>>
    <3>1. CASE stmt.cols = <<>>
      <4>1. Len(stmt.vals) = Len(Names(SchemaNow))
        BY <2>1 DEF MapsToSchema
      <4>2. \A n \in Nat : n > 1 => n - 1 # 0
        OBVIOUS
      <4>3. Len(stmt.vals) # 0
        BY <2>3, <2>5, <4>1, <4>2
      <4> QED
        BY <1>1, <3>1, <4>3 DEF OrderedValues
    <3>2. CASE stmt.cols # <<>>
      <4>1. 1 \in DOMAIN Names(SchemaNow)
        BY <2>3, <2>5
      <4>2. DOMAIN OrderedValues(SchemaNow, stmt) = DOMAIN Names(SchemaNow)
        BY <3>2 DEF OrderedValues
      <4> QED
        BY <4>1, <4>2
    <3> QED
      BY <3>1, <3>2
  <2> QED
    BY <1>3, <2>4, <2>6 DEF RowToStore
<1> QED
  BY <1>2, <1>3

\* What Storage appends for the row, written out.
LEMMA FileGrown ==
  ASSUME NEW s, NEW c, stmt \in Inserts, RowToStore(s, stmt) \in Seq(ByteValue)
  PROVE  LET vals == RowToStore(s, stmt)
         IN  AppendedFile(s, c, StrStmt(RowStored(s)))
               = Append(IF c = NoFile THEN << Names(s) >> ELSE c,
                        [i \in DOMAIN vals |-> StrValue(AsRead(vals)[i]).text])
<1> DEFINE vals == RowToStore(s, stmt)
           row == RowStored(s)
           st == StrStmt(row)
<1>1. DOMAIN stmt = {"kind", "table", "cols", "all", "vals"}
  BY StatementsAssumption
<1>2. /\ row.cols = <<>> /\ row.vals = AsRead(vals)
      /\ DOMAIN row = {"kind", "table", "cols", "all", "vals"}
  BY <1>1 DEF RowStored
<1> HIDE DEF row
<1>3. st.cols = <<>> /\ st.vals = [i \in DOMAIN row.vals |-> StrValue(row.vals[i])]
  BY <1>2 DEF StrStmt
<1>4. DOMAIN AsRead(vals) = DOMAIN vals
  BY DEF AsRead
<1>5. st.vals = [i \in DOMAIN vals |-> StrValue(AsRead(vals)[i])]
  BY <1>2, <1>3, <1>4
<1> HIDE DEF st, vals
<1>6. RowToStore(s, st) = st.vals
  BY <1>3 DEF RowToStore, OrderedValues
<1>7. [k \in DOMAIN st.vals |-> st.vals[k].text] = [i \in DOMAIN vals |-> StrValue(AsRead(vals)[i]).text]
  BY <1>5
<1> QED
  BY <1>6, <1>7 DEF AppendedFile, st, row, vals

\* What Storage accepts, in the order of the checks.
LEMMA AcceptsIs ==
  ASSUME NEW s, NEW c, stmt \in Inserts
  PROVE  AppendAccepts(s, c, StrStmt(stmt)) <=>
           /\ ListAccepted(s)
           /\ c = NoFile => stmt.cols # <<>>
           /\ c # NoFile => HeaderAccepted(s, c)
<1> DEFINE st == StrStmt(stmt)
<1>1. /\ DOMAIN stmt = {"kind", "table", "cols", "all", "vals"}
      /\ stmt.vals \in Seq(ByteValue) /\ stmt.cols \in Seq(Text)
  BY StatementsAssumption
<1>2. st.cols = stmt.cols /\ st.vals = [i \in DOMAIN stmt.vals |-> StrValue(stmt.vals[i])]
  BY <1>1 DEF StrStmt
<1> HIDE DEF st
<1>3. /\ DOMAIN stmt.vals = 1 .. Len(stmt.vals) /\ Len(stmt.vals) \in Nat
      /\ DOMAIN st.vals = 1 .. Len(stmt.vals) /\ Len(st.vals) = Len(stmt.vals)
  BY <1>1, <1>2
<1>4. MapsToSchema(s, st) <=> MapsToSchema(s, stmt)
  BY <1>2, <1>3 DEF MapsToSchema
<1>5. ASSUME MapsToSchema(s, stmt)
      PROVE  TypesMatch(s, OrderedValues(s, st)) <=> TypesMatch(s, OrderedValues(s, stmt))
  <2>1. \A v : StrValue(v).type = v.type
    BY DEF StrValue
  <2>2. CASE stmt.cols = <<>>
    <3>1. OrderedValues(s, st) = st.vals /\ OrderedValues(s, stmt) = stmt.vals
      BY <1>2, <2>2 DEF OrderedValues
    <3>2. \A k \in 1 .. Len(stmt.vals) : st.vals[k].type = stmt.vals[k].type
      BY <1>2, <1>3, <2>1
    <3> QED
      BY <1>3, <3>1, <3>2 DEF TypesMatch
  <2>3. CASE stmt.cols # <<>>
    <3> DEFINE n == Names(s)
               At(k) == CHOOSE i \in DOMAIN stmt.vals : stmt.cols[i] = n[k]
    <3>1. /\ Len(stmt.vals) = Len(n) /\ Len(stmt.cols) = Len(n)
          /\ ColumnSet(stmt.cols) = ColumnSet(n)
      BY <1>5, <2>3 DEF MapsToSchema
    <3>2. DOMAIN stmt.cols = DOMAIN stmt.vals
      BY <1>1, <1>3, <3>1
    <3>3. ASSUME NEW k \in DOMAIN n
          PROVE  At(k) \in DOMAIN stmt.vals
      <4>1. \E i \in DOMAIN stmt.vals : stmt.cols[i] = n[k]
        BY <3>1, <3>2 DEF ColumnSet
      <4> QED
        BY <4>1
    <3>4. OrderedValues(s, stmt) = [k \in DOMAIN n |-> stmt.vals[At(k)]]
      BY <2>3 DEF OrderedValues
    <3>5. OrderedValues(s, st) = [k \in DOMAIN n |-> st.vals[At(k)]]
      BY <1>2, <1>3, <2>3 DEF OrderedValues
    <3> HIDE DEF At
    <3>6. \A k \in DOMAIN n : st.vals[At(k)].type = stmt.vals[At(k)].type
      BY <1>2, <2>1, <3>3
    <3> QED
      BY <3>4, <3>5, <3>6 DEF TypesMatch
  <2> QED
    BY <2>2, <2>3
<1>6. AppendAccepts(s, c, st) <=>
        \/ /\ SchemaAbsent(s) /\ stmt.cols = <<>> /\ HasHeader(c) /\ Len(c[1]) = Len(stmt.vals)
        \/ /\ SchemaValid(s) /\ MapsToSchema(s, stmt) /\ TypesMatch(s, OrderedValues(s, stmt))
           /\ (c = NoFile /\ stmt.cols # <<>>) \/ HeaderMatches(s, c)
  BY <1>2, <1>3, <1>4, <1>5 DEF AppendAccepts
<1>7. SchemaValid(s) => ~SchemaAbsent(s)
  BY DEF SchemaValid, HasSchemaHeader, SchemaAbsent
<1>8. HasHeader(c) => c # NoFile
  BY DEF HasHeader
<1>9. HeaderMatches(s, c) => c # NoFile
  BY DEF HeaderMatches, HasHeader
<1>10. CASE SchemaAbsent(s)
  BY <1>6, <1>7, <1>8, <1>10 DEF ListAccepted, HeaderAccepted, st
<1>11. CASE ~SchemaAbsent(s)
  BY <1>6, <1>7, <1>9, <1>11 DEF ListAccepted, HeaderAccepted, st
<1> QED
  BY <1>10, <1>11

\* The header that is created is found to be the schema's.
LEMMA NewHeaderAccepted ==
  ASSUME schema \in FileOrNone, ListAccepted(SchemaNow), stmt.cols # <<>>, stmt \in Inserts,
         ColumnsArePlain(Bytes), StringsAreText(Bytes)
  PROVE  HeaderAccepted(SchemaNow, Table(Line(SchemaNames)))
<1> DEFINE f == Line(SchemaNames)
<1>1. Table(f) = << Names(SchemaNow) >>
  BY HeaderReads
<1>2. f \in Bytes
  BY HeaderBytesType
<1>3. Table(f) # NoFile
  BY <1>2, TableIsContent
<1>4. /\ SchemaNames \in Seq(Bytes) /\ SchemaNames # <<>>
      /\ DOMAIN SchemaNames = DOMAIN Names(SchemaNow)
  BY NamesToWrite
<1>5. Names(SchemaNow) # <<>>
  <2>1. 1 \in DOMAIN SchemaNames
    BY <1>4, EmptySeq
  <2> QED
    BY <1>4, <2>1
<1>6. ~SchemaAbsent(SchemaNow)
  BY DEF ListAccepted
<1> HIDE DEF f
<1> QED
  BY <1>1, <1>3, <1>5, <1>6 DEF HeaderAccepted, HeaderMatches, HasHeader, f

\* The row stored is found behind the records there were.
LEMMA RowIsReadBack ==
  ASSUME AppendInv, Decided, IntegersAreDecimal, ColumnsArePlain(Bytes), StringsAreText(Bytes)
  PROVE  RowReadsBack
<1> SUFFICES ASSUME InsertReturned, result = "ok", ~EndsInQuotes(before)
             PROVE  TableNow = AppendedFile(SchemaNow, Table(before), StrStmt(RowStored(SchemaNow)))
  BY DEF RowReadsBack
<1> DEFINE s == SchemaNow
           vals == RowToStore(s, stmt)
           row == [i \in DOMAIN vals |-> StrValue(AsRead(vals)[i]).text]
           cs == ValueCells(vals)
<1>1. stmt \in Inserts /\ schema \in FileOrNone /\ before \in FileOrNone
  BY ReturnedInsert
<1>2. ListAccepted(s)
  BY DEF Decided, Stored
<1>3. PICK f \in Bytes :
        /\ Base(f) /\ HeaderAccepted(s, Table(f))
        /\ csv = f \o (NewlineIfNeeded(f) \o RowLine(vals))
  BY DEF Decided, Stored
<1>4. vals \in Seq(ByteValue) /\ vals # <<>>
  BY <1>1, <1>2, <1>3, CheckedValues
<1>5. /\ ~EndsInQuotes(f)
      /\ Table(f) = IF Table(before) = NoFile THEN << Names(s) >> ELSE Table(before)
  <2>1. CASE f = before
    BY <2>1, TableIsContent
  <2>2. CASE before = NoFile /\ stmt.cols # <<>> /\ f = Line(SchemaNames)
    <3>1. ~EndsInQuotes(f) /\ Table(f) = << Names(s) >>
      BY <1>1, <1>2, <2>2, HeaderReads
    <3>2. Table(before) = NoFile
      BY <2>2 DEF Table
    <3> QED
      BY <3>1, <3>2
  <2> QED
    BY <1>3, <2>1, <2>2 DEF Base
<1>6. AppendedFile(s, Table(before), StrStmt(RowStored(s))) = Append(Table(f), row)
  <2>1. AppendedFile(s, Table(before), StrStmt(RowStored(s)))
          = Append(IF Table(before) = NoFile THEN << Names(s) >> ELSE Table(before), row)
    BY <1>1, <1>4, FileGrown
  <2> QED
    BY <1>5, <2>1
<1>7. /\ cs \in Seq(CellPair) /\ cs # <<>> /\ Visible(cs[1].w)
      /\ Ws(cs) = [i \in DOMAIN vals |-> WriteValue(vals[i], LongMax)]
      /\ StrRow(Shown(Ts(cs))) = row
  BY <1>4, RowOfValues
<1> HIDE DEF vals, row, cs
<1>8. csv = f \o (NewlineIfNeeded(f) \o Line(Ws(cs)))
  BY <1>3, <1>7 DEF RowLine
<1>9. csv \in Bytes
  <2>1. Line(Ws(cs)) \in Bytes
    BY <1>7, CellSteps, LineType
  <2>2. NewlineIfNeeded(f) \in Bytes
    BY SymbolsAssumption DEF NewlineIfNeeded, Bytes
  <2>3. NewlineIfNeeded(f) \o Line(Ws(cs)) \in Bytes
    BY <2>1, <2>2, ConcatProperties DEF Bytes
  <2> QED
    BY <1>8, <2>3, ConcatProperties DEF Bytes
<1>10. Table(csv) = Append(Table(f), row)
  BY <1>5, <1>7, <1>8, <1>9, RowReads
<1> QED
  BY <1>6, <1>10 DEF TableNow

\* In the row stored, the last one, each value stands under the name of the header
\* it was listed for: the header is the schema's, and so is the order of the row.
LEMMA ValuesInPlace ==
  ASSUME AppendInv, Decided, InsertReturned, result = "ok", stmt.cols # <<>>,
         ~EndsInQuotes(before),
         IntegersAreDecimal, ColumnsArePlain(Bytes), StringsAreText(Bytes)
  PROVE  LET header == TableNow[1]
             row    == TableNow[Len(TableNow)]
         IN
           /\ Len(row) = Len(header) /\ Len(stmt.cols) = Len(header)
           /\ \A k \in DOMAIN header : \E i \in DOMAIN stmt.cols :
                header[k] = stmt.cols[i] /\ row[k] = StrValue(ReadIn(k, stmt.vals[i])).text
<1> DEFINE s == SchemaNow
           vals == RowToStore(s, stmt)
           found == IF Table(before) = NoFile THEN << Names(s) >> ELSE Table(before)
           row == [i \in DOMAIN vals |-> StrValue(AsRead(vals)[i]).text]
<1>1. stmt \in Inserts /\ schema \in FileOrNone /\ before \in FileOrNone
  BY ReturnedInsert
<1>2. ListAccepted(s)
  BY DEF Decided, Stored
<1>3. PICK f \in Bytes : Base(f) /\ HeaderAccepted(s, Table(f))
  BY DEF Decided, Stored
<1>4. ~SchemaAbsent(s) /\ MapsToSchema(s, stmt)
  BY <1>2 DEF ListAccepted
<1>5. Len(s) \in Nat /\ Len(s) > 1
  <2>1. schema \in Bytes
    BY <1>1, <1>4 DEF SchemaAbsent, SchemaNow, Table, FileOrNone
  <2> QED
    BY <1>2, <1>4, <2>1, RowsType DEF ListAccepted, SchemaValid, SchemaNow
<1>6. vals = OrderedValues(s, stmt) /\ vals \in Seq(ByteValue)
  BY <1>1, <1>2, <1>3, <1>4, CheckedValues DEF RowToStore
<1> DEFINE w == Len(Names(s))
<1>7. /\ w \in Nat /\ DOMAIN Names(s) = 1 .. w
  BY <1>5 DEF Names
<1>8. /\ Len(stmt.cols) = w /\ Len(stmt.vals) = w /\ ColumnSet(stmt.cols) = ColumnSet(Names(s))
      /\ DOMAIN stmt.cols = 1 .. w /\ DOMAIN stmt.vals = 1 .. w
  <2>1. stmt.cols \in Seq(Text) /\ stmt.vals \in Seq(ByteValue)
    BY <1>1, StatementsAssumption
  <2> QED
    BY <1>4, <2>1 DEF MapsToSchema
<1> HIDE DEF w, s
<1>9. DOMAIN vals = 1 .. w
  BY <1>6, <1>7 DEF OrderedValues
<1>10. TableNow = Append(found, row)
  <2>1. TableNow = AppendedFile(s, Table(before), StrStmt(RowStored(s)))
    BY RowIsReadBack DEF RowReadsBack, s
  <2> QED
    BY <1>1, <1>6, <2>1, FileGrown DEF s
<1>11. /\ \E X : found \in Seq(X)
       /\ Len(found) \in Nat \ {0} /\ found[1] = Names(s)
  <2>1. CASE Table(before) = NoFile
    <3>1. found = << Names(s) >>
      BY <2>1
    <3>2. << Names(s) >> \in Seq({Names(s)}) /\ Len(<< Names(s) >>) = 1
      OBVIOUS
    <3>3. << Names(s) >>[1] = Names(s)
      OBVIOUS
    <3> HIDE DEF found
    <3>4. found \in Seq({Names(s)})
      BY <3>1, <3>2
    <3>5. Len(found) = 1 /\ found[1] = Names(s)
      BY <3>1, <3>2, <3>3
    <3> QED
      BY <3>4, <3>5
  <2>2. CASE Table(before) # NoFile
    <3>1. f = before
      BY <1>3, <2>2 DEF Base, Table
    <3>2. HasHeader(Table(f)) /\ Table(f)[1] = Names(s)
      BY <1>3, <1>4 DEF HeaderAccepted, HeaderMatches
    <3>3. Table(f) \in Seq({RecordOf(raw) : raw \in RawRecord}) /\ Table(f) # <<>>
      BY <3>2, TableOf DEF HasHeader
    <3>4. found = Table(f)
      BY <2>2, <3>1
    <3> HIDE DEF found
    <3> QED
      BY <3>2, <3>3, <3>4, EmptySeq
  <2> QED
    BY <2>1, <2>2
<1> HIDE DEF found
<1>12. Len(row) = w /\ DOMAIN row = 1 .. w
  <2>1. row \in [1 .. w -> {StrValue(AsRead(vals)[i]).text : i \in 1 .. w}]
    BY <1>9
  <2> HIDE DEF row
  <2> QED
    BY <1>7, <2>1, FunctionIsSeq
<1>13. ASSUME NEW k \in 1 .. w
       PROVE  \E i \in DOMAIN stmt.cols :
                Names(s)[k] = stmt.cols[i] /\ row[k] = StrValue(ReadIn(k, stmt.vals[i])).text
  <2> DEFINE i == CHOOSE j \in DOMAIN stmt.vals : stmt.cols[j] = Names(s)[k]
  <2>1. Names(s)[k] \in ColumnSet(stmt.cols)
    BY <1>7, <1>8 DEF ColumnSet
  <2>2. \E j \in DOMAIN stmt.vals : stmt.cols[j] = Names(s)[k]
    BY <1>8, <2>1 DEF ColumnSet
  <2>3. i \in DOMAIN stmt.vals /\ stmt.cols[i] = Names(s)[k]
    BY <2>2
  <2>4. vals[k] = stmt.vals[i]
    BY <1>6, <1>7 DEF OrderedValues
  <2> HIDE DEF i
  <2>5. row[k] = StrValue(ReadIn(k, vals[k])).text
    BY <1>9 DEF AsRead
  <2> QED
    BY <1>8, <2>3, <2>4, <2>5
<1> HIDE DEF row
<1>14. TableNow[1] = Names(s) /\ TableNow[Len(TableNow)] = row
  <2>1. PICK X : found \in Seq(X)
    BY <1>11
  <2>2. found \in Seq(X \cup {row})
    BY <2>1
  <2>3. Len(TableNow) = Len(found) + 1 /\ TableNow[1] = found[1] /\ TableNow[Len(found) + 1] = row
    BY <1>10, <1>11, <2>2, AppendProperties
  <2> QED
    BY <1>11, <2>3
<1> QED
  BY <1>7, <1>8, <1>12, <1>13, <1>14 DEF w

----------------------------------------------------------------------------
(***************************************************************************)
(* What a SELECT that has returned has printed.                            *)
(***************************************************************************)
RowsPrinted == IF SelectChecks(SchemaNow, TableNow, stmt) THEN GoodRows(TableNow) ELSE 0

Selected ==
  Returned /\ stmt.kind = "SELECT" =>
    /\ shown = FlattenSeq(PrintedLines(SchemaNow, RowsNow, RowsPrinted, stmt))
    /\ result = "ok" <=> RowsPrinted > 0 /\ RowsPrinted = Len(TableNow)

LEMMA SelectCallPrints ==
  ASSUME SelectCall
  PROVE  Selected'
<1> SUFFICES ASSUME Returned', stmt'.kind = "SELECT"
             PROVE  /\ shown' = FlattenSeq(PrintedLines(SchemaNow, RowsNow, RowsPrinted, stmt))'
                    /\ result' = "ok" <=> (RowsPrinted > 0 /\ RowsPrinted = Len(TableNow))'
  BY DEF Selected
<1>1. PICK st \in Selects :
        /\ Begin(st)
        /\ \E s \in {SchemaNow}, rows \in {RowsNow}, c \in {TableNow} :
             \E n \in {IF SelectChecks(s, c, st) THEN GoodRows(c) ELSE 0} :
               /\ shown' = FlattenSeq(PrintedLines(s, rows, n, st))
               /\ \/ SchemaCrashes(s) /\ at' = "died" /\ result' = "none"
                  \/ /\ ~SchemaCrashes(s) /\ at' = "idle"
                     /\ result' = IF n > 0 /\ n = Len(c) THEN "ok" ELSE "failed"
  BY DEF SelectCall
<1>2. stmt' = st /\ schema' = schema /\ csv' = csv
  BY <1>1 DEF Begin, files
<1> DEFINE n == IF SelectChecks(SchemaNow, TableNow, st) THEN GoodRows(TableNow) ELSE 0
<1>3. /\ shown' = FlattenSeq(PrintedLines(SchemaNow, RowsNow, n, st))
      /\ \/ at' = "died"
         \/ result' = IF n > 0 /\ n = Len(TableNow) THEN "ok" ELSE "failed"
  BY <1>1
<1>4. at' = "idle"
  BY DEF Returned
<1>5. SchemaNow' = SchemaNow /\ TableNow' = TableNow /\ RowsNow' = RowsNow
  BY <1>2 DEF SchemaNow, TableNow, RowsNow, Table
<1>6. RowsPrinted' = n
  BY <1>2, <1>5 DEF RowsPrinted
<1> HIDE DEF n
<1>7. PrintedLines(SchemaNow, RowsNow, RowsPrinted, stmt)' = PrintedLines(SchemaNow, RowsNow, n, st)
  BY <1>2, <1>5, <1>6 DEF PrintedLines, CopiedLine, ProjectedLine
<1> QED
  BY <1>3, <1>4, <1>5, <1>6, <1>7

LEMMA StillSelected ==
  ASSUME Selected, UNCHANGED vars
  PROVE  Selected'
<1>1. /\ schema' = schema /\ csv' = csv /\ stmt' = stmt /\ at' = at
      /\ shown' = shown /\ result' = result
  BY DEF vars
<1>2. SchemaNow' = SchemaNow /\ TableNow' = TableNow /\ RowsNow' = RowsNow
  BY <1>1 DEF SchemaNow, TableNow, RowsNow, Table
<1>3. RowsPrinted' = RowsPrinted
  BY <1>1, <1>2 DEF RowsPrinted
<1>4. PrintedLines(SchemaNow, RowsNow, RowsPrinted, stmt)'
        = PrintedLines(SchemaNow, RowsNow, RowsPrinted, stmt)
  BY <1>1, <1>2, <1>3 DEF PrintedLines, CopiedLine, ProjectedLine
<1>5. Returned' = Returned
  BY <1>1 DEF Returned
<1> QED
  BY <1>1, <1>2, <1>3, <1>4, <1>5 DEF Selected

LEMMA SelectedSound == Spec => []Selected
<1>1. Init => Selected
  BY DEF Init, Selected, Returned
<1>2. AppendInv /\ Selected /\ [Next]_vars => Selected'
  <2> SUFFICES ASSUME AppendInv, Selected, [Next]_vars PROVE Selected'
    OBVIOUS
  <2>1. CASE SelectCall
    BY <2>1, SelectCallPrints
  <2>2. CASE AppendCall
    BY <2>2 DEF AppendCall, Selected, Returned
  <2>3. CASE /\ at \in {"schema", "exists", "create", "header", "reopen", "append", "cleanup"}
             /\ UNCHANGED call
    <3>1. stmt' = stmt /\ stmt \in Inserts
      BY <2>3 DEF AppendInv, Checked, call
    <3>2. stmt'.kind # "SELECT"
      BY <3>1, StatementsAssumption
    <3> QED
      BY <3>2 DEF Selected
  <2>4. CASE UNCHANGED vars
    BY <2>4, StillSelected
  <2> QED
    BY <2>1, <2>2, <2>3, <2>4
       DEF Next, Done, LoadSchema, CheckExists, CreateCsv, CheckHeader, Reopen, AppendBytes,
           CleanupCreated
<1> QED
  BY <1>1, <1>2, AppendSound, PTL DEF Spec

\* The first rows of a table.
LEMMA FirstRowsAre ==
  ASSUME NEW c, NEW n \in Nat
  PROVE  /\ Len(FirstRows(n, c)) = n /\ DOMAIN FirstRows(n, c) = 1 .. n
         /\ \A k \in 1 .. n : FirstRows(n, c)[k] = c[k]
         /\ RowsMatchHeader(FirstRows(n, c)) <=> \A k \in 2 .. n : Len(c[k]) = Len(c[1])
<1> DEFINE X == {c[k] : k \in 1 .. n}
<1>1. FirstRows(n, c) \in [1 .. n -> X]
  BY DEF FirstRows
<1>2. Len(FirstRows(n, c)) = n
  BY <1>1, FunctionIsSeq
<1>3. \A k \in 1 .. n : FirstRows(n, c)[k] = c[k]
  BY DEF FirstRows
<1>4. ASSUME NEW k \in 2 .. n
      PROVE  Len(FirstRows(n, c)[k]) = Len(c[k]) /\ Len(FirstRows(n, c)[1]) = Len(c[1])
  BY <1>3
<1> QED
  BY <1>1, <1>2, <1>3, <1>4 DEF RowsMatchHeader

\* The rows printed are those before the first without the header's fields.
LEMMA GoodRowsAre ==
  ASSUME NEW c, Len(c) \in Nat \ {0}
  PROVE  /\ GoodRows(c) \in 1 .. Len(c)
         /\ \A k \in 2 .. GoodRows(c) : Len(c[k]) = Len(c[1])
         /\ GoodRows(c) # Len(c) => Len(c[GoodRows(c) + 1]) # Len(c[1])
         /\ GoodRows(c) = Len(c) <=> RowsMatchHeader(c)
<1> DEFINE bad == {k \in 2 .. Len(c) : Len(c[k]) # Len(c[1])}
<1>1. RowsMatchHeader(c) <=> bad = {}
  BY DEF RowsMatchHeader
<1>2. GoodRows(c) = IF bad = {} THEN Len(c) ELSE Min(bad) - 1
  BY DEF GoodRows
<1>3. bad \subseteq 2 .. Len(c) /\ bad \subseteq Nat
  OBVIOUS
<1>4. \A k \in 2 .. Len(c) : k \notin bad => Len(c[k]) = Len(c[1])
  OBVIOUS
<1>5. \A k \in bad : Len(c[k]) # Len(c[1])
  OBVIOUS
<1> HIDE DEF bad
<1>6. bad # {} => Min(bad) \in bad /\ \A k \in bad : Min(bad) <= k
  BY <1>3, LeastMember
<1>7. CASE bad = {}
  BY <1>1, <1>2, <1>4, <1>7
<1>8. CASE bad # {}
  <2> DEFINE least == Min(bad)
  <2>1. least \in 2 .. Len(c) /\ least \in bad /\ \A k \in bad : least <= k
    BY <1>3, <1>6, <1>8
  <2> HIDE DEF least
  <2>2. GoodRows(c) = least - 1
    BY <1>2, <1>8 DEF least
  <2>3. \A k \in 2 .. (least - 1) : k \in 2 .. Len(c) /\ k \notin bad
    BY <2>1
  <2> QED
    BY <1>1, <1>4, <1>5, <1>8, <2>1, <2>2, <2>3
<1> QED
  BY <1>7, <1>8

LEMMA SelectDecides ==
  ASSUME AppendInv, Selected, Returned, stmt.kind = "SELECT"
  PROVE  /\ result = "ok" <=> SelectAccepts(SchemaNow, TableNow, stmt)
         /\ result = "ok" <=> RowsPrinted > 0 /\ RowsPrinted = Len(TableNow)
         /\ shown = FlattenSeq(PrintedLines(SchemaNow, RowsNow, RowsPrinted, stmt))
         /\ RowsPrinted # 0 =>
              /\ SelectChecks(SchemaNow, TableNow, stmt) /\ csv \in Bytes
              /\ RowsPrinted \in 1 .. Len(TableNow)
              /\ RowsMatchHeader(FirstRows(RowsPrinted, TableNow))
              /\ RowsPrinted # Len(TableNow) =>
                   Len(TableNow[RowsPrinted + 1]) # Len(TableNow[1])
<1> DEFINE s == SchemaNow
           c == TableNow
<1>1. SelectAccepts(s, c, stmt) <=> SelectChecks(s, c, stmt) /\ RowsMatchHeader(c)
  BY DEF SelectAccepts, SelectChecks
<1>2. ASSUME SelectChecks(s, c, stmt)
      PROVE  Len(c) \in Nat \ {0} /\ csv \in Bytes
  <2>1. c # NoFile /\ c # <<>>
    BY <1>2 DEF SelectChecks, HasHeader
  <2>2. csv \in Bytes
    BY <2>1 DEF TableNow, Table, AppendInv, FilesAreBytes, FileOrNone
  <2> QED
    BY <2>1, <2>2, TableOf, EmptySeq DEF TableNow
<1>3. result = "ok" <=> RowsPrinted > 0 /\ RowsPrinted = Len(c)
  BY DEF Selected
<1>4. shown = FlattenSeq(PrintedLines(s, RowsNow, RowsPrinted, stmt))
  BY DEF Selected
<1>5. RowsPrinted = IF SelectChecks(s, c, stmt) THEN GoodRows(c) ELSE 0
  BY DEF RowsPrinted
<1> HIDE DEF s, c
<1>6. ASSUME SelectChecks(s, c, stmt)
      PROVE  /\ RowsPrinted \in 1 .. Len(c)
             /\ RowsMatchHeader(FirstRows(RowsPrinted, c))
             /\ RowsPrinted # Len(c) => Len(c[RowsPrinted + 1]) # Len(c[1])
             /\ RowsPrinted = Len(c) <=> RowsMatchHeader(c)
  <2>1. RowsPrinted = GoodRows(c) /\ Len(c) \in Nat \ {0}
    BY <1>2, <1>5, <1>6
  <2>2. RowsPrinted \in 1 .. Len(c) /\ RowsPrinted \in Nat
    BY <2>1, GoodRowsAre
  <2> QED
    BY <2>1, <2>2, GoodRowsAre, FirstRowsAre
<1>7. result = "ok" <=> SelectAccepts(s, c, stmt)
  BY <1>1, <1>2, <1>3, <1>5, <1>6
<1>8. RowsPrinted # 0 => SelectChecks(s, c, stmt)
  BY <1>5
<1> QED
  BY <1>2, <1>3, <1>4, <1>6, <1>7, <1>8 DEF s, c

\* The file read, record by record, as far as the records are as wide as the
\* header.
LEMMA RowsAre ==
  ASSUME NEW f \in Bytes, NEW n \in 1 .. Len(Table(f)), HasHeader(Table(f)),
         RowsMatchHeader(FirstRows(n, Table(f)))
  PROVE  /\ Len(Table(f)) \in Nat \ {0} /\ Len(RawRecords(f)) = Len(Table(f)) /\ n \in Nat \ {0}
         /\ Rows(f) \in Seq(Seq(Bytes)) /\ Len(Rows(f)) = Len(Table(f))
         /\ FirstRows(n, Table(f)) = [k \in 1 .. n |-> StrRow(Rows(f)[k])]
         /\ \A k \in 1 .. n :
              /\ k \in 1 .. Len(Table(f)) /\ Table(f)[k] = StrRow(Rows(f)[k])
              /\ ~RawRecords(f)[k].open
              /\ Rows(f)[k] = Fields(RawRecords(f)[k].text)
              /\ Len(Rows(f)[k]) = Len(Rows(f)[1])
<1> DEFINE c == Table(f)
           rows == Rows(f)
           raw == RawRecords(f)
<1>1. /\ rows \in Seq(Seq(Bytes)) /\ Len(rows) = Len(c) /\ Len(c) \in Nat
      /\ \A k \in 1 .. Len(c) : Len(c[k]) = Len(rows[k])
      /\ Len(c) = Len(raw)
      /\ c \in Seq({RecordOf(x) : x \in RawRecord})
  BY RowsType, TableOf
<1>2. n \in Nat \ {0} /\ Len(c) \in Nat \ {0} /\ \A k \in 1 .. n : k \in 1 .. Len(c)
  BY <1>1
<1>3. DOMAIN raw = 1 .. Len(c) /\ DOMAIN rows = 1 .. Len(c)
  <2>1. raw \in Seq(RawRecord)
    <3>1. 1 \in Positions(f)
      BY DEF Positions, Bytes
    <3> QED
      BY <3>1, RawSteps
  <2> QED
    BY <1>1, <2>1
<1>4. \A k \in 1 .. Len(c) : c[k] = StrRow(rows[k])
  <2>1. c = [k \in DOMAIN rows |-> StrRow(rows[k])]
    BY FilesAssumption DEF Table
  <2> HIDE DEF c, rows, raw
  <2> QED
    BY <1>3, <2>1
<1>5. \A k \in 1 .. Len(c) : rows[k] = IF raw[k].open THEN <<>> ELSE Fields(raw[k].text)
  <2>1. rows = [k \in DOMAIN raw |-> IF raw[k].open THEN <<>> ELSE Fields(raw[k].text)]
    BY DEF Rows
  <2> HIDE DEF c, rows, raw
  <2> QED
    BY <1>3, <2>1
<1>6. ASSUME NEW k \in 1 .. n
      PROVE  Len(rows[k]) = Len(rows[1]) /\ Len(rows[k]) \in Nat \ {0}
  <2>1. Len(c[1]) \in Nat \ {0}
    BY FieldsThere
  <2>2. Len(c[k]) = Len(c[1])
    <3>1. CASE k = 1
      BY <3>1
    <3>2. CASE k # 1
      <4>1. k \in 2 .. n
        BY <1>2, <3>2
      <4> QED
        BY <1>2, <4>1, FirstRowsAre
    <3> QED
      BY <3>1, <3>2
  <2>3. 1 \in 1 .. Len(c) /\ k \in 1 .. Len(c)
    BY <1>2
  <2> QED
    BY <1>1, <2>1, <2>2, <2>3
<1>7. \A k \in 1 .. n : ~raw[k].open /\ rows[k] = Fields(raw[k].text)
  <2> HIDE DEF c, rows, raw
  <2>1. Len(<<>>) = 0
    OBVIOUS
  <2> QED
    BY <1>2, <1>5, <1>6, <2>1
<1>8. FirstRows(n, c) = [k \in 1 .. n |-> StrRow(rows[k])]
  <2> HIDE DEF c, rows, raw
  <2> QED
    BY <1>2, <1>4 DEF FirstRows
<1> QED
  BY <1>1, <1>2, <1>4, <1>6, <1>7, <1>8

\* Lines that read as the rows of a table are the table.
LEMMA LinesAre ==
  ASSUME NEW us \in Seq(ClosedText), NEW T, T = [k \in 1 .. Len(us) |-> StrRow(Fields(us[k]))]
  PROVE  Table(Lines(us)) = T
<1> DEFINE g == Lines(us)
<1>1. /\ Len(Table(g)) = Len(us) /\ \A k \in 1 .. Len(us) : Table(g)[k] = StrRow(Fields(us[k]))
      /\ \E X : Table(g) \in Seq(X)
  BY LinesRead
<1> HIDE DEF g
<1>2. PICK X : Table(g) \in Seq(X)
  BY <1>1
<1>3. Table(g) = [k \in 1 .. Len(Table(g)) |-> Table(g)[k]]
  BY <1>2
<1> QED
  BY <1>1, <1>3 DEF g

\* No line reads as no record.
LEMMA NothingPrinted ==
  ASSUME NEW s, NEW rows, NEW st, NEW c
  PROVE  Table(FlattenSeq(PrintedLines(s, rows, 0, st))) = SelectOutput(s, FirstRows(0, c), st)
<1>1. PrintedLines(s, rows, 0, st) = <<>>
  BY DEF PrintedLines
<1>2. <<>> = [k \in DOMAIN <<>> |-> Append(<<>>[k], LF)]
  OBVIOUS
<1>3. <<>> \in Seq(ClosedText) /\ <<>> = [k \in 1 .. Len(<<>>) |-> StrRow(Fields(<<>>[k]))]
  OBVIOUS
<1>4. Table(Lines(<<>>)) = <<>>
  BY <1>3, LinesAre
<1>5. FirstRows(0, c) = <<>>
  BY DEF FirstRows
<1>6. SelectOutput(s, <<>>, st) = <<>>
  BY DEF SelectOutput
<1> QED
  BY <1>1, <1>2, <1>4, <1>5, <1>6 DEF Lines

\* Records copied as they are, each with a line end of its own, read as they did
\* in the file (copy_stream_validated).
LEMMA CopiedTable ==
  ASSUME csv \in Bytes, NEW n \in 1 .. Len(TableNow), HasHeader(TableNow),
         RowsMatchHeader(FirstRows(n, TableNow))
  PROVE  Table(FlattenSeq([k \in 1 .. n |-> CopiedLine(k)])) = FirstRows(n, TableNow)
<1> DEFINE us == [k \in 1 .. n |-> RawRecords(csv)[k].text]
<1>1. /\ n \in Nat \ {0} /\ Len(RawRecords(csv)) = Len(TableNow)
      /\ FirstRows(n, TableNow) = [k \in 1 .. n |-> StrRow(Rows(csv)[k])]
      /\ \A k \in 1 .. n :
           /\ k \in 1 .. Len(TableNow)
           /\ ~RawRecords(csv)[k].open /\ Rows(csv)[k] = Fields(RawRecords(csv)[k].text)
  BY RowsAre DEF TableNow
<1>2. us \in [1 .. n -> ClosedText]
  BY <1>1, RecordsClosed
<1>3. us \in Seq(ClosedText) /\ Len(us) = n
  BY <1>1, <1>2, FunctionIsSeq
<1>4. FirstRows(n, TableNow) = [k \in 1 .. Len(us) |-> StrRow(Fields(us[k]))]
  <2>1. \A k \in 1 .. n : StrRow(Rows(csv)[k]) = StrRow(Fields(us[k]))
    BY <1>1
  <2> HIDE DEF us
  <2>2. [k \in 1 .. n |-> StrRow(Rows(csv)[k])] = [k \in 1 .. n |-> StrRow(Fields(us[k]))]
    BY <2>1
  <2> QED
    BY <1>1, <1>3, <2>2
<1>5. [k \in 1 .. n |-> CopiedLine(k)] = [k \in DOMAIN us |-> Append(us[k], LF)]
  BY DEF CopiedLine
<1> HIDE DEF us
<1> QED
  BY <1>3, <1>4, <1>5, LinesAre DEF Lines

----------------------------------------------------------------------------
(***************************************************************************)
(* A projection.                                                           *)
(***************************************************************************)
Source(i)  == CHOOSE j \in DOMAIN Names(SchemaNow) : Names(SchemaNow)[j] = stmt.cols[i]
Field(k, i) == RowsNow[k][Source(i)]

\* The column as write_projection_row writes it.
Printed(k, i) ==
  IF k > 1 /\ Types(SchemaNow)[Source(i)] = "STRING" THEN WriteString(Field(k, i)) ELSE Field(k, i)

RowCells(k) == [i \in DOMAIN stmt.cols |-> [w |-> Printed(k, i), t |-> Field(k, i)]]

\* What a projection has checked when it has printed n rows, whose integers are
\* plain and whose fields start with no mark.
Projects(n) ==
  /\ schema \in FileOrNone /\ csv \in Bytes /\ stmt \in Selects
  /\ SchemaValid(SchemaNow) /\ HeaderMatches(SchemaNow, TableNow)
  /\ SelectsKnownColumns(SchemaNow, stmt)
  /\ n \in 1 .. Len(TableNow) /\ RowsMatchHeader(FirstRows(n, TableNow))
  /\ PlainIntegers(SchemaNow, FirstRows(n, RowsNow)) /\ NoMarks(FirstRows(n, RowsNow))

\* The columns selected are there in every row printed.
LEMMA SourcesThere ==
  ASSUME NEW n, Projects(n)
  PROVE  /\ stmt.cols \in Seq(Text) /\ stmt.cols # <<>> /\ RowsNow = Rows(csv)
         /\ \A i \in DOMAIN stmt.cols :
              /\ Source(i) \in DOMAIN Names(SchemaNow) /\ Source(i) \in DOMAIN Types(SchemaNow)
              /\ Names(SchemaNow)[Source(i)] = stmt.cols[i]
              /\ Types(SchemaNow)[Source(i)] \in {"INT", "STRING"}
         /\ \A k \in 1 .. n :
              RowsNow[k] \in Seq(Bytes) /\ DOMAIN RowsNow[k] = DOMAIN Names(SchemaNow)
         /\ Names(SchemaNow) = StrRow(RowsNow[1])
<1> DEFINE s == SchemaNow
           rows == Rows(csv)
<1>1. stmt.cols \in Seq(Text) /\ stmt.cols # <<>> /\ RowsNow = rows
  BY StatementsAssumption, FilesAssumption DEF Projects, SelectsKnownColumns, RowsNow
<1>2. /\ Len(TableNow) \in Nat \ {0} /\ n \in Nat \ {0}
      /\ rows \in Seq(Seq(Bytes)) /\ Len(rows) = Len(TableNow)
      /\ \A k \in 1 .. n :
           /\ k \in 1 .. Len(TableNow) /\ TableNow[k] = StrRow(rows[k])
           /\ Len(rows[k]) = Len(rows[1])
  BY RowsAre DEF Projects, TableNow, HeaderMatches
<1>3. TableNow[1] = Names(s)
  BY DEF Projects, HeaderMatches
<1>4. 1 \in 1 .. n /\ 1 \in 1 .. Len(TableNow)
  BY <1>2
<1>5. Names(s) = StrRow(rows[1])
  BY <1>2, <1>3, <1>4
<1>6. DOMAIN Names(s) = DOMAIN rows[1] /\ rows[1] \in Seq(Bytes)
  BY <1>2, <1>4, <1>5 DEF StrRow
<1> HIDE DEF rows
<1>7. ASSUME NEW k \in 1 .. n
      PROVE  rows[k] \in Seq(Bytes) /\ DOMAIN rows[k] = DOMAIN Names(s)
  <2>1. rows[k] \in Seq(Bytes) /\ Len(rows[k]) = Len(rows[1])
    BY <1>2
  <2>2. DOMAIN rows[k] = 1 .. Len(rows[k]) /\ DOMAIN rows[1] = 1 .. Len(rows[1])
    BY <1>6, <2>1
  <2> QED
    BY <1>6, <2>1, <2>2
<1>8. /\ DOMAIN Types(s) = DOMAIN Names(s)
      /\ \A j \in DOMAIN Types(s) : Types(s)[j] \in {"INT", "STRING"}
  BY DEF Types, Names, ColumnType
<1>9. ASSUME NEW i \in DOMAIN stmt.cols
      PROVE  Source(i) \in DOMAIN Names(s) /\ Names(s)[Source(i)] = stmt.cols[i]
  <2>1. ColumnSet(stmt.cols) \subseteq ColumnSet(Names(s))
    BY DEF Projects, SelectsKnownColumns
  <2>2. \E j \in DOMAIN Names(s) : Names(s)[j] = stmt.cols[i]
    BY <2>1 DEF ColumnSet
  <2> QED
    BY <2>2 DEF Source
<1> QED
  BY <1>1, <1>5, <1>7, <1>8, <1>9 DEF s, rows

\* What is printed for a field is a cell: a column list holds identifiers, a text
\* is quoted anew, and an integer is plain.
LEMMA PrintedIsCell ==
  ASSUME NEW n, Projects(n), ColumnsArePlain(Bytes), NEW k \in 1 .. n, NEW i \in DOMAIN stmt.cols
  PROVE  /\ Printed(k, i) \in Bytes /\ Field(k, i) \in Bytes /\ Cell(Printed(k, i), Field(k, i))
         /\ StripBom(Field(k, i)) = Field(k, i)
<1> DEFINE j == Source(i)
           t == Field(k, i)
<1>1. /\ j \in DOMAIN Names(SchemaNow) /\ j \in DOMAIN Types(SchemaNow)
      /\ Names(SchemaNow)[j] = stmt.cols[i] /\ Types(SchemaNow)[j] \in {"INT", "STRING"}
      /\ RowsNow[k] \in Seq(Bytes) /\ DOMAIN RowsNow[k] = DOMAIN Names(SchemaNow)
      /\ Names(SchemaNow) = StrRow(RowsNow[1]) /\ RowsNow = Rows(csv)
  BY SourcesThere
<1>2. t = RowsNow[k][j] /\ t \in Bytes
  <2>1. j \in DOMAIN RowsNow[k] /\ RowsNow[k][j] \in Bytes
    <3> HIDE DEF j
    <3> QED
      BY <1>1
  <2> QED
    BY <2>1 DEF Field
<1>3. n \in Nat /\ DOMAIN FirstRows(n, RowsNow) = 1 .. n /\ Len(FirstRows(n, RowsNow)) = n
      /\ FirstRows(n, RowsNow)[k] = RowsNow[k]
  <2>1. n \in Nat
    BY RowsType DEF Projects, TableNow
  <2> QED
    BY <2>1, FirstRowsAre
<1>4. StripBom(t) = t
  <2>1. RowsNow[k] \in ToSet(FirstRows(n, RowsNow))
    BY <1>3 DEF ToSet
  <2>2. \A m \in DOMAIN RowsNow[k] : StripBom(RowsNow[k][m]) = RowsNow[k][m]
    BY <2>1 DEF Projects, NoMarks
  <2> HIDE DEF j, t
  <2> QED
    BY <1>1, <1>2, <2>2
<1>5. Printed(k, i) = IF k > 1 /\ Types(SchemaNow)[j] = "STRING" THEN WriteString(t) ELSE t
  BY DEF Printed
<1> HIDE DEF j, t
<1>6. CASE k > 1 /\ Types(SchemaNow)[j] = "STRING"
  BY <1>2, <1>4, <1>5, <1>6, QuotedCell DEF Cell, t
<1>7. CASE ~(k > 1 /\ Types(SchemaNow)[j] = "STRING")
  <2>1. IsPlain(t)
    <3>1. ToSet(t) \cap Special = {}
      <4>1. CASE k = 1
        <5>1. Str(t) = stmt.cols[i]
          BY <1>1, <1>2, <4>1 DEF StrRow
        <5>2. ToSet(t) \cap (Special \cup {Bom}) = {}
          BY <1>2, <5>1 DEF ColumnsArePlain, Projects
        <5> QED
          BY <5>2
      <4>2. CASE k # 1
        <5>1. k \in 2 .. Len(FirstRows(n, RowsNow)) /\ Types(SchemaNow)[j] = "INT"
          BY <1>1, <1>3, <1>7, <4>2
        <5>2. ToSet(FirstRows(n, RowsNow)[k][j]) \cap Special = {}
          BY <1>1, <5>1 DEF Projects, PlainIntegers
        <5> QED
          BY <1>2, <1>3, <5>2
      <4> QED
        BY <4>1, <4>2
    <3>2. \A m \in DOMAIN t : t[m] \notin Special
      BY <3>1 DEF ToSet
    <3>3. DOMAIN t = 1 .. Len(t)
      BY <1>2 DEF Bytes
    <3> QED
      BY <3>2, <3>3 DEF IsPlain, Special
  <2>2. Cell(t, t)
    BY <1>2, <2>1, PlainCell, EmptyCell
  <2> QED
    BY <1>2, <1>4, <1>5, <1>7, <2>2 DEF t
<1> QED
  BY <1>6, <1>7

\* A printed row is read as one record, the selected fields.
LEMMA ProjectedRow ==
  ASSUME NEW n, Projects(n), ColumnsArePlain(Bytes), NEW k \in 1 .. n
  PROVE  /\ Joined(Ws(RowCells(k))) \in ClosedText
         /\ ProjectedLine(SchemaNow, RowsNow, k, stmt.cols) = Append(Joined(Ws(RowCells(k))), LF)
         /\ StrRow(Fields(Joined(Ws(RowCells(k))))) = Project(SchemaNow, TableNow[k], stmt.cols)
<1> DEFINE cs == RowCells(k)
           w == Len(stmt.cols)
<1>1. /\ stmt.cols \in Seq(Text) /\ stmt.cols # <<>> /\ RowsNow = Rows(csv)
      /\ RowsNow[k] \in Seq(Bytes) /\ DOMAIN RowsNow[k] = DOMAIN Names(SchemaNow)
      /\ \A i \in DOMAIN stmt.cols : Source(i) \in DOMAIN Names(SchemaNow)
  BY SourcesThere
<1>2. w \in Nat \ {0} /\ DOMAIN stmt.cols = 1 .. w
  BY <1>1, EmptySeq
<1>3. \A i \in 1 .. w : /\ Printed(k, i) \in Bytes /\ Field(k, i) \in Bytes
                        /\ Cell(Printed(k, i), Field(k, i)) /\ StripBom(Field(k, i)) = Field(k, i)
  BY <1>2, PrintedIsCell
<1> HIDE DEF w
<1>4. cs \in [1 .. w -> CellPair]
  BY <1>2, <1>3 DEF RowCells, CellPair
<1>5. \A i \in 1 .. w : cs[i].w = Printed(k, i) /\ cs[i].t = Field(k, i)
  BY <1>2 DEF RowCells
<1> HIDE DEF cs
<1>6. cs \in Seq(CellPair) /\ Len(cs) = w /\ DOMAIN cs = 1 .. w /\ cs # <<>>
  BY <1>2, <1>4, FunctionIsSeq
<1>7. Ws(cs) = [i \in DOMAIN stmt.cols |-> Printed(k, i)]
  BY <1>2, <1>5, <1>6 DEF Ws
<1>8. Joined(Ws(cs)) \in Bytes
  BY <1>6, CellSteps, JoinedSteps
<1>9. Joined(Ws(cs)) \in ClosedText
  BY <1>6, <1>8, JoinedPassed, PassedIsClosed DEF ClosedText
<1>10. ProjectedLine(SchemaNow, RowsNow, k, stmt.cols) = Append(Joined(Ws(cs)), LF)
  <2>1. ProjectedLine(SchemaNow, RowsNow, k, stmt.cols)
          = Line([i \in DOMAIN stmt.cols |-> Printed(k, i)])
    BY DEF ProjectedLine, Printed, Field, Source
  <2> QED
    BY <1>7, <1>8, <2>1, LineIs DEF Line
<1>11. Fields(Joined(Ws(cs))) = [i \in 1 .. w |-> Field(k, i)]
  <2>1. Fields(Joined(Ws(cs))) = Shown(Ts(cs))
    BY <1>6, RowRead
  <2>2. Ts(cs) = [i \in 1 .. w |-> Field(k, i)]
    BY <1>5, <1>6 DEF Ts
  <2>3. \A i \in 1 .. w : Unmarked(i, Field(k, i)) = Field(k, i)
    BY <1>3 DEF Unmarked
  <2> QED
    BY <2>1, <2>2, <2>3 DEF Shown
<1>12. StrRow(Fields(Joined(Ws(cs)))) = [i \in 1 .. w |-> Str(Field(k, i))]
  BY <1>11 DEF StrRow
<1>13. Project(SchemaNow, TableNow[k], stmt.cols) = [i \in 1 .. w |-> Str(Field(k, i))]
  <2>1. TableNow[k] = StrRow(RowsNow[k])
    BY <1>1, RowsAre DEF Projects, TableNow, HeaderMatches
  <2>2. \A i \in 1 .. w : StrRow(RowsNow[k])[Source(i)] = Str(Field(k, i))
    BY <1>1, <1>2 DEF StrRow, Field
  <2>3. Project(SchemaNow, TableNow[k], stmt.cols) = [i \in 1 .. w |-> TableNow[k][Source(i)]]
    BY <1>2 DEF Project, Source
  <2> QED
    BY <2>1, <2>2, <2>3
<1> QED
  BY <1>9, <1>10, <1>12, <1>13 DEF cs

LEMMA ProjectedTable ==
  ASSUME NEW n, Projects(n), ColumnsArePlain(Bytes)
  PROVE  Table(FlattenSeq([k \in 1 .. n |-> ProjectedLine(SchemaNow, RowsNow, k, stmt.cols)]))
           = [k \in DOMAIN FirstRows(n, TableNow) |->
                Project(SchemaNow, FirstRows(n, TableNow)[k], stmt.cols)]
<1> DEFINE us == [k \in 1 .. n |-> Joined(Ws(RowCells(k)))]
           T == [k \in 1 .. n |-> Project(SchemaNow, TableNow[k], stmt.cols)]
           lines == [k \in 1 .. n |-> ProjectedLine(SchemaNow, RowsNow, k, stmt.cols)]
<1>1. n \in Nat
  BY RowsAre DEF Projects, TableNow, HeaderMatches
<1>2. [k \in DOMAIN FirstRows(n, TableNow) |-> Project(SchemaNow, FirstRows(n, TableNow)[k], stmt.cols)]
        = T
  BY DEF FirstRows
<1>3. us \in [1 .. n -> ClosedText]
  BY ProjectedRow
<1>4. us \in Seq(ClosedText) /\ Len(us) = n
  BY <1>1, <1>3, FunctionIsSeq
<1>5. T = [k \in 1 .. Len(us) |-> StrRow(Fields(us[k]))]
  BY <1>4, ProjectedRow
<1>6. lines = [k \in DOMAIN us |-> Append(us[k], LF)]
  BY ProjectedRow
<1> HIDE DEF us, T, lines
<1>7. Table(FlattenSeq(lines)) = T
  BY <1>4, <1>5, <1>6, LinesAre DEF Lines
<1> QED
  BY <1>2, <1>7 DEF lines

----------------------------------------------------------------------------
(***************************************************************************)
(* The theorems.                                                           *)
(***************************************************************************)
\* Every variable keeps its type, and from the header check on there is a file
\* to append to.
THEOREM AppendTypes == Spec => []TypeOK
<1>1. AppendInv => TypeOK
  BY DEF AppendInv
<1> QED
  BY <1>1, AppendSound, PTL

\* Whatever the table's file holds, its records are cut at the line ends outside
\* quotes and nowhere else, no other character is lost, and the last record is
\* unterminated exactly when its quotes are odd (read_csv_record).
THEOREM EveryQuoteIsCounted == Spec => []ReaderCountsQuotes
<1>1. AppendInv => ReaderCountsQuotes
  <2> SUFFICES ASSUME AppendInv, csv # NoFile
               PROVE  \A raw \in {RawRecords(csv)}, breaks \in {Breaks(csv)} :
                        LET kept == [i \in DOMAIN csv |-> IF i \in breaks THEN <<>> ELSE <<csv[i]>>]
                            rest == IF csv = <<>> \/ Len(csv) \in breaks THEN 0 ELSE 1
                        IN
                          /\ FlattenSeq([k \in DOMAIN raw |-> raw[k].text]) = FlattenSeq(kept)
                          /\ Len(raw) = Cardinality(Ends(csv)) + rest
                          /\ \A k \in DOMAIN raw : raw[k].open <=> ~IsEven(QuotesIn(raw[k].text))
    BY DEF ReaderCountsQuotes
  <2>1. csv \in Bytes
    BY DEF AppendInv, FilesAreBytes, FileOrNone
  <2> QED
    BY <2>1, FileCounts
<1> QED
  BY <1>1, AppendSound, PTL

\* A table a failed INSERT has created is removed again, whichever later step
\* failed (cleanup_created_csv).
THEOREM CreatedTableGoes == Spec => []CreatedTableIsRemoved
<1>1. AppendInv => CreatedTableIsRemoved
  BY DEF AppendInv
<1> QED
  BY <1>1, AppendSound, PTL

\* An INSERT that fails, at whatever point and after whatever part of its row,
\* loses no record that was there (append_newline_if_needed, read_csv_record).
THEOREM FailedInsertLosesNoRecord == Spec => []FailedAppendKeepsRecords
<1>1. AppendInv => FailedAppendKeepsRecords
  <2> SUFFICES ASSUME AppendInv, InsertReturned, result = "failed", before # NoFile,
                      ~EndsInQuotes(before)
               PROVE  csv # NoFile /\ IsPrefix(Table(before), TableNow)
    BY DEF FailedAppendKeepsRecords
  <2>1. csv # NoFile /\ GrownFrom(before, csv) /\ before \in Bytes
    BY DEF AppendInv, FailureLeaves, FilesAreBytes, FileOrNone
  <2>2. PICK part \in Bytes :
          csv = before \o part /\ (before = <<>> \/ part = <<>> \/ Follows(before, part))
    BY <2>1 DEF GrownFrom
  <2>3. IsPrefix(Table(before), Table(before \o part))
    BY <2>1, <2>2, RecordsKept
  <2> QED
    BY <2>1, <2>2, <2>3 DEF TableNow
<1> QED
  BY <1>1, AppendSound, PTL

\* An INSERT that meets no failure is accepted if and only if its checks on the
\* files it found say so, and a refused one leaves them (storage_append_row).
THEOREM InsertDecidesAsStorage ==
  ASSUME ColumnsArePlain(Bytes), StringsAreText(Bytes)
  PROVE  Spec => []AcceptsAsSpecified
<1>1. AppendInv /\ Decided => AcceptsAsSpecified
  <2> SUFFICES ASSUME AppendInv, Decided, InsertReturned, met = {}
               PROVE  /\ result = "ok" <=> AppendAccepts(SchemaNow, Table(before), StrStmt(stmt))
                      /\ result = "failed" => csv = before
    BY DEF AcceptsAsSpecified
  <2>1. stmt \in Inserts /\ schema \in FileOrNone /\ before \in FileOrNone
    BY ReturnedInsert
  <2>2. result \in {"ok", "failed"}
    BY DEF AppendInv, TypeOK, Decided, Refused
  <2> DEFINE c == Table(before)
             Accepted == /\ ListAccepted(SchemaNow)
                         /\ c = NoFile => stmt.cols # <<>>
                         /\ c # NoFile => HeaderAccepted(SchemaNow, c)
  <2>3. AppendAccepts(SchemaNow, c, StrStmt(stmt)) <=> Accepted
    BY <2>1, AcceptsIs
  <2>4. c = NoFile <=> before = NoFile
    BY <2>1, TableIsContent DEF Table, FileOrNone
  <2>5. ASSUME result = "ok"
        PROVE  Accepted
    <3>1. ListAccepted(SchemaNow)
      BY <2>5 DEF Decided, Stored
    <3>2. PICK f \in Bytes : Base(f) /\ HeaderAccepted(SchemaNow, Table(f))
      BY <2>5 DEF Decided, Stored
    <3>3. CASE f = before
      BY <2>4, <3>1, <3>2, <3>3, FilesAssumption
    <3>4. CASE before = NoFile /\ stmt.cols # <<>>
      BY <2>4, <3>1, <3>4
    <3> QED
      BY <3>2, <3>3, <3>4 DEF Base
  <2>6. ASSUME result = "failed"
        PROVE  ~Accepted /\ csv = before
    <3>1. RefusedFor /\ csv = before
      BY <2>6 DEF Decided, Refused
    <3>2. CASE before = NoFile /\ stmt.cols # <<>> /\ ListAccepted(SchemaNow)
      <4>1. HeaderAccepted(SchemaNow, Table(Line(SchemaNames)))
        BY <2>1, <3>2, NewHeaderAccepted
      <4> QED
        BY <3>1, <3>2, <4>1 DEF RefusedFor
    <3>3. CASE ~(before = NoFile /\ stmt.cols # <<>> /\ ListAccepted(SchemaNow))
      BY <2>4, <3>1, <3>3 DEF RefusedFor
    <3> QED
      BY <3>2, <3>3
  <2> QED
    BY <2>2, <2>3, <2>5, <2>6
<1> QED
  BY <1>1, AppendSound, DecidedSound, PTL

\* The row an INSERT has stored is read back with its values, and every earlier
\* record stays, whatever the file and the values hold (write_csv_value,
\* append_newline_if_needed, read_csv_record, parse_csv_record).
THEOREM StoredRowIsReadBack ==
  ASSUME IntegersAreDecimal, ColumnsArePlain(Bytes), StringsAreText(Bytes)
  PROVE  Spec => []RowReadsBack
<1>1. AppendInv /\ Decided => RowReadsBack
  BY RowIsReadBack
<1> QED
  BY <1>1, AppendSound, DecidedSound, PTL

\* Every value of an accepted column list is read back under the name it was
\* listed for, in the row stored (map_values_to_schema).
THEOREM EachValueInItsColumn ==
  ASSUME IntegersAreDecimal, ColumnsArePlain(Bytes), StringsAreText(Bytes)
  PROVE  Spec => []ValuesLandInTheirColumns
<1>1. AppendInv /\ Decided => ValuesLandInTheirColumns
  <2> SUFFICES ASSUME AppendInv, Decided, InsertReturned, result = "ok", stmt.cols # <<>>,
                      ~EndsInQuotes(before)
               PROVE  LET header == TableNow[1]
                          row    == TableNow[Len(TableNow)]
                      IN
                        /\ Len(row) = Len(header) /\ Len(stmt.cols) = Len(header)
                        /\ \A k \in DOMAIN header : \E i \in DOMAIN stmt.cols :
                             header[k] = stmt.cols[i] /\ row[k] = StrValue(ReadIn(k, stmt.vals[i])).text
    BY DEF ValuesLandInTheirColumns
  <2> QED
    BY ValuesInPlace
<1> QED
  BY <1>1, AppendSound, DecidedSound, PTL

\* A SELECT is answered if and only if its checks say so, and what it prints reads
\* back as the table it was asked for, as far as the first malformed record: the
\* records copied as they are, whatever they hold, or the selected fields of
\* each, which needs no stray quotes in a column of integers and no mark at the
\* start of a field (copy_stream_validated, write_projection_row).
THEOREM SelectedRowsAreRead ==
  ASSUME ColumnsArePlain(Bytes)
  PROVE  Spec => []SelectPrintsTable
<1>1. AppendInv /\ Selected => SelectPrintsTable
  <2> DEFINE n == RowsPrinted
             lines == PrintedLines(SchemaNow, RowsNow, n, stmt)
             first == FirstRows(n, TableNow)
  <2> SUFFICES ASSUME AppendInv, Selected, Returned, stmt.kind = "SELECT"
               PROVE  /\ result = "ok" <=> SelectAccepts(SchemaNow, TableNow, stmt)
                      /\ n \in 0 .. Len(RowsNow) /\ RowsMatchHeader(first)
                      /\ result = "ok" => n = Len(RowsNow)
                      /\ result # "ok" /\ n > 0 =>
                           n < Len(RowsNow) /\ Len(TableNow[n + 1]) # Len(TableNow[1])
                      /\ Legible(SchemaNow, FirstRows(n, RowsNow)) =>
                           Table(shown) = SelectOutput(SchemaNow, first, stmt)
    BY DEF SelectPrintsTable
  <2>1. /\ result = "ok" <=> SelectAccepts(SchemaNow, TableNow, stmt)
        /\ result = "ok" <=> n > 0 /\ n = Len(TableNow)
        /\ shown = FlattenSeq(lines)
        /\ n # 0 => /\ SelectChecks(SchemaNow, TableNow, stmt) /\ csv \in Bytes
                    /\ n \in 1 .. Len(TableNow) /\ RowsMatchHeader(first)
                    /\ n # Len(TableNow) => Len(TableNow[n + 1]) # Len(TableNow[1])
    BY SelectDecides
  <2>2. stmt \in Selects
    <3>1. stmt \in Inserts \cup Selects \cup {NoStmt} /\ stmt # NoStmt
      BY DEF AppendInv, TypeOK, Returned
    <3> QED
      BY <3>1, StatementsAssumption
  <2> HIDE DEF n
  <2>3. csv \in Bytes =>
          /\ RowsNow = Rows(csv) /\ Len(RowsNow) = Len(TableNow) /\ Len(TableNow) \in Nat
    BY RowsType, FilesAssumption DEF RowsNow, TableNow
  <2>4. CASE n = 0
    <3>1. Len(RowsNow) \in Nat
      BY <2>3 DEF RowsNow, AppendInv, FilesAreBytes, FileOrNone
    <3>2. RowsMatchHeader(first)
      BY <2>4, FirstRowsAre
    <3>3. Table(shown) = SelectOutput(SchemaNow, first, stmt)
      BY <2>1, <2>4, NothingPrinted
    <3> QED
      BY <2>1, <2>4, <3>1, <3>2, <3>3
  <2>5. CASE n # 0
    <3>1. /\ n \in 1 .. Len(TableNow) /\ csv \in Bytes /\ HasHeader(TableNow)
          /\ RowsMatchHeader(first) /\ Len(TableNow) \in Nat
      BY <2>1, <2>3, <2>5 DEF SelectChecks
    <3>2. ASSUME stmt.all
          PROVE  Table(shown) = SelectOutput(SchemaNow, first, stmt)
      <4>1. lines = [k \in 1 .. n |-> CopiedLine(k)]
        BY <3>2 DEF PrintedLines
      <4>2. Table(FlattenSeq(lines)) = first
        BY <3>1, <4>1, CopiedTable
      <4> QED
        BY <2>1, <3>2, <4>2 DEF SelectOutput
    <3>3. ASSUME ~stmt.all, Legible(SchemaNow, FirstRows(n, RowsNow))
          PROVE  Table(shown) = SelectOutput(SchemaNow, first, stmt)
      <4>1. Projects(n)
        <5>1. /\ SchemaValid(SchemaNow) /\ SelectsKnownColumns(SchemaNow, stmt)
              /\ ~SchemaAbsent(SchemaNow) => HeaderMatches(SchemaNow, TableNow)
          BY <2>1, <2>5, <3>3 DEF SelectChecks
        <5>2. ~SchemaAbsent(SchemaNow)
          BY <5>1 DEF SchemaValid, HasSchemaHeader, SchemaAbsent
        <5> QED
          BY <2>2, <3>1, <3>3, <5>1, <5>2 DEF Projects, Legible, AppendInv, FilesAreBytes
      <4>2. lines = [k \in 1 .. n |-> ProjectedLine(SchemaNow, RowsNow, k, stmt.cols)]
        BY <3>3 DEF PrintedLines
      <4>3. Table(FlattenSeq(lines))
              = [k \in DOMAIN first |-> Project(SchemaNow, first[k], stmt.cols)]
        BY <4>1, <4>2, ProjectedTable
      <4> QED
        BY <2>1, <3>3, <4>3 DEF SelectOutput
    <3> QED
      BY <2>1, <2>3, <2>5, <3>1, <3>2, <3>3 DEF Legible
  <2> QED
    BY <2>4, <2>5
<1> QED
  BY <1>1, AppendSound, SelectedSound, PTL
=============================================================================
