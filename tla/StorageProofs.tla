---------------------------- MODULE StorageProofs ----------------------------
(***************************************************************************)
(* What the operators of Storage return: the files storage_append_row      *)
(* writes and the lines storage_select_projection prints are sequences of  *)
(* rows, and rows are sequences of texts.  The lemmas the other proofs     *)
(* share stand here too: induction, and sequences one after the other.     *)
(***************************************************************************)
EXTENDS Storage, SequencesExt, SequenceTheorems, WellFoundedInduction, TLAPS

\* A set of naturals that is not empty has a least element, if < is well founded.
LEMMA LeastElement ==
  ASSUME NEW R, IsWellFoundedOn(R, Nat), \A x, y \in Nat : y < x => <<y, x>> \in R,
         NEW T, T \subseteq Nat, T # {}
  PROVE  \E x \in T : \A y \in T : x <= y
<1>1. PICK x \in T : \A y \in T : ~(<<y, x>> \in R)
  BY WFMin
<1>2. \A y \in T : y \in Nat /\ x \in Nat
  OBVIOUS
<1>3. \A y \in T : ~(y < x)
  BY <1>1, <1>2
<1> QED
  BY <1>2, <1>3

\* Induction over the naturals, for a set in the place of the property.
LEMMA NatSetInduction ==
  ASSUME NEW S, 0 \in S, \A n \in Nat : n \in S => n + 1 \in S
  PROVE  Nat \subseteq S
<1> DEFINE T == Nat \ S
<1> SUFFICES ASSUME T # {} PROVE FALSE
  OBVIOUS
<1>1. PICK x \in T : \A y \in T : x <= y
  <2>1. IsWellFoundedOn(OpToRel(<, Nat), Nat)
    BY NatLessThanWellFounded
  <2>2. \A x, y \in Nat : y < x => <<y, x>> \in OpToRel(<, Nat)
    BY DEF OpToRel
  <2> QED
    BY <2>1, <2>2, LeastElement
<1>2. x \in Nat /\ x # 0 /\ x \notin S
  OBVIOUS
<1>3. x - 1 \in Nat
  BY <1>2
<1>4. x - 1 \in S
  BY <1>1, <1>3
<1> QED
  BY <1>2, <1>3, <1>4

\* A function on 1 .. n is a sequence of length n.
LEMMA FunctionIsSeq ==
  ASSUME NEW S, NEW n \in Nat, NEW f \in [1 .. n -> S]
  PROVE  f \in Seq(S) /\ Len(f) = n
  OBVIOUS

\* Sequences of one and of two elements.
LEMMA SmallSeqs ==
  ASSUME NEW S, NEW a \in S, NEW b \in S
  PROVE  <<a>> \in Seq(S) /\ <<a, b>> \in Seq(S)
  OBVIOUS

LEMMA OneAndOne ==
  ASSUME NEW x, NEW y
  PROVE  <<x>> \o <<y>> = <<x, y>>
<1>1. /\ <<x>> \in Seq({x, y}) /\ <<y>> \in Seq({x, y}) /\ <<x, y>> \in Seq({x, y})
      /\ Len(<<x>>) = 1 /\ Len(<<y>>) = 1 /\ Len(<<x, y>>) = 2
  OBVIOUS
<1>2. /\ <<x>> \o <<y>> \in Seq({x, y}) /\ Len(<<x>> \o <<y>>) = 2
      /\ (<<x>> \o <<y>>)[1] = x /\ (<<x>> \o <<y>>)[2] = y
  BY <1>1, ConcatProperties
<1>3. \A k \in 1 .. 2 : (<<x>> \o <<y>>)[k] = <<x, y>>[k]
  BY <1>2
<1> QED
  BY <1>1, <1>2, <1>3, SeqEqual

\* The column names load_table_schema returns are texts, one for each row.
LEMMA NamesType ==
  ASSUME NEW s \in File, SchemaValid(s)
  PROVE  /\ Names(s) \in Record
         /\ DOMAIN Names(s) = 1 .. (Len(s) - 1)
         /\ Len(Names(s)) = Len(s) - 1
<1>1. s \in Content /\ Len(s) \in Nat /\ Len(s) > 1
  BY DEF SchemaValid, HasSchemaHeader, File, Content
<1>2. ASSUME NEW k \in 1 .. (Len(s) - 1)
      PROVE  s[k + 1][1] \in Text
  <2>1. k + 1 \in 2 .. Len(s)
    BY <1>1
  <2>2. RowShapeOK(s[k + 1])
    BY <2>1 DEF SchemaValid, BadRows
  <2>3. s[k + 1] \in Seq(Text)
    BY <1>1, <2>1 DEF Content, Record
  <2>4. Len(s[k + 1]) = 2
    BY <2>2 DEF RowShapeOK
  <2> QED
    BY <2>3, <2>4, ElementOfSeq
<1>3. Names(s) \in [1 .. (Len(s) - 1) -> Text]
  BY <1>2 DEF Names
<1>4. Len(s) - 1 \in Nat
  BY <1>1
<1> QED
  BY <1>3, <1>4, FunctionIsSeq DEF Record

\* With a column list every schema column has a value, so the values in schema
\* order are as many as the columns and each is one the statement gives.
LEMMA OrderedValuesType ==
  ASSUME NEW s \in File, NEW stmt \in Statement, SchemaValid(s), MapsToSchema(s, stmt)
  PROVE  OrderedValues(s, stmt) \in Seq(SqlValue)
<1>1. stmt.vals \in Seq(SqlValue) /\ stmt.cols \in Seq(Text)
  BY DEF Statement
<1>2. CASE stmt.cols = <<>>
  BY <1>1, <1>2 DEF OrderedValues
<1>3. CASE stmt.cols # <<>>
  <2>1. /\ Len(stmt.cols) = Len(Names(s))
        /\ ColumnSet(stmt.cols) = ColumnSet(Names(s))
        /\ Len(stmt.vals) = Len(Names(s))
    BY <1>3 DEF MapsToSchema
  <2>2. DOMAIN stmt.cols = DOMAIN stmt.vals
    BY <1>1, <2>1
  <2>3. ASSUME NEW k \in DOMAIN Names(s)
        PROVE  stmt.vals[CHOOSE i \in DOMAIN stmt.vals : stmt.cols[i] = Names(s)[k]] \in SqlValue
    <3>1. Names(s)[k] \in ColumnSet(stmt.cols)
      BY <2>1 DEF ColumnSet
    <3>2. \E i \in DOMAIN stmt.vals : stmt.cols[i] = Names(s)[k]
      BY <2>2, <3>1 DEF ColumnSet
    <3>3. (CHOOSE i \in DOMAIN stmt.vals : stmt.cols[i] = Names(s)[k]) \in DOMAIN stmt.vals
      BY <3>2
    <3> QED
      BY <1>1, <3>3, ElementOfSeq, LenProperties
  <2>4. /\ DOMAIN Names(s) = 1 .. (Len(s) - 1)
        /\ Len(s) \in Nat /\ Len(s) > 1
    BY NamesType DEF SchemaValid, HasSchemaHeader, File, Content
  <2>5. OrderedValues(s, stmt) \in [1 .. (Len(s) - 1) -> SqlValue]
    BY <1>3, <2>3, <2>4 DEF OrderedValues
  <2> QED
    BY <2>4, <2>5
<1> QED
  BY <1>2, <1>3

\* The row it appends is a record.
LEMMA StoredRowType ==
  ASSUME NEW s \in File, NEW c \in File, NEW stmt \in Statement, AppendAccepts(s, c, stmt)
  PROVE  LET vals == RowToStore(s, stmt) IN [k \in DOMAIN vals |-> vals[k].text] \in Record
<1> DEFINE vals == RowToStore(s, stmt)
           row  == [k \in DOMAIN vals |-> vals[k].text]
<1>1. vals \in Seq(SqlValue)
  BY OrderedValuesType DEF AppendAccepts, RowToStore, Statement
<1>2. \A v \in SqlValue : v.text \in Text
  BY DEF SqlValue
<1>3. row \in Record
  <2>1. Len(vals) \in Nat /\ DOMAIN vals = 1 .. Len(vals) /\ \A k \in 1 .. Len(vals) : vals[k] \in SqlValue
    BY <1>1
  <2>2. row \in [1 .. Len(vals) -> Text]
    BY <1>2, <2>1
  <2> QED
    BY <2>1, <2>2 DEF Record
<1> QED
  BY <1>3

\* storage_append_row leaves a file.
LEMMA AppendedFileType ==
  ASSUME NEW s \in File, NEW c \in File, NEW stmt \in Statement, AppendAccepts(s, c, stmt)
  PROVE  AppendedFile(s, c, stmt) \in Content
<1> DEFINE vals == RowToStore(s, stmt)
           row  == [k \in DOMAIN vals |-> vals[k].text]
           base == IF c = NoFile THEN << Names(s) >> ELSE c
<1>1. base \in Content
  <2>1. CASE c = NoFile
    <3>1. SchemaValid(s) \/ HasHeader(c)
      BY DEF AppendAccepts
    <3>2. Names(s) \in Record
      BY <2>1, <3>1, NamesType DEF HasHeader
    <3> QED
      BY <2>1, <3>2 DEF Content
  <2>2. CASE c # NoFile
    BY <2>2 DEF File
  <2> QED
    BY <2>1, <2>2
<1>2. row \in Record
  BY StoredRowType
<1>3. AppendedFile(s, c, stmt) = Append(base, row)
  BY DEF AppendedFile
<1> QED
  BY <1>1, <1>2, <1>3 DEF Content

\* storage_select_projection prints lines.
LEMMA SelectOutputType ==
  ASSUME NEW s \in File, NEW c \in File, NEW stmt \in Statement, SelectAccepts(s, c, stmt)
  PROVE  SelectOutput(s, c, stmt) \in Content
<1>1. c \in Content /\ c # <<>>
  BY DEF SelectAccepts, HasHeader, File
<1>2. CASE stmt.all
  BY <1>1, <1>2 DEF SelectOutput
<1>3. CASE ~stmt.all
  <2>1. SchemaValid(s) /\ SelectsKnownColumns(s, stmt) /\ c[1] = Names(s)
    <3>1. SchemaValid(s) /\ SelectsKnownColumns(s, stmt)
      BY <1>3 DEF SelectAccepts
    <3>2. ~SchemaAbsent(s)
      BY <3>1 DEF SchemaAbsent, SchemaValid, HasSchemaHeader
    <3> QED
      BY <3>1, <3>2 DEF SelectAccepts, HeaderMatches
  <2>2. /\ Names(s) \in Record
        /\ DOMAIN Names(s) = 1 .. Len(Names(s))
    BY <2>1, NamesType
  <2>3. stmt.cols \in Seq(Text)
    BY DEF Statement
  <2>4. ASSUME NEW k \in 1 .. Len(c)
        PROVE  Project(s, c[k], stmt.cols) \in Record
    <3>1. c[k] \in Seq(Text) /\ Len(c[k]) = Len(Names(s))
      BY <1>1, <2>1, <2>2 DEF Content, Record, SelectAccepts, RowsMatchHeader
    <3>2. ASSUME NEW i \in DOMAIN stmt.cols
          PROVE  c[k][CHOOSE j \in DOMAIN Names(s) : Names(s)[j] = stmt.cols[i]] \in Text
      <4>1. \E j \in DOMAIN Names(s) : Names(s)[j] = stmt.cols[i]
        BY <2>1 DEF SelectsKnownColumns, ColumnSet
      <4>2. (CHOOSE j \in DOMAIN Names(s) : Names(s)[j] = stmt.cols[i]) \in DOMAIN c[k]
        BY <2>2, <3>1, <4>1
      <4> QED
        BY <3>1, <4>2
    <3>3. DOMAIN stmt.cols = 1 .. Len(stmt.cols) /\ Len(stmt.cols) \in Nat
      BY <2>3, LenProperties
    <3>4. Project(s, c[k], stmt.cols) \in [1 .. Len(stmt.cols) -> Text]
      BY <3>2, <3>3 DEF Project
    <3> QED
      BY <3>3, <3>4, FunctionIsSeq DEF Record
  <2>5. SelectOutput(s, c, stmt) \in [1 .. Len(c) -> Record]
    BY <1>1, <1>3, <2>4 DEF SelectOutput, Content
  <2> QED
    BY <1>1, <2>5 DEF Content
<1> QED
  BY <1>2, <1>3

\* An accepted statement leaves a file and adds lines to the output.
LEMMA StatementTypes ==
  ASSUME NEW s \in File, NEW c \in File, NEW stmt \in Statement, Accepts(s, c, stmt)
  PROVE  FileAfter(s, c, stmt) \in File /\ Reply(s, c, stmt) \in Content
<1>1. CASE stmt.kind = "INSERT"
  <2>1. Inserted \in Text /\ stmt.table \in Text
    BY TextsNamed DEF Statement
  <2>2. << <<Inserted, stmt.table>> >> \in Content
    <3>1. <<Inserted, stmt.table>> \in Record
      BY <2>1, SmallSeqs DEF Record
    <3> QED
      BY <3>1, SmallSeqs DEF Content
  <2>3. AppendAccepts(s, c, stmt)
    BY <1>1 DEF Accepts
  <2>4. AppendedFile(s, c, stmt) \in Content
    BY <2>3, AppendedFileType
  <2> QED
    BY <1>1, <2>2, <2>4 DEF FileAfter, Reply, File
<1>2. CASE stmt.kind # "INSERT"
  <2>1. SelectAccepts(s, c, stmt)
    BY <1>2 DEF Accepts
  <2>2. SelectOutput(s, c, stmt) \in Content
    BY <2>1, SelectOutputType
  <2> QED
    BY <1>2, <2>2 DEF FileAfter, Reply
<1> QED
  BY <1>1, <1>2
----------------------------------------------------------------------------
(***************************************************************************)
(* Sequences of sequences, one after the other.                            *)
(***************************************************************************)
\* The recursion of FlattenSeq is well defined: where it starts, how it goes on.
LEMMA FlattenSteps ==
  ASSUME NEW ss, Len(ss) \in Nat \ {0}
  PROVE  \E f : /\ FlattenSeq(ss) = f[Len(ss)]
                /\ f[1] = ss[1]
                /\ \A i \in 2 .. Len(ss) : f[i] = f[i - 1] \o ss[i]
<1> DEFINE F(f, m) == [i \in 1 .. m |-> IF i = 1 THEN ss[i] ELSE f[i - 1] \o ss[i]]
           S == {m \in Nat : \E f : f = F(f, m)}
           flatten == CHOOSE f : f = F(f, Len(ss))
<1>1. FlattenSeq(ss) = flatten[Len(ss)]
  BY DEF FlattenSeq
<1>2. 0 \in S
  <2> DEFINE g == [i \in 1 .. 0 |-> ss[i]]
  <2>1. g = F(g, 0)
    OBVIOUS
  <2> QED
    BY <2>1
<1>3. ASSUME NEW m \in Nat, m \in S
      PROVE  m + 1 \in S
  <2>1. PICK f : f = F(f, m)
    BY <1>3
  <2> DEFINE last == IF m + 1 = 1 THEN ss[m + 1] ELSE f[m] \o ss[m + 1]
             g == [i \in 1 .. (m + 1) |-> IF i = m + 1 THEN last ELSE f[i]]
  <2>2. \A i \in 1 .. m : f[i] = IF i = 1 THEN ss[i] ELSE f[i - 1] \o ss[i]
    <3>1. \A i \in 1 .. m : f[i] = F(f, m)[i]
      BY <2>1
    <3>2. \A i \in 1 .. m : F(f, m)[i] = IF i = 1 THEN ss[i] ELSE f[i - 1] \o ss[i]
      OBVIOUS
    <3> HIDE DEF F
    <3> QED
      BY <3>1, <3>2
  <2> HIDE DEF last
  <2>3. g[m + 1] = last /\ \A i \in 1 .. m : g[i] = f[i]
    OBVIOUS
  <2> HIDE DEF g
  <2>4. ASSUME NEW i \in 1 .. (m + 1)
        PROVE  g[i] = IF i = 1 THEN ss[i] ELSE g[i - 1] \o ss[i]
    <3>1. CASE i = m + 1
      <4>1. m # 0 => m \in 1 .. m /\ (m + 1) - 1 = m
        OBVIOUS
      <4> QED
        BY <2>3, <3>1, <4>1 DEF last
    <3>2. CASE i \in 1 .. m
      <4>1. i # 1 => i - 1 \in 1 .. m
        BY <3>2
      <4> QED
        BY <2>2, <2>3, <3>2, <4>1
    <3> QED
      BY <3>1, <3>2
  <2>5. g = F(g, m + 1)
    BY <2>4 DEF g
  <2>6. \E h : h = F(h, m + 1)
    <3> HIDE DEF F
    <3> QED
      BY <2>5
  <2>7. m + 1 \in Nat
    OBVIOUS
  <2> QED
    <3> HIDE DEF F
    <3> QED
      BY <2>6, <2>7
<1>4. Len(ss) \in S
  <2> HIDE DEF S
  <2> QED
    BY <1>2, <1>3, NatSetInduction
<1>5. flatten = F(flatten, Len(ss))
  BY <1>4
<1> HIDE DEF flatten
<1>6. \A i \in 1 .. Len(ss) : flatten[i] = F(flatten, Len(ss))[i]
  BY <1>5
<1>7. \A i \in 1 .. Len(ss) :
        F(flatten, Len(ss))[i] = IF i = 1 THEN ss[i] ELSE flatten[i - 1] \o ss[i]
  OBVIOUS
<1> HIDE DEF F
<1>8. \A i \in 1 .. Len(ss) : flatten[i] = IF i = 1 THEN ss[i] ELSE flatten[i - 1] \o ss[i]
  BY <1>6, <1>7
<1>9. \A i \in 2 .. Len(ss) : i \in 1 .. Len(ss) /\ i # 1
  OBVIOUS
<1>10. 1 \in 1 .. Len(ss)
  OBVIOUS
<1> QED
  BY <1>1, <1>8, <1>9, <1>10

LEMMA FlattenEmpty == FlattenSeq(<<>>) = <<>>
  BY DEF FlattenSeq

LEMMA FlattenType ==
  ASSUME NEW X, NEW ss \in Seq(Seq(X))
  PROVE  FlattenSeq(ss) \in Seq(X)
<1>1. CASE ss = <<>>
  BY <1>1, FlattenEmpty, EmptySeq
<1>2. CASE ss # <<>>
  <2>1. Len(ss) \in Nat \ {0}
    BY <1>2, EmptySeq
  <2>2. PICK f : /\ FlattenSeq(ss) = f[Len(ss)]
                 /\ f[1] = ss[1]
                 /\ \A i \in 2 .. Len(ss) : f[i] = f[i - 1] \o ss[i]
    BY <2>1, FlattenSteps
  <2> DEFINE S == {m \in Nat : m + 1 <= Len(ss) => f[m + 1] \in Seq(X)}
  <2>3. \A i \in 1 .. Len(ss) : ss[i] \in Seq(X)
    BY ElementOfSeq
  <2>4. 0 \in S
    BY <2>1, <2>2, <2>3
  <2>5. ASSUME NEW m \in Nat, m \in S
        PROVE  m + 1 \in S
    <3> SUFFICES ASSUME (m + 1) + 1 <= Len(ss)
                 PROVE  f[(m + 1) + 1] \in Seq(X)
      OBVIOUS
    <3>1. m + 1 <= Len(ss) /\ (m + 1) + 1 \in 2 .. Len(ss) /\ ((m + 1) + 1) - 1 = m + 1
      BY <2>1
    <3>2. f[(m + 1) + 1] = f[m + 1] \o ss[(m + 1) + 1]
      BY <2>2, <3>1
    <3>3. f[m + 1] \in Seq(X) /\ ss[(m + 1) + 1] \in Seq(X)
      BY <2>3, <2>5, <3>1
    <3> QED
      BY <3>2, <3>3, ConcatProperties
  <2>6. Len(ss) - 1 \in S
    <3> HIDE DEF S
    <3>1. Nat \subseteq S
      BY <2>4, <2>5, NatSetInduction
    <3> QED
      BY <2>1, <3>1
  <2>7. (Len(ss) - 1) + 1 = Len(ss)
    BY <2>1
  <2> QED
    BY <2>1, <2>2, <2>6, <2>7
<1> QED
  BY <1>1, <1>2

LEMMA FlattenAppend ==
  ASSUME NEW X, NEW ss \in Seq(Seq(X)), NEW s \in Seq(X)
  PROVE  FlattenSeq(Append(ss, s)) = FlattenSeq(ss) \o s
<1> DEFINE tt == Append(ss, s)
<1>1. /\ Len(ss) \in Nat /\ Len(tt) = Len(ss) + 1 /\ tt[Len(ss) + 1] = s
      /\ \A i \in 1 .. Len(ss) : tt[i] = ss[i]
  BY AppendProperties, LenProperties
<1> HIDE DEF tt
<1>2. PICK g : /\ FlattenSeq(tt) = g[Len(tt)]
               /\ g[1] = tt[1]
               /\ \A i \in 2 .. Len(tt) : g[i] = g[i - 1] \o tt[i]
  <2>1. Len(tt) \in Nat \ {0}
    BY <1>1
  <2> QED
    BY <2>1, FlattenSteps
<1>3. CASE ss = <<>>
  <2>1. Len(ss) = 0
    BY <1>3
  <2>2. FlattenSeq(tt) = s
    BY <1>1, <1>2, <2>1
  <2>3. FlattenSeq(ss) \o s = s
    BY <1>3, FlattenEmpty, ConcatEmptySeq
  <2> QED
    BY <2>2, <2>3 DEF tt
<1>4. CASE ss # <<>>
  <2>1. Len(ss) \in Nat \ {0}
    BY <1>4, EmptySeq
  <2>2. PICK f : /\ FlattenSeq(ss) = f[Len(ss)]
                 /\ f[1] = ss[1]
                 /\ \A i \in 2 .. Len(ss) : f[i] = f[i - 1] \o ss[i]
    BY <2>1, FlattenSteps
  <2> DEFINE S == {m \in Nat : m + 1 <= Len(ss) => f[m + 1] = g[m + 1]}
  <2>3. 0 \in S
    BY <1>1, <1>2, <2>1, <2>2
  <2>4. ASSUME NEW m \in Nat, m \in S
        PROVE  m + 1 \in S
    <3> SUFFICES ASSUME (m + 1) + 1 <= Len(ss)
                 PROVE  f[(m + 1) + 1] = g[(m + 1) + 1]
      OBVIOUS
    <3>1. /\ m + 1 <= Len(ss) /\ (m + 1) + 1 \in 2 .. Len(ss) /\ (m + 1) + 1 \in 2 .. Len(tt)
          /\ ((m + 1) + 1) - 1 = m + 1
      BY <1>1, <2>1
    <3>2. f[(m + 1) + 1] = f[m + 1] \o ss[(m + 1) + 1]
      BY <2>2, <3>1
    <3>3. g[(m + 1) + 1] = g[m + 1] \o tt[(m + 1) + 1]
      BY <1>2, <3>1
    <3>4. ss[(m + 1) + 1] = tt[(m + 1) + 1] /\ f[m + 1] = g[m + 1]
      BY <1>1, <2>4, <3>1
    <3> QED
      BY <3>2, <3>3, <3>4
  <2>5. f[Len(ss)] = g[Len(ss)]
    <3>1. Len(ss) - 1 \in S
      <4> HIDE DEF S
      <4>1. Nat \subseteq S
        BY <2>3, <2>4, NatSetInduction
      <4> QED
        BY <2>1, <4>1
    <3>2. (Len(ss) - 1) + 1 = Len(ss)
      BY <2>1
    <3> QED
      BY <2>1, <3>1, <3>2
  <2>6. /\ Len(tt) \in 2 .. Len(tt) /\ Len(tt) - 1 = Len(ss) /\ tt[Len(tt)] = s
    BY <1>1, <2>1
  <2>7. g[Len(tt)] = g[Len(ss)] \o s
    BY <1>2, <2>6
  <2> QED
    BY <1>2, <2>2, <2>5, <2>7 DEF tt
<1> QED
  BY <1>3, <1>4

----------------------------------------------------------------------------
(***************************************************************************)
(* Recursion.  B gives the value at a position from the values at the      *)
(* positions after it, or before it.                                       *)
(***************************************************************************)
\* What a function says of the positions after j, up to n.
Following(h, j, n) == [k \in (j + 1) .. n |-> h[k]]

\* B gives a member of V at every position up to n.
Downward(B, n, V) == \A j \in 1 .. n : \A h \in [(j + 1) .. n -> V] : B[j][h] \in V

LEMMA DownwardRecursion ==
  ASSUME NEW n \in Nat, NEW V, NEW B, Downward(B, n, V)
  PROVE  \E h \in [1 .. n -> V] : \A j \in 1 .. n : h[j] = B[j][Following(h, j, n)]
<1> DEFINE Rest(h, j) == Following(h, j, n)
           From(m) == (n - m + 1) .. n
           S == {m \in Nat : m <= n =>
                   \E h \in [From(m) -> V] : \A j \in From(m) : h[j] = B[j][Rest(h, j)]}
<1>1. 0 \in S
  <2>1. From(0) = {}
    OBVIOUS
  <2> DEFINE h == [k \in From(0) |-> B]
  <2>2. h \in [From(0) -> V] /\ \A j \in From(0) : h[j] = B[j][Rest(h, j)]
    BY <2>1
  <2> HIDE DEF From, Rest, h
  <2> QED
    BY <2>2
<1>2. ASSUME NEW m \in Nat, m \in S
      PROVE  m + 1 \in S
  <2> SUFFICES ASSUME m + 1 <= n
               PROVE  \E h \in [From(m + 1) -> V] : \A j \in From(m + 1) : h[j] = B[j][Rest(h, j)]
    OBVIOUS
  <2>1. PICK g \in [From(m) -> V] : \A j \in From(m) : g[j] = B[j][Rest(g, j)]
    BY <1>2
  <2> DEFINE p == n - m
             h == [k \in From(m + 1) |-> IF k = p THEN B[p][g] ELSE g[k]]
  <2>2. /\ p \in 1 .. n /\ From(m) = (p + 1) .. n /\ From(m + 1) = p .. n
        /\ \A j \in p .. n : j = p \/ j \in (p + 1) .. n
    OBVIOUS
  <2>3. g \in [(p + 1) .. n -> V] /\ B[p][g] \in V
    BY <2>1, <2>2 DEF Downward
  <2> HIDE DEF p
  <2>4. h \in [From(m + 1) -> V]
    BY <2>1, <2>2, <2>3
  <2>5. h[p] = B[p][g] /\ \A k \in (p + 1) .. n : h[k] = g[k]
    BY <2>2
  <2> HIDE DEF h, From
  <2> USE DEF Following
  <2>6. \A j \in p .. n : Rest(h, j) = IF j = p THEN g ELSE Rest(g, j)
    <3>1. Rest(h, p) = g
      BY <2>2, <2>3, <2>5
    <3>2. ASSUME NEW j \in (p + 1) .. n
          PROVE  Rest(h, j) = Rest(g, j) /\ j # p
      <4>1. \A k \in (j + 1) .. n : k \in (p + 1) .. n
        BY <2>2
      <4> QED
        BY <2>2, <2>5, <4>1
    <3> HIDE DEF Rest
    <3> QED
      BY <2>2, <3>1, <3>2
  <2> HIDE DEF Rest, Following
  <2>7. \A j \in From(m + 1) : h[j] = B[j][Rest(h, j)]
    BY <2>1, <2>2, <2>5, <2>6
  <2> QED
    BY <2>4, <2>7
<1>3. n \in S
  <2> HIDE DEF S
  <2> QED
    BY <1>1, <1>2, NatSetInduction
<1>4. From(n) = 1 .. n
  OBVIOUS
<1> HIDE DEF From, Rest
<1>5. \E h \in [1 .. n -> V] : \A j \in 1 .. n : h[j] = B[j][Rest(h, j)]
  BY <1>3, <1>4
<1> QED
  BY <1>5 DEF Rest

\* What a function says of the positions before j.
Before(h, j) == [k \in 0 .. (j - 1) |-> h[k]]

\* B gives a member of V at every position from 0 to n.
Upward(B, n, V) == \A j \in 0 .. n : \A h \in [0 .. (j - 1) -> V] : B[j][h] \in V

LEMMA UpwardRecursion ==
  ASSUME NEW n \in Nat, NEW V, NEW B, Upward(B, n, V)
  PROVE  \E h \in [0 .. n -> V] : \A j \in 0 .. n : h[j] = B[j][Before(h, j)]
<1> DEFINE S == {m \in Nat : m <= n =>
                   \E h \in [0 .. m -> V] : \A j \in 0 .. m : h[j] = B[j][Before(h, j)]}
<1>1. 0 \in S
  <2> DEFINE none == [k \in 0 .. (0 - 1) |-> 0]
             h == [k \in 0 .. 0 |-> B[0][none]]
  <2>1. none \in [0 .. (0 - 1) -> V]
    OBVIOUS
  <2>2. B[0][none] \in V
    <3> HIDE DEF none
    <3>1. 0 \in 0 .. n
      OBVIOUS
    <3> QED
      BY <2>1, <3>1 DEF Upward
  <2>3. h \in [0 .. 0 -> V] /\ Before(h, 0) = none /\ h[0] = B[0][none]
    BY <2>2 DEF Before
  <2> HIDE DEF none, h
  <2>4. \A j \in 0 .. 0 : h[j] = B[j][Before(h, j)]
    BY <2>3
  <2> QED
    BY <2>3, <2>4
<1>2. ASSUME NEW m \in Nat, m \in S
      PROVE  m + 1 \in S
  <2> SUFFICES ASSUME m + 1 <= n
               PROVE  \E h \in [0 .. (m + 1) -> V] :
                        \A j \in 0 .. (m + 1) : h[j] = B[j][Before(h, j)]
    OBVIOUS
  <2>1. PICK g \in [0 .. m -> V] : \A j \in 0 .. m : g[j] = B[j][Before(g, j)]
    BY <1>2
  <2> DEFINE h == [k \in 0 .. (m + 1) |-> IF k = m + 1 THEN B[m + 1][g] ELSE g[k]]
  <2>2. B[m + 1][g] \in V
    <3>1. (m + 1) - 1 = m /\ m + 1 \in 0 .. n
      OBVIOUS
    <3> QED
      BY <2>1, <3>1 DEF Upward
  <2>3. h \in [0 .. (m + 1) -> V] /\ h[m + 1] = B[m + 1][g] /\ \A k \in 0 .. m : h[k] = g[k]
    BY <2>1, <2>2
  <2> HIDE DEF h
  <2>4. Before(h, m + 1) = g
    BY <2>1, <2>3 DEF Before
  <2>5. \A j \in 0 .. m : Before(h, j) = Before(g, j)
    BY <2>3 DEF Before
  <2>6. \A j \in 0 .. (m + 1) : j = m + 1 \/ j \in 0 .. m
    OBVIOUS
  <2>7. \A j \in 0 .. (m + 1) : h[j] = B[j][Before(h, j)]
    BY <2>1, <2>3, <2>4, <2>5, <2>6
  <2> QED
    BY <2>3, <2>7
<1>3. n \in S
  <2> HIDE DEF S
  <2> QED
    BY <1>1, <1>2, NatSetInduction
<1> QED
  BY <1>3

\* A set of positions up to n that has the last one, and each whose later
\* ones it has, has them all.
LEMMA DownwardInduction ==
  ASSUME NEW n \in Nat, NEW P,
         \A j \in 1 .. n : (\A k \in (j + 1) .. n : k \in P) => j \in P
  PROVE  \A j \in 1 .. n : j \in P
<1> DEFINE S == {m \in Nat : \A j \in 1 .. n : j > n - m => j \in P}
<1>1. 0 \in S
  OBVIOUS
<1>2. ASSUME NEW m \in Nat, m \in S
      PROVE  m + 1 \in S
  <2> SUFFICES ASSUME NEW j \in 1 .. n, j > n - (m + 1)
               PROVE  j \in P
    OBVIOUS
  <2>1. \A k \in (j + 1) .. n : k \in 1 .. n /\ k > n - m
    OBVIOUS
  <2> QED
    BY <1>2, <2>1
<1>3. n \in S
  <2> HIDE DEF S
  <2> QED
    BY <1>1, <1>2, NatSetInduction
<1> QED
  BY <1>3

\* What holds of the empty sequence, and with a sequence of every longer one.
LEMMA LongerAndLonger ==
  ASSUME NEW X, NEW P, <<>> \in P,
         \A s \in Seq(X), e \in X : s \in P => Append(s, e) \in P
  PROVE  \A s \in Seq(X) : s \in P
<1> DEFINE S == {n \in Nat : \A s \in Seq(X) : Len(s) = n => s \in P}
<1>1. 0 \in S
  <2>1. \A s \in Seq(X) : Len(s) = 0 => s = <<>>
    BY EmptySeq
  <2> QED
    BY <2>1
<1>2. ASSUME NEW n \in Nat, n \in S
      PROVE  n + 1 \in S
  <2>1. ASSUME NEW s \in Seq(X), Len(s) = n + 1
        PROVE  s \in P
    <3>1. s # <<>>
      BY <2>1
    <3>2. PICK r \in Seq(X), e \in X : s = Append(r, e)
      BY <3>1, SequenceEmptyOrAppend
    <3>3. Len(r) = n
      BY <2>1, <3>2, AppendProperties
    <3>4. r \in P
      BY <1>2, <3>3
    <3> QED
      BY <3>2, <3>4
  <2> QED
    BY <2>1
<1>3. \A n \in Nat : n \in S
  <2> HIDE DEF S
  <2> QED
    BY <1>1, <1>2, NatSetInduction
<1>4. \A s \in Seq(X) : Len(s) \in Nat
  OBVIOUS
<1> QED
  BY <1>3, <1>4

\* A sequence before others.
LEMMA FlattenFirst ==
  ASSUME NEW X, NEW s \in Seq(X), NEW ss \in Seq(Seq(X))
  PROVE  FlattenSeq(<<s>> \o ss) = s \o FlattenSeq(ss)
<1> DEFINE P == {tt \in Seq(Seq(X)) : FlattenSeq(<<s>> \o tt) = s \o FlattenSeq(tt)}
<1>1. <<s>> \in Seq(Seq(X))
  BY SmallSeqs
<1>2. <<>> \in P
  <2>1. <<>> \in Seq(Seq(X)) /\ <<>> \in Seq(X)
    OBVIOUS
  <2>2. <<s>> \o <<>> = Append(<<>>, s)
    OBVIOUS
  <2>3. FlattenSeq(Append(<<>>, s)) = FlattenSeq(<<>>) \o s
    BY <2>1, FlattenAppend
  <2>4. <<>> \o s = s /\ s \o <<>> = s
    BY ConcatEmptySeq
  <2> QED
    BY <2>1, <2>2, <2>3, <2>4, FlattenEmpty
<1>3. ASSUME NEW tt \in Seq(Seq(X)), NEW t \in Seq(X), tt \in P
      PROVE  Append(tt, t) \in P
  <2>1. /\ Append(tt, t) \in Seq(Seq(X)) /\ <<s>> \o tt \in Seq(Seq(X))
        /\ FlattenSeq(tt) \in Seq(X)
    BY <1>1, AppendProperties, ConcatProperties, FlattenType
  <2>2. <<s>> \o Append(tt, t) = Append(<<s>> \o tt, t)
    <3>1. <<t>> \in Seq(Seq(X))
      BY SmallSeqs
    <3>2. Append(tt, t) = tt \o <<t>> /\ Append(<<s>> \o tt, t) = (<<s>> \o tt) \o <<t>>
      BY <2>1, AppendIsConcat
    <3>3. <<s>> \o (tt \o <<t>>) = (<<s>> \o tt) \o <<t>>
      BY <1>1, <3>1, ConcatAssociative
    <3> QED
      BY <3>2, <3>3
  <2>3. FlattenSeq(Append(<<s>> \o tt, t)) = FlattenSeq(<<s>> \o tt) \o t
    BY <2>1, FlattenAppend
  <2>4. FlattenSeq(Append(tt, t)) = FlattenSeq(tt) \o t
    BY FlattenAppend
  <2>5. (s \o FlattenSeq(tt)) \o t = s \o (FlattenSeq(tt) \o t)
    BY <2>1, ConcatAssociative, SMTT(30)
  <2> QED
    BY <1>3, <2>1, <2>2, <2>3, <2>4, <2>5
<1>4. \A tt \in Seq(Seq(X)) : tt \in P
  <2> HIDE DEF P
  <2> QED
    BY <1>2, <1>3, LongerAndLonger
<1> QED
  BY <1>4
=============================================================================
