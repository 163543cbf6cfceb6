------------------------------ MODULE RowProofs ------------------------------
(***************************************************************************)
(* A row that storage_append_row writes behind a file is found again by    *)
(* read_csv_record and parse_csv_record, field by field, whatever the      *)
(* file holds and whatever quotes, commas and line ends are in the texts.  *)
(***************************************************************************)
EXTENDS CodecProofs

----------------------------------------------------------------------------
(***************************************************************************)
(* What was written reads back: where a text stands in a file.             *)
(***************************************************************************)
\* w stands at position i of f.
Occurs(f, i, w) ==
  /\ i + Len(w) <= Len(f) + 1
  /\ \A k \in 1 .. Len(w) : f[i + k - 1] = w[k]

LEMMA OccursParts ==
  ASSUME NEW f \in Bytes, NEW i \in Nat \ {0}, NEW u \in Bytes, NEW v \in Bytes,
         Occurs(f, i, u \o v)
  PROVE  /\ Occurs(f, i, u) /\ Occurs(f, i + Len(u), v)
         /\ i + Len(u) \in Nat \ {0}
         /\ i + Len(u \o v) = i + Len(u) + Len(v)
<1>1. /\ Len(u) \in Nat /\ Len(v) \in Nat /\ Len(f) \in Nat
      /\ Len(u \o v) = Len(u) + Len(v)
      /\ \A k \in 1 .. Len(u) + Len(v) :
           (u \o v)[k] = IF k <= Len(u) THEN u[k] ELSE v[k - Len(u)]
  BY ConcatProperties DEF Bytes
<1>2. /\ i + Len(u) + Len(v) <= Len(f) + 1
      /\ \A k \in 1 .. (Len(u) + Len(v)) : f[i + k - 1] = (u \o v)[k]
  BY <1>1 DEF Occurs
<1>3. \A k \in 1 .. Len(u) : k \in 1 .. (Len(u) + Len(v)) /\ f[i + k - 1] = u[k]
  BY <1>1, <1>2
<1>4. ASSUME NEW k \in 1 .. Len(v)
      PROVE  f[i + Len(u) + k - 1] = v[k]
  <2>1. Len(u) + k \in 1 .. (Len(u) + Len(v)) /\ ~(Len(u) + k <= Len(u))
    BY <1>1
  <2>2. f[i + (Len(u) + k) - 1] = v[(Len(u) + k) - Len(u)]
    BY <1>1, <1>2, <2>1
  <2>3. (Len(u) + k) - Len(u) = k /\ i + (Len(u) + k) - 1 = i + Len(u) + k - 1
    BY <1>1
  <2> QED
    BY <2>2, <2>3
<1> QED
  BY <1>1, <1>2, <1>3, <1>4 DEF Occurs

LEMMA OccursOne ==
  ASSUME NEW f \in Bytes, NEW i \in Nat \ {0}, NEW ch, Occurs(f, i, <<ch>>)
  PROVE  i \in 1 .. Len(f) /\ f[i] = ch
<1>1. Len(f) \in Nat /\ Len(<<ch>>) = 1 /\ <<ch>>[1] = ch /\ 1 \in 1 .. 1 /\ i + 1 - 1 = i
  BY DEF Bytes
<1>2. i + 1 <= Len(f) + 1 /\ f[i + 1 - 1] = ch
  BY <1>1 DEF Occurs
<1> QED
  BY <1>1, <1>2

LEMMA OccursTwo ==
  ASSUME NEW f \in Bytes, NEW i \in Nat \ {0}, NEW ch, NEW ch2, Occurs(f, i, <<ch, ch2>>)
  PROVE  i \in 1 .. Len(f) /\ i + 1 <= Len(f) /\ f[i] = ch /\ f[i + 1] = ch2
<1>1. /\ Len(f) \in Nat /\ Len(<<ch, ch2>>) = 2 /\ <<ch, ch2>>[1] = ch /\ <<ch, ch2>>[2] = ch2
      /\ 1 \in 1 .. 2 /\ 2 \in 1 .. 2 /\ i + 1 - 1 = i /\ i + 2 - 1 = i + 1
  BY DEF Bytes
<1>2. i + 2 <= Len(f) + 1 /\ f[i + 1 - 1] = ch /\ f[i + 2 - 1] = ch2
  BY <1>1 DEF Occurs
<1> QED
  BY <1>1, <1>2

\* The reader moves on over a character that means nothing to it.
LEMMA PlainScan ==
  ASSUME NEW f \in Bytes, NEW i \in 1 .. Len(f), f[i] # Quote, f[i] \notin LineEnds
  PROVE  Scan(f)[i][FALSE] = Scan(f)[i + 1][FALSE]
<1>1. i \in Positions(f) /\ FALSE \in BOOLEAN /\ ~(i > Len(f))
  BY DEF Positions, Bytes
<1>2. Scan(f)[i][FALSE] = ScanStep(f, Scan(f), i, FALSE)
  BY <1>1, ScanSteps
<1> QED
  BY <1>1, <1>2 DEF ScanStep

----------------------------------------------------------------------------
(***************************************************************************)
(* write_csv_string.                                                       *)
(***************************************************************************)
QuotedChar(ch) == IF ch = Quote THEN <<Quote, Quote>> ELSE <<ch>>

Doubled(t) == FlattenSeq([i \in DOMAIN t |-> QuotedChar(t[i])])

LEMMA DoubledSteps ==
  /\ Doubled(<<>>) = <<>>
  /\ \A t \in Bytes : Doubled(t) \in Bytes
  /\ \A t \in Bytes, ch \in Char : Doubled(Append(t, ch)) = Doubled(t) \o QuotedChar(ch)
<1>1. \A ch \in Char : QuotedChar(ch) \in Bytes
  BY SymbolsAssumption, SmallSeqs DEF QuotedChar, Bytes
<1> DEFINE quoted(t) == [i \in DOMAIN t |-> QuotedChar(t[i])]
<1>2. ASSUME NEW t \in Bytes
      PROVE  quoted(t) \in Seq(Bytes) /\ Len(quoted(t)) = Len(t)
  <2>1. Len(t) \in Nat /\ DOMAIN t = 1 .. Len(t) /\ \A i \in 1 .. Len(t) : t[i] \in Char
    BY DEF Bytes
  <2>2. quoted(t) \in [1 .. Len(t) -> Bytes]
    BY <1>1, <2>1
  <2> HIDE DEF quoted
  <2> QED
    BY <2>1, <2>2, FunctionIsSeq
<1>3. Doubled(<<>>) = <<>>
  <2>1. quoted(<<>>) = <<>>
    OBVIOUS
  <2> QED
    BY <2>1, FlattenEmpty DEF Doubled
<1>4. \A t \in Bytes : Doubled(t) \in Bytes
  <2>1. \A t : Doubled(t) = FlattenSeq(quoted(t))
    BY DEF Doubled
  <2> HIDE DEF quoted
  <2> QED
    BY <1>2, <2>1, FlattenType DEF Bytes
<1>5. ASSUME NEW t \in Bytes, NEW ch \in Char
      PROVE  Doubled(Append(t, ch)) = Doubled(t) \o QuotedChar(ch)
  <2>1. /\ Append(t, ch) \in Bytes /\ Len(Append(t, ch)) = Len(t) + 1 /\ Len(t) \in Nat
        /\ \A i \in 1 .. Len(t) : Append(t, ch)[i] = t[i]
        /\ Append(t, ch)[Len(t) + 1] = ch
    BY AppendProperties DEF Bytes
  <2>2. /\ \A i \in 1 .. Len(t) : quoted(t)[i] = QuotedChar(t[i])
        /\ \A i \in 1 .. (Len(t) + 1) : quoted(Append(t, ch))[i] = QuotedChar(Append(t, ch)[i])
    <3>1. DOMAIN t = 1 .. Len(t) /\ DOMAIN Append(t, ch) = 1 .. (Len(t) + 1)
      BY <2>1 DEF Bytes
    <3> QED
      BY <3>1
  <2>3. /\ quoted(t) \in Seq(Bytes) /\ Len(quoted(t)) = Len(t)
        /\ quoted(Append(t, ch)) \in Seq(Bytes) /\ Len(quoted(Append(t, ch))) = Len(t) + 1
    BY <1>2, <2>1
  <2> DEFINE q == quoted(t)
             qq == quoted(Append(t, ch))
  <2>4. QuotedChar(ch) \in Bytes
    BY <1>1
  <2>5. /\ \A i \in 1 .. Len(t) : qq[i] = q[i]
        /\ qq[Len(t) + 1] = QuotedChar(ch)
    <3>1. \A i \in 1 .. Len(t) : i \in 1 .. (Len(t) + 1)
      BY <2>1
    <3> HIDE DEF quoted
    <3> QED
      BY <2>1, <2>2, <3>1
  <2>6. q \in Seq(Bytes) /\ qq \in Seq(Bytes) /\ Len(q) = Len(t) /\ Len(qq) = Len(t) + 1
    BY <2>3
  <2>7. Doubled(t) = FlattenSeq(q) /\ Doubled(Append(t, ch)) = FlattenSeq(qq)
    BY DEF Doubled
  <2> HIDE DEF quoted, q, qq
  <2>8. qq = Append(q, QuotedChar(ch))
    <3>1. /\ Append(q, QuotedChar(ch)) \in Seq(Bytes)
          /\ Len(Append(q, QuotedChar(ch))) = Len(q) + 1
          /\ \A i \in 1 .. Len(q) : Append(q, QuotedChar(ch))[i] = q[i]
          /\ Append(q, QuotedChar(ch))[Len(q) + 1] = QuotedChar(ch)
      BY <2>4, <2>6, AppendProperties
    <3>2. \A i \in 1 .. Len(qq) : qq[i] = Append(q, QuotedChar(ch))[i]
      BY <2>1, <2>5, <2>6, <3>1
    <3> QED
      BY <2>6, <3>1, <3>2, SeqEqual
  <2> QED
    BY <2>4, <2>6, <2>7, <2>8, FlattenAppend DEF Bytes
<1> QED
  BY <1>3, <1>4, <1>5

LEMMA WriteStringIs ==
  ASSUME NEW t \in Bytes
  PROVE  WriteString(t) = <<Quote>> \o Doubled(t) \o <<Quote>>
BY DEF WriteString, Doubled, QuotedChar

\* No two of the symbols the codec looks for are the same.
LEMMA Marks ==
  /\ Quote # Comma /\ Quote # Bom /\ Comma # Bom
  /\ LineEnds \cap {Quote, Comma, Bom} = {}
  /\ \A d \in 0 .. 9 : Digit[d] \notin {Quote, Comma, LF, CR, Bom}
  /\ "-" \notin {Quote, Comma, LF, CR, Bom}
<1>1. \A d \in 0 .. 9 : Digit[d] \in {"0", "1", "2", "3", "4", "5", "6", "7", "8", "9"}
  <2>1. \A d \in 0 .. 9 : Digit[d] = <<"0", "1", "2", "3", "4", "5", "6", "7", "8", "9">>[d + 1]
    BY DEF Digit
  <2>2. \A d \in 1 .. 10 : <<"0", "1", "2", "3", "4", "5", "6", "7", "8", "9">>[d]
                               \in {"0", "1", "2", "3", "4", "5", "6", "7", "8", "9"}
    OBVIOUS
  <2>3. \A d \in 0 .. 9 : d + 1 \in 1 .. 10
    OBVIOUS
  <2> QED
    BY <2>1, <2>2, <2>3
<1>2. {"0", "1", "2", "3", "4", "5", "6", "7", "8", "9"} \cap {Quote, Comma, LF, CR, Bom} = {}
  BY DEF Quote, Comma, Bom, LF, CR
<1>3. "-" \notin {Quote, Comma, LF, CR, Bom}
  BY DEF Quote, Comma, Bom, LF, CR
<1>4. Quote # Comma /\ Quote # Bom /\ Comma # Bom /\ LineEnds \cap {Quote, Comma, Bom} = {}
  BY DEF Quote, Comma, Bom, LF, CR, LineEnds
<1> QED
  BY <1>1, <1>2, <1>3, <1>4

\* Inside quotes the reader moves over what stands there for a text.
LEMMA DoubledScan ==
  ASSUME NEW f \in Bytes
  PROVE  \A t \in Bytes, i \in Nat \ {0} :
           Occurs(f, i, Doubled(t)) => Scan(f)[i][TRUE] = Scan(f)[i + Len(Doubled(t))][TRUE]
<1> DEFINE Passes(t) == \A i \in Nat \ {0} :
                 Occurs(f, i, Doubled(t)) =>
                   Scan(f)[i][TRUE] = Scan(f)[i + Len(Doubled(t))][TRUE]
           P == {t \in Bytes : Passes(t)}
<1>1. <<>> \in P
  <2>1. Doubled(<<>>) = <<>> /\ Len(<<>>) = 0 /\ <<>> \in Bytes
    BY DoubledSteps DEF Bytes
  <2>2. \A i \in Nat : i + Len(Doubled(<<>>)) = i
    BY <2>1
  <2>3. Passes(<<>>)
    BY <2>2
  <2> HIDE DEF Passes
  <2> QED
    BY <2>1, <2>3
<1>2. ASSUME NEW t \in Bytes, NEW ch \in Char, t \in P
      PROVE  Append(t, ch) \in P
  <2>1. Append(t, ch) \in Bytes
    BY DEF Bytes
  <2>2. ASSUME NEW i \in Nat \ {0}, Occurs(f, i, Doubled(Append(t, ch)))
        PROVE  Scan(f)[i][TRUE] = Scan(f)[i + Len(Doubled(Append(t, ch)))][TRUE]
    <3> DEFINE d == Doubled(t)
               q == QuotedChar(ch)
               j == i + Len(d)
    <3>1. d \in Bytes /\ q \in Bytes /\ Doubled(Append(t, ch)) = d \o q
      <4>1. Quote \in Char /\ q \in Bytes
        BY SymbolsAssumption, SmallSeqs DEF QuotedChar, Bytes
      <4> QED
        BY <4>1, DoubledSteps
    <3> HIDE DEF d, q
    <3>2. /\ Occurs(f, i, d) /\ Occurs(f, j, q) /\ j \in Nat \ {0}
          /\ i + Len(d \o q) = j + Len(q)
      BY <2>2, <3>1, OccursParts
    <3>3. Scan(f)[i][TRUE] = Scan(f)[j][TRUE]
      BY <1>2, <3>2 DEF d
    <3> HIDE DEF j
    <3>4. Scan(f)[j][TRUE] = Scan(f)[j + Len(q)][TRUE]
      <4>1. CASE ch = Quote
        <5>1. q = <<Quote, Quote>> /\ Len(q) = 2
          BY <4>1 DEF q, QuotedChar
        <5>0. Occurs(f, j, <<Quote, Quote>>)
          BY <3>2, <5>1
        <5>2. j \in 1 .. Len(f) /\ j + 1 <= Len(f) /\ f[j] = Quote /\ f[j + 1] = Quote
          BY <3>2, <5>0, OccursTwo
        <5>3. j \in Positions(f) /\ ~(j > Len(f)) /\ EscapedQuote(f, j)
          BY <5>2 DEF Positions, EscapedQuote, Bytes
        <5>4. Scan(f)[j][TRUE] = ScanStep(f, Scan(f), j, TRUE)
          BY <5>3, ScanSteps
        <5> QED
          BY <5>1, <5>2, <5>3, <5>4 DEF ScanStep
      <4>2. CASE ch # Quote
        <5>1. q = <<ch>> /\ Len(q) = 1
          BY <4>2 DEF q, QuotedChar
        <5>2. j \in 1 .. Len(f) /\ f[j] = ch
          BY <3>2, <5>1, OccursOne
        <5>3. j \in Positions(f) /\ ~(j > Len(f))
          BY <5>2 DEF Positions, Bytes
        <5>4. Scan(f)[j][TRUE] = ScanStep(f, Scan(f), j, TRUE)
          BY <5>3, ScanSteps
        <5> QED
          BY <4>2, <5>1, <5>2, <5>3, <5>4 DEF ScanStep
      <4> QED
        BY <4>1, <4>2
    <3> QED
      BY <3>1, <3>2, <3>3, <3>4
  <2> QED
    BY <2>1, <2>2
<1>3. \A t \in Bytes : t \in P
  <2>1. <<>> \in P /\ \A t \in Seq(Char), ch \in Char : t \in P => Append(t, ch) \in P
    BY <1>1, <1>2 DEF Bytes
  <2> HIDE DEF P
  <2> QED
    BY <2>1, LongerAndLonger DEF Bytes
<1> QED
  BY <1>3

\* The parser of a record takes the text out of what stands there for it.
LEMMA DoubledRead ==
  ASSUME NEW rec \in Bytes
  PROVE  \A t \in Bytes, i \in Nat \ {0} :
           Occurs(rec, i, Doubled(t)) =>
             LET rest == QuotedBody(rec)[i + Len(Doubled(t))]
             IN  QuotedBody(rec)[i] = [text |-> t \o rest.text, next |-> rest.next, ok |-> rest.ok]
<1> DEFINE Read(t, rest) == [text |-> t \o rest.text, next |-> rest.next, ok |-> rest.ok]
           Passes(t) == \A i \in Nat \ {0} :
                 Occurs(rec, i, Doubled(t)) =>
                   QuotedBody(rec)[i] = Read(t, QuotedBody(rec)[i + Len(Doubled(t))])
           P == {t \in Bytes : Passes(t)}
<1>0. \A i \in Nat \ {0} : i <= Len(rec) + 1 => i \in Positions(rec) /\ QuotedBody(rec)[i] \in FieldRead
  <2>1. \A i \in Nat \ {0} : i <= Len(rec) + 1 => i \in Positions(rec)
    BY DEF Positions, Bytes
  <2> QED
    BY <2>1, BodySteps DEF FieldsFrom
<1>1. <<>> \in P
  <2>1. Doubled(<<>>) = <<>> /\ Len(<<>>) = 0 /\ \A i \in Nat : i + Len(<<>>) = i
    BY DoubledSteps
  <2>2. ASSUME NEW i \in Nat \ {0}, Occurs(rec, i, <<>>)
        PROVE  QuotedBody(rec)[i] = Read(<<>>, QuotedBody(rec)[i])
    <3>1. QuotedBody(rec)[i] \in FieldRead
      BY <1>0, <2>1, <2>2 DEF Occurs
    <3>2. <<>> \o QuotedBody(rec)[i].text = QuotedBody(rec)[i].text
      BY <3>1, ConcatEmptySeq DEF FieldRead, Bytes
    <3> QED
      BY <3>1, <3>2 DEF FieldRead
  <2> QED
    BY <2>1, <2>2 DEF Bytes
<1>2. ASSUME NEW t \in Bytes, NEW ch \in Char, t \in P
      PROVE  Append(t, ch) \in P
  <2>1. Append(t, ch) \in Bytes
    BY DEF Bytes
  <2>2. ASSUME NEW i \in Nat \ {0}, Occurs(rec, i, Doubled(Append(t, ch)))
        PROVE  QuotedBody(rec)[i]
                 = Read(Append(t, ch), QuotedBody(rec)[i + Len(Doubled(Append(t, ch)))])
    <3> DEFINE d == Doubled(t)
               q == QuotedChar(ch)
               j == i + Len(d)
               rest == QuotedBody(rec)[j + Len(q)]
    <3>1. d \in Bytes /\ q \in Bytes /\ Doubled(Append(t, ch)) = d \o q
      <4>1. Quote \in Char /\ q \in Bytes
        BY SymbolsAssumption, SmallSeqs DEF QuotedChar, Bytes
      <4> QED
        BY <4>1, DoubledSteps
    <3> HIDE DEF d, q
    <3>2. /\ Occurs(rec, i, d) /\ Occurs(rec, j, q) /\ j \in Nat \ {0}
          /\ i + Len(d \o q) = j + Len(q)
      BY <2>2, <3>1, OccursParts
    <3>3. QuotedBody(rec)[i] = Read(t, QuotedBody(rec)[j])
      BY <1>2, <3>2 DEF d
    <3> HIDE DEF j
    <3>4. rest \in FieldRead
      <4>1. j + Len(q) \in Nat \ {0} /\ j + Len(q) <= Len(rec) + 1
        BY <3>1, <3>2 DEF Occurs, Bytes
      <4> QED
        BY <1>0, <4>1
    <3>5. QuotedBody(rec)[j] = [rest EXCEPT !.text = <<ch>> \o @]
      <4>1. CASE ch = Quote
        <5>1. q = <<Quote, Quote>> /\ Len(q) = 2
          BY <4>1 DEF q, QuotedChar
        <5>0. Occurs(rec, j, <<Quote, Quote>>)
          BY <3>2, <5>1
        <5>2. j \in 1 .. Len(rec) /\ j + 1 <= Len(rec) /\ rec[j] = Quote /\ rec[j + 1] = Quote
          BY <3>2, <5>0, OccursTwo
        <5>3. j \in Positions(rec) /\ ~(j > Len(rec)) /\ EscapedQuote(rec, j)
          BY <5>2 DEF Positions, EscapedQuote, Bytes
        <5>4. QuotedBody(rec)[j] = BodyStep(rec, QuotedBody(rec), j)
          BY <5>3, BodySteps
        <5> QED
          BY <4>1, <5>1, <5>2, <5>3, <5>4 DEF BodyStep
      <4>2. CASE ch # Quote
        <5>1. q = <<ch>> /\ Len(q) = 1
          BY <4>2 DEF q, QuotedChar
        <5>2. j \in 1 .. Len(rec) /\ rec[j] = ch
          BY <3>2, <5>1, OccursOne
        <5>3. j \in Positions(rec) /\ ~(j > Len(rec))
          BY <5>2 DEF Positions, Bytes
        <5>4. QuotedBody(rec)[j] = BodyStep(rec, QuotedBody(rec), j)
          BY <5>3, BodySteps
        <5> QED
          BY <4>2, <5>1, <5>2, <5>3, <5>4 DEF BodyStep
      <4> QED
        BY <4>1, <4>2
    <3> HIDE DEF rest
    <3>6. t \o (<<ch>> \o rest.text) = Append(t, ch) \o rest.text
      <4>1. rest.text \in Seq(Char) /\ t \in Seq(Char) /\ <<ch>> \in Seq(Char)
        BY <3>4 DEF FieldRead, Bytes
      <4> DEFINE x == <<ch>>
      <4>2. x \in Seq(Char)
        BY <4>1
      <4> DEFINE y == rest.text
      <4>20. y \in Seq(Char)
        BY <4>1
      <4> HIDE DEF x, y
      <4>3. t \o (x \o y) = (t \o x) \o y
        BY <4>1, <4>2, <4>20, Grouping
      <4> QED
        BY <4>1, <4>3, AppendIsConcat DEF x, y
    <3>7. /\ QuotedBody(rec)[j].text = <<ch>> \o rest.text
          /\ QuotedBody(rec)[j].next = rest.next /\ QuotedBody(rec)[j].ok = rest.ok
      BY <3>4, <3>5 DEF FieldRead
    <3>8. QuotedBody(rec)[i] = Read(Append(t, ch), rest)
      BY <3>3, <3>6, <3>7
    <3> QED
      BY <3>1, <3>2, <3>8 DEF rest
  <2> QED
    BY <2>1, <2>2
<1>3. \A t \in Bytes : t \in P
  <2>1. <<>> \in P /\ \A t \in Seq(Char), ch \in Char : t \in P => Append(t, ch) \in P
    BY <1>1, <1>2 DEF Bytes
  <2> HIDE DEF P
  <2> QED
    BY <2>1, LongerAndLonger DEF Bytes
<1> QED
  BY <1>3

----------------------------------------------------------------------------
(***************************************************************************)
(* A cell: what is written for one field and the text read back from it.   *)
(***************************************************************************)
\* The reader comes to the cell's end still outside quotes.
Passed(w) ==
  \A f \in Bytes, i \in Nat \ {0} :
    Occurs(f, i, w) /\ (i + Len(w) <= Len(f) => f[i + Len(w)] # Quote) =>
      Scan(f)[i][FALSE] = Scan(f)[i + Len(w)][FALSE]

\* The parser finds the text, and that the field ends where the cell does.
ReadAs(w, t) ==
  \A rec \in Bytes, p \in Nat \ {0} :
    Occurs(rec, p, w) /\ (p + Len(w) <= Len(rec) => rec[p + Len(w)] = Comma) =>
      FieldAt(rec, p) = [text |-> t, next |-> p + Len(w), ok |-> TRUE]

Cell(w, t) == w \in Bytes /\ t \in Bytes /\ Passed(w) /\ ReadAs(w, t)

\* What begins so is not taken for a part of the line end before it.
Visible(w) == w # <<>> /\ w[1] \notin LineEnds

\* write_csv_string writes a cell for every text.
LEMMA QuotedCell ==
  ASSUME NEW t \in Bytes
  PROVE  Cell(WriteString(t), t) /\ Visible(WriteString(t))
<1> DEFINE w == WriteString(t)
           d == Doubled(t)
           open == <<Quote>>
<1>0. open \in Bytes /\ Len(open) = 1 /\ open[1] = Quote
  BY SymbolsAssumption DEF Bytes
<1>00. \A f \in Bytes, i \in Nat \ {0} : Occurs(f, i, open) => i \in 1 .. Len(f) /\ f[i] = Quote
  BY OccursOne
<1>01. w = open \o d \o open
  BY WriteStringIs
<1> HIDE DEF open
<1>1. /\ open \in Bytes /\ d \in Bytes /\ open \o d \in Bytes
      /\ w \in Bytes /\ w = (open \o d) \o open
  <2>1. open \in Bytes /\ d \in Bytes
    BY <1>0, DoubledSteps
  <2> HIDE DEF w, d
  <2> QED
    BY <1>01, <2>1, ConcatProperties DEF Bytes
<1>2. w # <<>> /\ w[1] = Quote
  <2> HIDE DEF w, d
  <2>0. Len(d) \in Nat /\ Len(open \o d) = Len(open) + Len(d) /\ open \o d \in Bytes
        /\ \A k \in 1 .. Len(open) + Len(d) :
             (open \o d)[k] = IF k <= Len(open) THEN open[k] ELSE d[k - Len(open)]
    <3>1. open \in Seq(Char) /\ d \in Seq(Char)
      BY <1>1 DEF Bytes
    <3> QED
      BY <3>1, ConcatProperties DEF Bytes
  <2>1. Len(open \o d) = 1 + Len(d) /\ (open \o d)[1] = Quote
    BY <1>0, <2>0
  <2>2. Len(w) = 1 + Len(d) + 1 /\ w[1] = (open \o d)[1]
    BY <1>0, <1>1, <2>0, <2>1 DEF Bytes
  <2> QED
    BY <2>1, <2>2
<1> HIDE DEF w
<1>3. ASSUME NEW f \in Bytes, NEW i \in Nat \ {0}, Occurs(f, i, w)
      PROVE  LET j == i + 1
                 k == j + Len(d)
             IN  /\ i \in 1 .. Len(f) /\ f[i] = Quote /\ j \in Nat \ {0} /\ Occurs(f, j, d)
                 /\ k \in 1 .. Len(f) /\ f[k] = Quote /\ k + 1 = i + Len(w)
  <2>1. /\ Occurs(f, i, open \o d) /\ Occurs(f, i + Len(open \o d), open)
        /\ i + Len(open \o d) \in Nat \ {0}
        /\ i + Len(w) = i + Len(open \o d) + Len(open)
    <3> DEFINE od == open \o d
    <3>1. od \in Bytes /\ w = od \o open
      BY <1>1
    <3> HIDE DEF od
    <3>3. Occurs(f, i, od \o open)
      BY <1>3, <3>1
    <3>4. i + Len(w) = i + Len(od \o open) /\ od \in Bytes /\ open \in Bytes
      BY <1>0, <3>1
    <3>2. /\ Occurs(f, i, od) /\ Occurs(f, i + Len(od), open)
          /\ i + Len(od) \in Nat \ {0}
          /\ i + Len(od \o open) = i + Len(od) + Len(open)
      <4>1. od \in Bytes
        BY <3>1
      <4>2. open \in Bytes
        BY <1>0
      <4> QED
        BY <3>3, <4>1, <4>2, OccursParts
    <3> QED
      BY <3>2, <3>4 DEF od
  <2>2. /\ Occurs(f, i, open) /\ Occurs(f, i + Len(open), d)
        /\ i + Len(open \o d) = i + Len(open) + Len(d)
    BY <1>1, <2>1, OccursParts
  <2>3. Len(open) = 1
    BY <1>0
  <2>4. i \in 1 .. Len(f) /\ f[i] = Quote
    BY <1>00, <2>2
  <2> DEFINE m == i + Len(open \o d)
  <2>5. m \in 1 .. Len(f) /\ f[m] = Quote
    BY <1>00, <2>1
  <2>6. m = i + 1 + Len(d) /\ m + 1 = i + Len(w)
    BY <2>1, <2>2, <2>3
  <2> HIDE DEF m
  <2> QED
    BY <2>2, <2>3, <2>4, <2>5, <2>6
<1>4. Passed(w)
  <2> SUFFICES ASSUME NEW f \in Bytes, NEW i \in Nat \ {0}, Occurs(f, i, w),
                      i + Len(w) <= Len(f) => f[i + Len(w)] # Quote
               PROVE  Scan(f)[i][FALSE] = Scan(f)[i + Len(w)][FALSE]
    BY DEF Passed
  <2> DEFINE j == i + 1
             k == j + Len(d)
  <2>1. /\ i \in 1 .. Len(f) /\ f[i] = Quote /\ j \in Nat \ {0} /\ Occurs(f, j, d)
        /\ k \in 1 .. Len(f) /\ f[k] = Quote /\ k + 1 = i + Len(w)
    BY <1>3
  <2>2. Scan(f)[i][FALSE] = Scan(f)[j][TRUE]
    <3>1. i \in Positions(f) /\ ~(i > Len(f))
      BY <2>1 DEF Positions, Bytes
    <3>2. Scan(f)[i][FALSE] = ScanStep(f, Scan(f), i, FALSE)
      BY <3>1, ScanSteps
    <3> QED
      BY <2>1, <3>1, <3>2 DEF ScanStep
  <2>3. Scan(f)[j][TRUE] = Scan(f)[k][TRUE]
    BY <2>1, DoubledScan
  <2> HIDE DEF k
  <2>4. Scan(f)[k][TRUE] = Scan(f)[k + 1][FALSE]
    <3>1. k \in Positions(f) /\ ~(k > Len(f))
      BY <2>1 DEF Positions, Bytes
    <3>2. ~EscapedQuote(f, k)
      <4>1. ASSUME k < Len(f) PROVE f[k + 1] # Quote
        BY <2>1, <4>1 DEF Bytes
      <4> QED
        BY <4>1 DEF EscapedQuote
    <3>3. Scan(f)[k][TRUE] = ScanStep(f, Scan(f), k, TRUE)
      BY <3>1, ScanSteps
    <3> QED
      BY <2>1, <3>1, <3>2, <3>3 DEF ScanStep
  <2> QED
    BY <2>1, <2>2, <2>3, <2>4
<1>5. ReadAs(w, t)
  <2> SUFFICES ASSUME NEW rec \in Bytes, NEW p \in Nat \ {0}, Occurs(rec, p, w),
                      p + Len(w) <= Len(rec) => rec[p + Len(w)] = Comma
               PROVE  FieldAt(rec, p) = [text |-> t, next |-> p + Len(w), ok |-> TRUE]
    BY DEF ReadAs
  <2> DEFINE j == p + 1
             k == j + Len(d)
  <2>1. /\ p \in 1 .. Len(rec) /\ rec[p] = Quote /\ j \in Nat \ {0} /\ Occurs(rec, j, d)
        /\ k \in 1 .. Len(rec) /\ rec[k] = Quote /\ k + 1 = p + Len(w)
    BY <1>3
  <2>2. FieldAt(rec, p) = QuotedBody(rec)[j]
    BY <2>1 DEF FieldAt
  <2>3. QuotedBody(rec)[j] = [text |-> t \o QuotedBody(rec)[k].text,
                              next |-> QuotedBody(rec)[k].next, ok |-> QuotedBody(rec)[k].ok]
    BY <2>1, DoubledRead
  <2> HIDE DEF k
  <2>4. QuotedBody(rec)[k] = [text |-> <<>>, next |-> k + 1, ok |-> TRUE]
    <3>1. k \in Positions(rec) /\ ~(k > Len(rec))
      BY <2>1 DEF Positions, Bytes
    <3>2. k = Len(rec) \/ rec[k + 1] = Comma
      BY <2>1 DEF Bytes
    <3>3. ~EscapedQuote(rec, k)
      BY <2>1, <3>2, Marks DEF EscapedQuote
    <3>4. QuotedBody(rec)[k] = BodyStep(rec, QuotedBody(rec), k)
      BY <3>1, BodySteps
    <3> QED
      BY <2>1, <3>1, <3>2, <3>3, <3>4 DEF BodyStep
  <2>5. t \o <<>> = t
    BY ConcatEmptySeq DEF Bytes
  <2> DEFINE e == p + Len(w)
  <2>6. k + 1 = e
    BY <2>1
  <2> HIDE DEF j, w, e
  <2>7. FieldAt(rec, p) = [text |-> t, next |-> e, ok |-> TRUE]
    <3> DEFINE b == QuotedBody(rec)[k]
    <3>1. b.text = <<>> /\ b.next = e /\ b.ok = TRUE
      BY <2>4, <2>6
    <3>2. FieldAt(rec, p) = [text |-> t \o b.text, next |-> b.next, ok |-> b.ok]
      BY <2>2, <2>3
    <3> HIDE DEF b
    <3> QED
      BY <2>5, <3>1, <3>2
  <2> QED
    BY <2>7 DEF e
<1>6. Quote \notin LineEnds
  BY SymbolsAssumption
<1> QED
  BY <1>1, <1>2, <1>4, <1>5, <1>6 DEF Cell, Visible, w

\* A text without quotes, commas and line ends is a cell as it is.
IsPlain(w) == \A k \in 1 .. Len(w) : w[k] \notin {Quote, Comma, LF, CR}

LEMMA PlainCell ==
  ASSUME NEW w \in Bytes, w # <<>>, IsPlain(w)
  PROVE  Cell(w, w) /\ Visible(w)
<1>1. Len(w) \in Nat \ {0} /\ \A k \in 1 .. Len(w) : w[k] \in Char /\ w[k] \notin {Quote, Comma, LF, CR}
  <2>1. Len(w) \in Nat \ {0}
    BY EmptySeq DEF Bytes
  <2>2. \A k \in 1 .. Len(w) : w[k] \in Char
    BY DEF Bytes
  <2> QED
    BY <2>1, <2>2 DEF IsPlain
<1>2. Passed(w)
  <2> SUFFICES ASSUME NEW f \in Bytes, NEW i \in Nat \ {0}, Occurs(f, i, w)
               PROVE  Scan(f)[i][FALSE] = Scan(f)[i + Len(w)][FALSE]
    BY DEF Passed
  <2>1. /\ i + Len(w) <= Len(f) + 1 /\ Len(f) \in Nat
        /\ \A k \in 1 .. Len(w) : f[i + k - 1] = w[k]
    BY DEF Occurs, Bytes
  <2> DEFINE Same(k) == Scan(f)[i][FALSE] = Scan(f)[i + k][FALSE]
             S == {k \in Nat : k <= Len(w) => Same(k)}
  <2>2. 0 \in S
    BY <1>1
  <2>3. ASSUME NEW k \in Nat, k \in S
        PROVE  k + 1 \in S
    <3> SUFFICES ASSUME k + 1 <= Len(w)
                 PROVE  Same(k + 1)
      <4> HIDE DEF Same
      <4> QED
        OBVIOUS
    <3>1. Same(k)
      <4> HIDE DEF Same
      <4> QED
        BY <1>1, <2>3
    <3>2. k + 1 \in 1 .. Len(w) /\ i + k \in 1 .. Len(f) /\ i + (k + 1) - 1 = i + k
      BY <1>1, <2>1
    <3>3. f[i + k] = w[k + 1]
      BY <2>1, <3>2
    <3>4. f[i + k] # Quote /\ f[i + k] \notin LineEnds
      BY <1>1, <3>2, <3>3 DEF LineEnds
    <3> DEFINE j == i + k
    <3>5. j \in 1 .. Len(f) /\ f[j] # Quote /\ f[j] \notin LineEnds /\ i + (k + 1) = j + 1
      BY <3>2, <3>4
    <3> HIDE DEF j
    <3>6. Scan(f)[j][FALSE] = Scan(f)[j + 1][FALSE]
      BY <3>5, PlainScan
    <3> QED
      BY <3>1, <3>5, <3>6 DEF j
  <2>4. Len(w) \in S
    <3> HIDE DEF S
    <3> QED
      BY <1>1, <2>2, <2>3, NatSetInduction
  <2>5. Same(Len(w))
    <3> HIDE DEF Same
    <3> QED
      BY <1>1, <2>4
  <2> QED
    BY <2>5
<1>3. ReadAs(w, w)
  <2> SUFFICES ASSUME NEW rec \in Bytes, NEW p \in Nat \ {0}, Occurs(rec, p, w),
                      p + Len(w) <= Len(rec) => rec[p + Len(w)] = Comma
               PROVE  FieldAt(rec, p) = [text |-> w, next |-> p + Len(w), ok |-> TRUE]
    BY DEF ReadAs
  <2> DEFINE ends == {j \in p .. Len(rec) : rec[j] = Comma}
             n == p + Len(w)
             e == IF ends = {} THEN Len(rec) + 1 ELSE Min(ends)
  <2>1. /\ n <= Len(rec) + 1 /\ Len(rec) \in Nat /\ n \in Nat /\ n > p
        /\ \A k \in 1 .. Len(w) : rec[p + k - 1] = w[k]
    BY <1>1 DEF Occurs, Bytes
  <2>2. \A j \in p .. (n - 1) : rec[j] = w[j - p + 1] /\ rec[j] \notin {Quote, Comma, LF, CR}
    <3>1. \A j \in p .. (n - 1) : j - p + 1 \in 1 .. Len(w) /\ p + (j - p + 1) - 1 = j
      BY <1>1, <2>1
    <3> QED
      BY <1>1, <2>1, <3>1
  <2>3. p \in p .. (n - 1) /\ rec[p] # Quote
    BY <2>1, <2>2
  <2>4. e = n
    <3>1. CASE n = Len(rec) + 1
      <4>1. ends = {}
        BY <2>1, <2>2, <3>1
      <4> QED
        BY <3>1, <4>1
    <3>2. CASE n <= Len(rec)
      <4>1. n \in ends /\ \A j \in ends : n <= j
        BY <2>1, <2>2, <3>2
      <4>2. ends \subseteq Nat
        BY <2>1
      <4> HIDE DEF ends, n
      <4>3. Min(ends) \in ends /\ \A j \in ends : Min(ends) <= j
        BY <4>1, <4>2 DEF Min
      <4>4. Min(ends) \in Nat /\ n \in Nat /\ n <= Min(ends) /\ Min(ends) <= n
        BY <2>1, <4>1, <4>2, <4>3
      <4>5. Min(ends) = n
        BY <4>4
      <4> QED
        BY <4>1, <4>5
    <3>3. n = Len(rec) + 1 \/ n <= Len(rec)
      BY <2>1
    <3> HIDE DEF e, n
    <3> QED
      BY <3>1, <3>2, <3>3
  <2>5. SubSeq(rec, p, n - 1) = w
    <3>1. p \in Int /\ n - 1 \in Int /\ \A j \in p .. (n - 1) : rec[j] \in Char
      BY <2>1 DEF Bytes
    <3> HIDE DEF n
    <3>2. /\ SubSeq(rec, p, n - 1) \in Seq(Char)
          /\ Len(SubSeq(rec, p, n - 1)) = IF p <= n - 1 THEN (n - 1) - p + 1 ELSE 0
          /\ \A j \in 1 .. ((n - 1) - p + 1) : SubSeq(rec, p, n - 1)[j] = rec[p + j - 1]
      BY <3>1, SubSeqProperties
    <3>3. Len(w) = (n - 1) - p + 1 /\ p <= n - 1
      BY <1>1, <2>1 DEF n
    <3>4. /\ Len(SubSeq(rec, p, n - 1)) = Len(w)
          /\ \A j \in 1 .. Len(w) : SubSeq(rec, p, n - 1)[j] = w[j]
      BY <2>1, <3>2, <3>3
    <3> QED
      BY <3>2, <3>4, SeqEqual DEF Bytes
  <2>6. FieldAt(rec, p) = PlainField(rec, p)
    BY <2>3 DEF FieldAt
  <2>7. PlainField(rec, p) = [text |-> SubSeq(rec, p, e - 1), next |-> e, ok |-> TRUE]
    BY DEF PlainField
  <2> HIDE DEF e
  <2> QED
    BY <2>4, <2>5, <2>6, <2>7
<1>4. w[1] \notin LineEnds
  <2>1. 1 \in 1 .. Len(w)
    BY <1>1
  <2> QED
    BY <1>1, <2>1 DEF LineEnds
<1> QED
  BY <1>2, <1>3, <1>4 DEF Cell, Visible

\* And so is no text at all.
LEMMA EmptyCell == Cell(<<>>, <<>>)
<1>1. <<>> \in Bytes /\ Len(<<>>) = 0
  BY DEF Bytes
<1>2. Passed(<<>>)
  BY <1>1 DEF Passed
<1>3. ASSUME NEW rec \in Bytes, NEW p \in Nat \ {0}, Occurs(rec, p, <<>>),
             p <= Len(rec) => rec[p] = Comma
      PROVE  FieldAt(rec, p) = [text |-> <<>>, next |-> p, ok |-> TRUE]
  <2>1. Len(rec) \in Nat /\ p <= Len(rec) + 1
    BY <1>1, <1>3 DEF Occurs, Bytes
  <2>2. FieldAt(rec, p) = PlainField(rec, p)
    BY <1>3, Marks DEF FieldAt
  <2> DEFINE ends == {j \in p .. Len(rec) : rec[j] = Comma}
             e    == IF ends = {} THEN Len(rec) + 1 ELSE Min(ends)
  <2>3. e = p
    <3>1. CASE p <= Len(rec)
      <4>1. p \in ends /\ \A j \in ends : p <= j
        BY <1>3, <2>1, <3>1
      <4>2. Min(ends) \in ends
        <5>1. ends \subseteq Nat /\ ends # {}
          BY <4>1
        <5> HIDE DEF ends
        <5> QED
          BY <5>1, LeastMember
      <4>3. Min(ends) <= p
        <5> DEFINE least == CHOOSE x \in ends : \A y \in ends : x <= y
        <5>1. Min(ends) = least
          BY DEF Min
        <5>2. least \in ends /\ \A y \in ends : least <= y
          <6> HIDE DEF ends
          <6> QED
            BY <4>1
        <5> HIDE DEF ends
        <5> QED
          BY <4>1, <5>1, <5>2
      <4> QED
        BY <2>1, <4>1, <4>2, <4>3
    <3>2. CASE p > Len(rec)
      BY <2>1, <3>2
    <3> QED
      BY <2>1, <3>1, <3>2
  <2>4. SubSeq(rec, p, p - 1) = <<>>
    BY <2>1
  <2>5. PlainField(rec, p) = [text |-> SubSeq(rec, p, e - 1), next |-> e, ok |-> TRUE]
    BY DEF PlainField
  <2> HIDE DEF e
  <2> QED
    BY <2>2, <2>3, <2>4, <2>5
<1>4. ReadAs(<<>>, <<>>)
  <2> SUFFICES ASSUME NEW rec \in Bytes, NEW p \in Nat \ {0}, Occurs(rec, p, <<>>),
                      p + Len(<<>>) <= Len(rec) => rec[p + Len(<<>>)] = Comma
               PROVE  FieldAt(rec, p) = [text |-> <<>>, next |-> p + Len(<<>>), ok |-> TRUE]
    BY DEF ReadAs
  <2>1. p + Len(<<>>) = p
    BY <1>1
  <2> QED
    BY <1>3, <2>1
<1> QED
  BY <1>1, <1>2, <1>4 DEF Cell

----------------------------------------------------------------------------
(***************************************************************************)
(* Cells side by side, and the line they make.                             *)
(***************************************************************************)
LEMMA JoinedSteps ==
  /\ \A fields \in Seq(Bytes) : Joined(fields) \in Bytes
  /\ \A w \in Bytes : Joined(<<w>>) = w
  /\ \A fields \in Seq(Bytes), w \in Bytes :
       fields # <<>> => Joined(Append(fields, w)) = Joined(fields) \o (<<Comma>> \o w)
<1> DEFINE Part(fields, i) == IF i = 1 THEN fields[i] ELSE <<Comma>> \o fields[i]
           parts(fields) == [i \in DOMAIN fields |-> Part(fields, i)]
<1>1. \A w \in Bytes : <<Comma>> \o w \in Bytes
  <2>1. <<Comma>> \in Bytes
    BY SymbolsAssumption DEF Bytes
  <2> QED
    BY <2>1, ConcatProperties DEF Bytes
<1>2. ASSUME NEW fields \in Seq(Bytes)
      PROVE  /\ parts(fields) \in Seq(Bytes) /\ Len(parts(fields)) = Len(fields)
             /\ \A i \in 1 .. Len(fields) : parts(fields)[i] = Part(fields, i)
  <2>1. Len(fields) \in Nat /\ DOMAIN fields = 1 .. Len(fields) /\ \A i \in 1 .. Len(fields) : fields[i] \in Bytes
    OBVIOUS
  <2>2. \A i \in 1 .. Len(fields) : Part(fields, i) \in Bytes
    BY <1>1, <2>1
  <2> HIDE DEF Part
  <2>3. parts(fields) \in [1 .. Len(fields) -> Bytes] /\ \A i \in 1 .. Len(fields) : parts(fields)[i] = Part(fields, i)
    BY <2>1, <2>2
  <2> HIDE DEF parts
  <2> QED
    BY <2>1, <2>3, FunctionIsSeq
<1>3. \A fields : Joined(fields) = FlattenSeq(parts(fields))
  BY DEF Joined
<1>4. \A fields \in Seq(Bytes) : Joined(fields) \in Bytes
  <2> HIDE DEF parts
  <2> QED
    BY <1>2, <1>3, FlattenType DEF Bytes
<1>5. ASSUME NEW fields \in Seq(Bytes), NEW w \in Bytes
      PROVE  Joined(Append(fields, w)) = Joined(fields) \o Part(Append(fields, w), Len(fields) + 1)
  <2> DEFINE ff == Append(fields, w)
  <2>1. /\ ff \in Seq(Bytes) /\ Len(ff) = Len(fields) + 1 /\ Len(fields) \in Nat
        /\ \A i \in 1 .. Len(fields) : ff[i] = fields[i]
    BY AppendProperties
  <2> HIDE DEF ff
  <2>2. \A i \in 1 .. Len(fields) : Part(ff, i) = Part(fields, i)
    BY <2>1
  <2> DEFINE q == parts(fields)
             qq == parts(ff)
             last == Part(ff, Len(fields) + 1)
  <2> HIDE DEF Part
  <2>3. /\ q \in Seq(Bytes) /\ Len(q) = Len(fields) /\ \A i \in 1 .. Len(fields) : q[i] = Part(fields, i)
        /\ qq \in Seq(Bytes) /\ Len(qq) = Len(fields) + 1
        /\ \A i \in 1 .. (Len(fields) + 1) : qq[i] = Part(ff, i)
    <3> HIDE DEF parts
    <3> QED
      BY <1>2, <2>1
  <2>4. last \in Bytes /\ Len(fields) + 1 \in 1 .. (Len(fields) + 1)
    <3>1. Len(fields) + 1 \in 1 .. (Len(fields) + 1)
      BY <2>1
    <3>2. qq[Len(fields) + 1] \in Bytes
      <4> HIDE DEF qq
      <4> QED
        BY <2>3, <3>1, ElementOfSeq
    <3> HIDE DEF qq
    <3> QED
      BY <2>3, <3>1, <3>2
  <2> HIDE DEF parts, q, qq, last
  <2>5. qq = Append(q, last)
    <3>1. /\ Append(q, last) \in Seq(Bytes) /\ Len(Append(q, last)) = Len(q) + 1
          /\ \A i \in 1 .. Len(q) : Append(q, last)[i] = q[i]
          /\ Append(q, last)[Len(q) + 1] = last
      BY <2>3, <2>4, AppendProperties
    <3>2. \A i \in 1 .. Len(fields) : i \in 1 .. (Len(fields) + 1)
      BY <2>1
    <3>3. \A i \in 1 .. Len(fields) : qq[i] = Append(q, last)[i]
      BY <2>2, <2>3, <3>1, <3>2
    <3>4. qq[Len(fields) + 1] = Append(q, last)[Len(fields) + 1]
      BY <2>3, <2>4, <3>1 DEF last
    <3>5. \A i \in 1 .. Len(qq) : qq[i] = Append(q, last)[i]
      BY <2>1, <2>3, <3>3, <3>4
    <3> QED
      BY <2>3, <3>1, <3>5, SeqEqual
  <2>6. FlattenSeq(Append(q, last)) = FlattenSeq(q) \o last
    BY <2>3, <2>4, FlattenAppend DEF Bytes
  <2>7. Joined(ff) = FlattenSeq(qq) /\ Joined(fields) = FlattenSeq(q)
    BY <1>3 DEF q, qq
  <2> QED
    BY <2>5, <2>6, <2>7 DEF last, ff
<1>6. ASSUME NEW w \in Bytes
      PROVE  Joined(<<w>>) = w
  <2>1. <<>> \in Seq(Bytes) /\ Append(<<>>, w) = <<w>> /\ Len(<<>>) = 0
    OBVIOUS
  <2>2. Part(Append(<<>>, w), 0 + 1) = w
    OBVIOUS
  <2>3. Joined(<<>>) = <<>>
    <3>1. parts(<<>>) = <<>>
      OBVIOUS
    <3> QED
      BY <1>3, <3>1, FlattenEmpty
  <2> HIDE DEF Part
  <2>4. Joined(Append(<<>>, w)) = Joined(<<>>) \o Part(Append(<<>>, w), Len(<<>>) + 1)
    BY <1>5, <2>1
  <2>5. <<>> \o w = w
    BY ConcatEmptySeq DEF Bytes
  <2> QED
    BY <2>1, <2>2, <2>3, <2>4, <2>5
<1>7. ASSUME NEW fields \in Seq(Bytes), NEW w \in Bytes, fields # <<>>
      PROVE  Joined(Append(fields, w)) = Joined(fields) \o (<<Comma>> \o w)
  <2>1. /\ Len(fields) + 1 # 1 /\ Append(fields, w)[Len(fields) + 1] = w
    BY <1>7, EmptySeq, AppendProperties
  <2>2. Part(Append(fields, w), Len(fields) + 1) = <<Comma>> \o w
    BY <2>1
  <2> HIDE DEF Part
  <2> QED
    BY <1>5, <2>2
<1> QED
  BY <1>4, <1>6, <1>7

\* What is written for some fields, with the texts read back.
CellPair == {c \in [w : Bytes, t : Bytes] : Cell(c.w, c.t)}

Ws(cs) == [i \in DOMAIN cs |-> cs[i].w]
Ts(cs) == [i \in DOMAIN cs |-> cs[i].t]

LEMMA CellSteps ==
  ASSUME NEW cs \in Seq(CellPair)
  PROVE  /\ Ws(cs) \in Seq(Bytes) /\ Len(Ws(cs)) = Len(cs)
         /\ Ts(cs) \in Seq(Bytes) /\ Len(Ts(cs)) = Len(cs)
         /\ \A c \in CellPair : /\ Ws(Append(cs, c)) = Append(Ws(cs), c.w)
                                /\ Ts(Append(cs, c)) = Append(Ts(cs), c.t)
<1>1. /\ Len(cs) \in Nat /\ DOMAIN cs = 1 .. Len(cs)
      /\ \A i \in 1 .. Len(cs) : cs[i] \in CellPair
  OBVIOUS
<1>2. \A c \in CellPair : c.w \in Bytes /\ c.t \in Bytes
  BY DEF CellPair
<1>3. Ws(cs) \in [1 .. Len(cs) -> Bytes] /\ Ts(cs) \in [1 .. Len(cs) -> Bytes]
  BY <1>1, <1>2 DEF Ws, Ts
<1>4. /\ Ws(cs) \in Seq(Bytes) /\ Len(Ws(cs)) = Len(cs)
      /\ Ts(cs) \in Seq(Bytes) /\ Len(Ts(cs)) = Len(cs)
  BY <1>1, <1>3, FunctionIsSeq
<1>5. ASSUME NEW c \in CellPair
      PROVE  /\ Ws(Append(cs, c)) = Append(Ws(cs), c.w)
             /\ Ts(Append(cs, c)) = Append(Ts(cs), c.t)
  <2> DEFINE dd == Append(cs, c)
  <2>1. /\ dd \in Seq(CellPair) /\ Len(dd) = Len(cs) + 1 /\ DOMAIN dd = 1 .. (Len(cs) + 1)
        /\ \A i \in 1 .. Len(cs) : dd[i] = cs[i]
        /\ dd[Len(cs) + 1] = c
    BY AppendProperties
  <2> HIDE DEF dd
  <2>2. /\ Append(Ws(cs), c.w) \in Seq(Bytes) /\ Len(Append(Ws(cs), c.w)) = Len(cs) + 1
        /\ \A i \in 1 .. Len(cs) : Append(Ws(cs), c.w)[i] = Ws(cs)[i]
        /\ Append(Ws(cs), c.w)[Len(cs) + 1] = c.w
    BY <1>2, <1>4, AppendProperties
  <2>3. /\ Append(Ts(cs), c.t) \in Seq(Bytes) /\ Len(Append(Ts(cs), c.t)) = Len(cs) + 1
        /\ \A i \in 1 .. Len(cs) : Append(Ts(cs), c.t)[i] = Ts(cs)[i]
        /\ Append(Ts(cs), c.t)[Len(cs) + 1] = c.t
    BY <1>2, <1>4, AppendProperties
  <2>4. \A i \in 1 .. (Len(cs) + 1) : i = Len(cs) + 1 \/ i \in 1 .. Len(cs)
    BY <1>1
  <2>5. /\ \A i \in 1 .. (Len(cs) + 1) : Ws(dd)[i] = dd[i].w
        /\ \A i \in 1 .. (Len(cs) + 1) : Ts(dd)[i] = dd[i].t
        /\ \A i \in 1 .. Len(cs) : Ws(cs)[i] = cs[i].w
        /\ \A i \in 1 .. Len(cs) : Ts(cs)[i] = cs[i].t
    BY <1>1, <2>1 DEF Ws, Ts
  <2>6. \A i \in 1 .. (Len(cs) + 1) : dd[i] \in CellPair
    BY <1>1, <2>1, <2>4
  <2>7. /\ Ws(dd) \in [1 .. (Len(cs) + 1) -> Bytes] /\ Ts(dd) \in [1 .. (Len(cs) + 1) -> Bytes]
    BY <1>2, <2>1, <2>6 DEF Ws, Ts
  <2>8. /\ Ws(dd) \in Seq(Bytes) /\ Len(Ws(dd)) = Len(cs) + 1
        /\ Ts(dd) \in Seq(Bytes) /\ Len(Ts(dd)) = Len(cs) + 1
    <3>1. Len(cs) + 1 \in Nat
      BY <1>1
    <3>2. Ws(dd) \in Seq(Bytes) /\ Len(Ws(dd)) = Len(cs) + 1
      BY <2>7, <3>1, FunctionIsSeq
    <3>3. Ts(dd) \in Seq(Bytes) /\ Len(Ts(dd)) = Len(cs) + 1
      BY <2>7, <3>1, FunctionIsSeq
    <3> QED
      BY <3>2, <3>3
  <2>9. \A i \in 1 .. (Len(cs) + 1) :
          Ws(dd)[i] = Append(Ws(cs), c.w)[i] /\ Ts(dd)[i] = Append(Ts(cs), c.t)[i]
    BY <2>1, <2>2, <2>3, <2>4, <2>5
  <2>10. Ws(dd) = Append(Ws(cs), c.w)
    BY <2>2, <2>8, <2>9, SeqEqual
  <2>11. Ts(dd) = Append(Ts(cs), c.t)
    BY <2>3, <2>8, <2>9, SeqEqual
  <2> QED
    BY <2>10, <2>11 DEF dd
<1> QED
  BY <1>4, <1>5

\* The reader comes to the end of some cells still outside quotes.
LEMMA JoinedPassed ==
  \A cs \in Seq(CellPair) : cs # <<>> =>
    /\ Passed(Joined(Ws(cs)))
    /\ Visible(cs[1].w) => Visible(Joined(Ws(cs)))
<1> DEFINE Good(w, u) == Passed(u) /\ (Visible(w) => Visible(u))
           P == {cs \in Seq(CellPair) : cs # <<>> => Good(cs[1].w, Joined(Ws(cs)))}
<1>1. <<>> \in P
  OBVIOUS
<1>2. ASSUME NEW cs \in Seq(CellPair), NEW c \in CellPair, cs \in P
      PROVE  Append(cs, c) \in P
  <2> DEFINE u == Joined(Ws(cs))
             w == c.w
  <2>1. w \in Bytes /\ u \in Bytes /\ Ws(cs) \in Seq(Bytes) /\ Len(Ws(cs)) = Len(cs)
    BY CellSteps, JoinedSteps DEF CellPair
  <2>2. Passed(w)
    BY DEF CellPair, Cell
  <2>3. Append(cs, c) \in Seq(CellPair)
    OBVIOUS
  <2>4. CASE cs = <<>>
    <3>1. Ws(Append(cs, c)) = <<w>>
      <4>1. Ws(cs) = <<>>
        BY <2>1, <2>4, EmptySeq
      <4>2. Ws(Append(cs, c)) = Append(<<>>, w)
        BY <4>1, CellSteps
      <4> QED
        BY <4>2
    <3>2. Joined(Ws(Append(cs, c))) = w
      BY <2>1, <3>1, JoinedSteps
    <3>3. Append(cs, c)[1].w = w
      BY <2>4
    <3>4. Good(Append(cs, c)[1].w, Joined(Ws(Append(cs, c))))
      <4> HIDE DEF w
      <4> QED
        BY <2>2, <3>2, <3>3
    <3> HIDE DEF Good
    <3> QED
      BY <2>3, <3>4
  <2>5. CASE cs # <<>>
    <3>1. Good(cs[1].w, u)
      BY <1>2, <2>5
    <3>10. Append(cs, c)[1] = cs[1]
      <4>1. 1 \in 1 .. Len(cs)
        BY <2>5, EmptySeq
      <4> QED
        BY <4>1, AppendProperties
    <3>2. Ws(cs) # <<>>
      BY <2>1, <2>5, EmptySeq
    <3> DEFINE comma == <<Comma>>
               v == comma \o w
    <3>3. Joined(Ws(Append(cs, c))) = u \o v
      <4>1. Ws(Append(cs, c)) = Append(Ws(cs), w)
        BY CellSteps
      <4> QED
        BY <2>1, <3>2, <4>1, JoinedSteps
    <3>4. comma \in Bytes /\ Len(comma) = 1
      BY SymbolsAssumption DEF Bytes
    <3>40. \A f \in Bytes, i \in Nat \ {0} : Occurs(f, i, comma) => i \in 1 .. Len(f) /\ f[i] = Comma
      BY OccursOne
    <3> HIDE DEF comma, w, u
    <3>5. v \in Bytes
      <4>1. comma \in Seq(Char) /\ w \in Seq(Char)
        BY <2>1, <3>4 DEF Bytes
      <4> QED
        BY <4>1, ConcatProperties DEF Bytes
    <3>6. ASSUME u # <<>>
          PROVE  u \o v # <<>> /\ (u \o v)[1] = u[1]
      <4>1. u \in Seq(Char) /\ v \in Seq(Char) /\ Len(u) \in Nat \ {0} /\ Len(v) \in Nat
        BY <2>1, <3>5, <3>6, EmptySeq DEF Bytes
      <4> HIDE DEF v
      <4>2. Len(u \o v) = Len(u) + Len(v) /\ (u \o v)[1] = u[1]
        BY <4>1, ConcatProperties
      <4> QED
        BY <4>1, <4>2
    <3> HIDE DEF v
    <3>7. ASSUME NEW f \in Bytes, NEW i \in Nat \ {0}, Occurs(f, i, u \o v),
                 i + Len(u \o v) <= Len(f) => f[i + Len(u \o v)] # Quote
          PROVE  Scan(f)[i][FALSE] = Scan(f)[i + Len(u \o v)][FALSE]
      <4> DEFINE j == i + Len(u)
                 k == j + 1
                 n == i + Len(u \o v)
      <4>1. Occurs(f, i, u) /\ Occurs(f, j, v) /\ j \in Nat \ {0} /\ n = j + Len(v)
        BY <2>1, <3>5, <3>7, OccursParts
      <4> HIDE DEF j, n
      <4>2. Occurs(f, j, comma \o w)
        BY <4>1 DEF v
      <4>3. /\ Occurs(f, j, comma) /\ Occurs(f, j + Len(comma), w)
            /\ j + Len(comma \o w) = j + Len(comma) + Len(w)
        <5>1. comma \in Bytes
          BY <3>4
        <5>2. w \in Bytes
          BY <2>1
        <5>3. j \in Nat \ {0}
          BY <4>1
        <5> QED
          BY <4>2, <5>1, <5>2, <5>3, OccursParts
      <4>4. j \in 1 .. Len(f) /\ f[j] = Comma /\ Occurs(f, k, w) /\ n = k + Len(w) /\ k \in Nat \ {0}
        BY <3>4, <3>40, <4>1, <4>3 DEF v
      <4>5. Comma # Quote /\ Comma \notin LineEnds
        BY Marks
      <4>6. Scan(f)[i][FALSE] = Scan(f)[j][FALSE]
        <5>1. j <= Len(f) => f[j] # Quote
          BY <4>4, <4>5
        <5> QED
          BY <3>1, <4>1, <5>1 DEF Passed, j
      <4>7. Scan(f)[j][FALSE] = Scan(f)[k][FALSE]
        BY <4>4, <4>5, PlainScan
      <4>8. Scan(f)[k][FALSE] = Scan(f)[n][FALSE]
        <5>1. k + Len(w) <= Len(f) => f[k + Len(w)] # Quote
          BY <3>7, <4>4 DEF n
        <5> HIDE DEF k
        <5> QED
          BY <2>2, <4>4, <5>1 DEF Passed, w
      <4> QED
        BY <4>6, <4>7, <4>8 DEF n
    <3>8. Passed(u \o v)
      BY <3>7 DEF Passed
    <3>9. Good(cs[1].w, u \o v)
      BY <3>1, <3>6, <3>8 DEF Visible
    <3> HIDE DEF Good
    <3> QED
      BY <2>3, <3>3, <3>9, <3>10
  <2> QED
    BY <2>4, <2>5
<1>3. \A cs \in Seq(CellPair) : cs \in P
  <2> HIDE DEF P
  <2> QED
    BY <1>1, <1>2, LongerAndLonger
<1> QED
  BY <1>3

\* What follows a field that ends before position n of rec.
Rest(rec, n, rest) ==
  \/ n > Len(rec) /\ rest = <<>>
  \/ n <= Len(rec) /\ rec[n] = Comma /\ rest = FieldsOf(rec)[n + 1] /\ rest # <<>>

\* A text without the byte order mark, where it is the first of a record.
Unmarked(p, t) == IF p = 1 THEN StripBom(t) ELSE t

LEMMA UnmarkedType ==
  ASSUME NEW t \in Bytes, NEW p
  PROVE  Unmarked(p, t) \in Bytes
<1>1. t # <<>> => Tail(t) \in Bytes
  BY HeadTailProperties DEF Bytes
<1> QED
  BY <1>1 DEF Unmarked, StripBom

\* A comma at the end of a record is followed by one empty field.
LEMMA LastField ==
  ASSUME NEW rec \in Bytes
  PROVE  FieldsOf(rec)[Len(rec) + 1] = << <<>> >>
<1> DEFINE p == Len(rec) + 1
<1>1. Len(rec) \in Nat /\ p \in Nat \ {0} /\ p \in 1 .. (Len(rec) + 1) /\ p > Len(rec)
  BY DEF Bytes
<1>2. Len(<<>>) = 0 /\ p + Len(<<>>) = p
  BY <1>1
<1>3. Occurs(rec, p, <<>>)
  BY <1>1, <1>2 DEF Occurs
<1>4. FieldAt(rec, p) = [text |-> <<>>, next |-> p, ok |-> TRUE]
  <2>1. ~(p + Len(<<>>) <= Len(rec))
    BY <1>1, <1>2
  <2> HIDE DEF p
  <2>2. FieldAt(rec, p) = [text |-> <<>>, next |-> p + Len(<<>>), ok |-> TRUE]
    BY <1>1, <1>3, <2>1, EmptyCell DEF Cell, ReadAs
  <2> QED
    BY <1>2, <2>2
<1>5. FieldsOf(rec)[p] = FieldsStep(rec, FieldsOf(rec), p)
  BY <1>1, FieldsSteps
<1> HIDE DEF p
<1>6. FieldsStep(rec, FieldsOf(rec), p) = << <<>> >>
  BY <1>1, <1>4 DEF FieldsStep, StripBom
<1> QED
  BY <1>5, <1>6 DEF p
LEMMA OneField ==
  ASSUME NEW rec \in Bytes, NEW c \in CellPair, NEW p \in Nat \ {0}, Occurs(rec, p, c.w),
         NEW rest, Rest(rec, p + Len(c.w), rest)
  PROVE  /\ rest \in Seq(Bytes)
         /\ FieldsOf(rec)[p] = << Unmarked(p, c.t) >> \o rest
<1> DEFINE n == p + Len(c.w)
           text == Unmarked(p, c.t)
<1>1. /\ c.w \in Bytes /\ c.t \in Bytes /\ ReadAs(c.w, c.t)
  BY DEF CellPair, Cell
<1>2. Len(c.w) \in Nat /\ Len(rec) \in Nat
  BY <1>1 DEF Bytes
<1>3. n \in Nat /\ p <= n /\ n <= Len(rec) + 1 /\ p \in 1 .. (Len(rec) + 1)
  BY <1>2 DEF Occurs
<1>4. n <= Len(rec) => rec[n] = Comma
  BY <1>2 DEF Rest
<1>5. FieldAt(rec, p) = [text |-> c.t, next |-> n, ok |-> TRUE]
  BY <1>1, <1>4 DEF ReadAs
<1> HIDE DEF n
<1>6. FieldsOf(rec)[p] = FieldsStep(rec, FieldsOf(rec), p)
  BY <1>3, FieldsSteps
<1>7. FieldsStep(rec, FieldsOf(rec), p) =
        IF n > Len(rec) THEN <<text>>
        ELSE IF n = Len(rec) THEN <<text, <<>>>>
        ELSE IF FieldsOf(rec)[n + 1] = <<>> THEN <<>> ELSE <<text>> \o FieldsOf(rec)[n + 1]
  BY <1>5 DEF FieldsStep, Unmarked
<1>8. Rest(rec, n, rest)
  BY DEF n
<1>9. text \in Bytes
  BY <1>1, UnmarkedType
<1>10. <<text>> \in Seq(Bytes)
  BY <1>9, SmallSeqs
<1> HIDE DEF text
<1>11. CASE n > Len(rec)
  <2>1. rest = <<>> /\ rest \in Seq(Bytes)
    <3>1. ~(n <= Len(rec))
      BY <1>2, <1>3, <1>11
    <3> QED
      BY <1>8, <3>1, EmptySeq DEF Rest
  <2>2. <<text>> \o rest = <<text>>
    BY <1>10, <2>1, ConcatEmptySeq
  <2> QED
    BY <1>3, <1>6, <1>7, <1>11, <2>1, <2>2 DEF text
<1>12. CASE n = Len(rec)
  <2>1. ~(n > Len(rec)) /\ rest = FieldsOf(rec)[n + 1]
    BY <1>2, <1>3, <1>8, <1>12 DEF Rest
  <2>2. rest = << <<>> >>
    BY <1>12, <2>1, LastField
  <2>3. rest \in Seq(Bytes)
    <3>1. <<>> \in Bytes
      BY DEF Bytes
    <3> QED
      BY <2>2, <3>1, SmallSeqs
  <2>4. <<text>> \o rest = <<text, <<>>>>
    <3> DEFINE none == <<>>
    <3>1. rest = <<none>>
      BY <2>2
    <3> HIDE DEF none
    <3>2. <<text>> \o <<none>> = <<text, none>>
      BY OneAndOne
    <3> QED
      BY <3>1, <3>2 DEF none
  <2> QED
    BY <1>6, <1>7, <1>12, <2>1, <2>3, <2>4 DEF text
<1>13. CASE ~(n > Len(rec)) /\ n # Len(rec)
  <2>1. n <= Len(rec) /\ rest = FieldsOf(rec)[n + 1] /\ rest # <<>>
    BY <1>8, <1>13 DEF Rest
  <2>2. n + 1 \in 1 .. (Len(rec) + 1)
    BY <1>2, <1>3, <2>1
  <2>3. rest \in Seq(Bytes)
    BY <2>1, <2>2, FieldsSteps
  <2> QED
    BY <1>3, <1>6, <1>7, <1>13, <2>1, <2>3 DEF text
<1> QED
  BY <1>11, <1>12, <1>13

\* The texts of a row, as they are read.
Shown(ts) == [i \in DOMAIN ts |-> Unmarked(i, ts[i])]

LEMMA ShownSteps ==
  ASSUME NEW ts \in Seq(Bytes)
  PROVE  /\ Shown(ts) \in Seq(Bytes) /\ Len(Shown(ts)) = Len(ts)
         /\ \A t \in Bytes : Shown(Append(ts, t)) = Append(Shown(ts), Unmarked(Len(ts) + 1, t))
<1>1. \A us \in Seq(Bytes) : /\ Shown(us) \in Seq(Bytes) /\ Len(Shown(us)) = Len(us)
                             /\ \A i \in 1 .. Len(us) : Shown(us)[i] = Unmarked(i, us[i])
  <2> TAKE us \in Seq(Bytes)
  <2>1. Len(us) \in Nat /\ DOMAIN us = 1 .. Len(us) /\ \A i \in 1 .. Len(us) : us[i] \in Bytes
    OBVIOUS
  <2>2. \A i \in 1 .. Len(us) : Unmarked(i, us[i]) \in Bytes
    BY <2>1, UnmarkedType
  <2>3. /\ Shown(us) \in [1 .. Len(us) -> Bytes]
        /\ \A i \in 1 .. Len(us) : Shown(us)[i] = Unmarked(i, us[i])
    BY <2>1, <2>2 DEF Shown
  <2> QED
    BY <2>1, <2>3, FunctionIsSeq
<1>2. ASSUME NEW t \in Bytes
      PROVE  Shown(Append(ts, t)) = Append(Shown(ts), Unmarked(Len(ts) + 1, t))
  <2> DEFINE us == Append(ts, t)
             last == Unmarked(Len(ts) + 1, t)
             old == Shown(ts)
             new == Shown(us)
  <2>1. /\ us \in Seq(Bytes) /\ Len(us) = Len(ts) + 1 /\ Len(ts) \in Nat
        /\ \A i \in 1 .. Len(ts) : us[i] = ts[i]
        /\ us[Len(ts) + 1] = t
    BY AppendProperties
  <2> HIDE DEF us
  <2>2. last \in Bytes
    BY UnmarkedType
  <2>3. /\ old \in Seq(Bytes) /\ Len(old) = Len(ts)
        /\ \A i \in 1 .. Len(ts) : old[i] = Unmarked(i, ts[i])
        /\ new \in Seq(Bytes) /\ Len(new) = Len(ts) + 1
        /\ \A i \in 1 .. (Len(ts) + 1) : new[i] = Unmarked(i, us[i])
    BY <1>1, <2>1
  <2> HIDE DEF old, new
  <2>4. \A i \in 1 .. Len(ts) : new[i] = old[i]
    <3>1. \A i \in 1 .. Len(ts) : i \in 1 .. (Len(ts) + 1)
      BY <2>1
    <3> QED
      BY <2>1, <2>3, <3>1
  <2>5. new[Len(ts) + 1] = last
    BY <2>1, <2>3
  <2> HIDE DEF last
  <2>6. /\ Append(old, last) \in Seq(Bytes) /\ Len(Append(old, last)) = Len(old) + 1
        /\ \A i \in 1 .. Len(old) : Append(old, last)[i] = old[i]
        /\ Append(old, last)[Len(old) + 1] = last
    BY <2>2, <2>3, AppendProperties
  <2>7. \A i \in 1 .. Len(new) : new[i] = Append(old, last)[i]
    BY <2>1, <2>3, <2>4, <2>5, <2>6
  <2>8. new = Append(old, last)
    BY <2>3, <2>6, <2>7, SeqEqual
  <2> QED
    BY <2>8 DEF new, old, last, us
<1> QED
  BY <1>1, <1>2

\* The fields of a record that begins with some cells.
LEMMA JoinedRead ==
  ASSUME NEW rec \in Bytes
  PROVE  \A cs \in Seq(CellPair) : \A rest :
           /\ cs # <<>> /\ Occurs(rec, 1, Joined(Ws(cs)))
           /\ Rest(rec, 1 + Len(Joined(Ws(cs))), rest)
           => FieldsOf(rec)[1] = Shown(Ts(cs)) \o rest
<1> DEFINE Found(cs) == \A rest :
             /\ cs # <<>> /\ Occurs(rec, 1, Joined(Ws(cs)))
             /\ Rest(rec, 1 + Len(Joined(Ws(cs))), rest)
             => FieldsOf(rec)[1] = Shown(Ts(cs)) \o rest
           P == {cs \in Seq(CellPair) : Found(cs)}
<1>1. <<>> \in P
  OBVIOUS
<1>2. ASSUME NEW cs \in Seq(CellPair), NEW c \in CellPair, cs \in P
      PROVE  Append(cs, c) \in P
  <2> DEFINE dd == Append(cs, c)
             u == Joined(Ws(cs))
             ts == Ts(cs)
  <2>1. dd \in Seq(CellPair)
    OBVIOUS
  <2>2. /\ c.w \in Bytes /\ c.t \in Bytes /\ u \in Bytes
        /\ Ws(cs) \in Seq(Bytes) /\ Len(Ws(cs)) = Len(cs)
        /\ ts \in Seq(Bytes) /\ Len(ts) = Len(cs)
        /\ Ws(dd) = Append(Ws(cs), c.w) /\ Ts(dd) = Append(ts, c.t)
    BY CellSteps, JoinedSteps DEF CellPair
  <2>3. Shown(Ts(dd)) = Append(Shown(ts), Unmarked(Len(ts) + 1, c.t)) /\ Shown(ts) \in Seq(Bytes)
    BY <2>2, ShownSteps
  <2> HIDE DEF dd
  <2>4. ASSUME NEW rest, Occurs(rec, 1, Joined(Ws(dd))), Rest(rec, 1 + Len(Joined(Ws(dd))), rest)
        PROVE  FieldsOf(rec)[1] = Shown(Ts(dd)) \o rest
    <3>1. CASE cs = <<>>
      <4>1. Ws(cs) = <<>> /\ ts = <<>>
        BY <2>2, <3>1, EmptySeq
      <4>2. Joined(Ws(dd)) = c.w
        <5>1. Ws(dd) = <<c.w>>
          BY <2>2, <4>1
        <5> QED
          BY <2>2, <5>1, JoinedSteps
      <4>3. FieldsOf(rec)[1] = << Unmarked(1, c.t) >> \o rest
        BY <2>4, <4>2, OneField
      <4>4. Shown(Ts(dd)) = << Unmarked(1, c.t) >>
        <5>1. Len(ts) + 1 = 1 /\ Shown(ts) = <<>>
          BY <2>2, <3>1, ShownSteps, EmptySeq
        <5> QED
          BY <2>3, <5>1
      <4> QED
        BY <4>3, <4>4
    <3>2. CASE cs # <<>>
      <4> DEFINE comma == <<Comma>>
                 n == 1 + Len(u)
                 p == n + 1
                 x == Unmarked(p, c.t)
      <4>1. comma \in Bytes /\ Len(comma) = 1
        BY SymbolsAssumption DEF Bytes
      <4>2. \A i \in Nat \ {0} : Occurs(rec, i, comma) => i \in 1 .. Len(rec) /\ rec[i] = Comma
        BY OccursOne
      <4>3. Joined(Ws(dd)) = u \o (comma \o c.w)
        <5>1. Ws(cs) # <<>>
          BY <2>2, <3>2, EmptySeq
        <5> QED
          BY <2>2, <5>1, JoinedSteps
      <4> HIDE DEF comma, u
      <4>4. comma \o c.w \in Bytes
        BY <2>2, <4>1, ConcatProperties DEF Bytes
      <4>5. Occurs(rec, 1, u) /\ Occurs(rec, n, comma \o c.w) /\ n \in Nat \ {0}
            /\ 1 + Len(Joined(Ws(dd))) = n + Len(comma \o c.w)
        <5> DEFINE v == comma \o c.w
        <5>1. v \in Bytes /\ u \in Bytes /\ 1 \in Nat \ {0}
          BY <2>2, <4>4
        <5>2. Occurs(rec, 1, u \o v)
          BY <2>4, <4>3
        <5> HIDE DEF v
        <5>3. Occurs(rec, 1, u) /\ Occurs(rec, 1 + Len(u), v) /\ 1 + Len(u) \in Nat \ {0}
              /\ 1 + Len(u \o v) = 1 + Len(u) + Len(v)
          BY <5>1, <5>2, OccursParts
        <5> QED
          BY <4>3, <5>3 DEF v
      <4> HIDE DEF n
      <4>6. /\ Occurs(rec, n, comma) /\ Occurs(rec, n + Len(comma), c.w)
            /\ n + Len(comma \o c.w) = n + Len(comma) + Len(c.w)
        <5> DEFINE w == c.w
        <5>1. comma \in Bytes
          BY <4>1
        <5>2. w \in Bytes
          BY <2>2
        <5>3. n \in Nat \ {0} /\ Occurs(rec, n, comma \o w)
          BY <4>5
        <5> HIDE DEF w
        <5>4. /\ Occurs(rec, n, comma) /\ Occurs(rec, n + Len(comma), w)
              /\ n + Len(comma \o w) = n + Len(comma) + Len(w)
          BY <5>1, <5>2, <5>3, OccursParts
        <5> QED
          BY <5>4 DEF w
      <4>7. /\ n \in 1 .. Len(rec) /\ rec[n] = Comma /\ Occurs(rec, p, c.w) /\ p \in Nat \ {0}
            /\ 1 + Len(Joined(Ws(dd))) = p + Len(c.w)
        <5>1. n + Len(comma) = p /\ p \in Nat \ {0}
          BY <4>1, <4>5
        <5>2. n \in 1 .. Len(rec) /\ rec[n] = Comma
          BY <4>2, <4>5, <4>6
        <5> HIDE DEF p
        <5> QED
          BY <4>5, <4>6, <5>1, <5>2
      <4>8. Rest(rec, p + Len(c.w), rest)
        BY <2>4, <4>7
      <4>9. rest \in Seq(Bytes) /\ FieldsOf(rec)[p] = <<x>> \o rest
        <5> HIDE DEF p
        <5> QED
          BY <4>7, <4>8, OneField DEF x
      <4>10. x \in Bytes
        BY <2>2, UnmarkedType
      <4>11. Rest(rec, n, FieldsOf(rec)[p])
        <5>1. FieldsOf(rec)[p] # <<>>
          <6> HIDE DEF x
          <6> QED
            BY <4>9, <4>10
        <5>2. n <= Len(rec)
          BY <4>7
        <5> QED
          BY <4>7, <5>1, <5>2 DEF Rest
      <4>12. FieldsOf(rec)[1] = Shown(ts) \o FieldsOf(rec)[p]
        BY <1>2, <3>2, <4>5, <4>11 DEF u, n
      <4>13. Len(ts) + 1 # 1 /\ p # 1
        BY <2>2, <3>2, <4>5, EmptySeq
      <4>14. Shown(Ts(dd)) = Append(Shown(ts), x)
        BY <2>3, <4>13 DEF Unmarked
      <4>15. Shown(ts) \o (<<x>> \o rest) = Append(Shown(ts), x) \o rest
        <5> DEFINE y == <<x>>
                   s == Shown(ts)
        <5>1. y \in Seq(Bytes)
          BY <4>10, SmallSeqs
        <5>2. s \in Seq(Bytes)
          BY <2>3
        <5>3. Append(s, x) = s \o y
          <6> HIDE DEF s, x
          <6> QED
            BY <4>10, <5>2, AppendIsConcat
        <5> HIDE DEF y, s
        <5>4. s \o (y \o rest) = (s \o y) \o rest
          BY <4>9, <5>1, <5>2, Grouping
        <5> QED
          BY <5>3, <5>4 DEF y, s
      <4> QED
        BY <4>9, <4>12, <4>14, <4>15
    <3> QED
      BY <3>1, <3>2
  <2>5. Found(dd)
    BY <2>4
  <2> HIDE DEF Found
  <2> QED
    BY <2>1, <2>5 DEF dd
<1>3. \A cs \in Seq(CellPair) : cs \in P
  <2> HIDE DEF P
  <2> QED
    BY <1>1, <1>2, LongerAndLonger
<1> QED
  BY <1>3

LEMMA WholeOccurs ==
  ASSUME NEW w \in Bytes
  PROVE  Occurs(w, 1, w)
<1>1. Len(w) \in Nat /\ \A k \in 1 .. Len(w) : 1 + k - 1 = k
  BY DEF Bytes
<1> QED
  BY <1>1 DEF Occurs

LEMMA RowRead ==
  ASSUME NEW cs \in Seq(CellPair), cs # <<>>
  PROVE  Fields(Joined(Ws(cs))) = Shown(Ts(cs))
<1> DEFINE u == Joined(Ws(cs))
<1>1. u \in Bytes /\ Ts(cs) \in Seq(Bytes)
  BY CellSteps, JoinedSteps
<1>2. Len(u) \in Nat
  BY <1>1 DEF Bytes
<1>3. Occurs(u, 1, u)
  BY <1>1, WholeOccurs
<1>4. Rest(u, 1 + Len(u), <<>>)
  BY <1>2 DEF Rest
<1>5. FieldsOf(u)[1] = Shown(Ts(cs)) \o <<>>
  BY <1>1, <1>3, <1>4, JoinedRead
<1>6. Shown(Ts(cs)) \o <<>> = Shown(Ts(cs))
  BY <1>1, ShownSteps, ConcatEmptySeq
<1>7. Fields(u) = FieldsOf(u)[1]
  BY <1>1, FieldsSteps
<1> QED
  BY <1>5, <1>6, <1>7

\* Up to the line end behind it the text is one record.
Closed(u) ==
  \A f \in Bytes, i \in Nat \ {0} :
    Occurs(f, i, u) /\ i + Len(u) <= Len(f) /\ f[i + Len(u)] = LF =>
      Scan(f)[i][FALSE] = [end |-> i + Len(u), next |-> i + Len(u) + 1, open |-> FALSE]

LEMMA LineEndScan ==
  ASSUME NEW f \in Bytes, NEW e \in 1 .. Len(f), f[e] = LF
  PROVE  Scan(f)[e][FALSE] = [end |-> e, next |-> e + 1, open |-> FALSE]
<1>1. e \in Positions(f) /\ ~(e > Len(f))
  BY DEF Positions, Bytes
<1>2. f[e] # Quote /\ f[e] \in LineEnds
  BY Marks DEF LineEnds
<1>3. Scan(f)[e][FALSE] = ScanStep(f, Scan(f), e, FALSE)
  BY <1>1, ScanSteps
<1>4. AfterLineEnd(f, e) = e + 1
  BY DEF AfterLineEnd, LF, CR
<1> QED
  BY <1>1, <1>2, <1>3, <1>4 DEF ScanStep

LEMMA PassedIsClosed ==
  ASSUME NEW u \in Bytes, Passed(u)
  PROVE  Closed(u)
<1> SUFFICES ASSUME NEW f \in Bytes, NEW i \in Nat \ {0}, Occurs(f, i, u),
                    i + Len(u) <= Len(f), f[i + Len(u)] = LF
             PROVE  Scan(f)[i][FALSE]
                      = [end |-> i + Len(u), next |-> i + Len(u) + 1, open |-> FALSE]
  BY DEF Closed
<1> DEFINE e == i + Len(u)
<1>1. e \in 1 .. Len(f) /\ f[e] = LF /\ LF # Quote
  <2>1. Len(u) \in Nat
    BY DEF Bytes
  <2>2. LF # Quote
    BY Marks DEF LineEnds
  <2> QED
    BY <2>1, <2>2
<1>2. Scan(f)[i][FALSE] = Scan(f)[e][FALSE]
  BY <1>1 DEF Passed
<1> HIDE DEF e
<1>3. Scan(f)[i][FALSE] = [end |-> e, next |-> e + 1, open |-> FALSE]
  BY <1>1, <1>2, LineEndScan
<1> QED
  BY <1>3 DEF e

ClosedRecord(u) == [text |-> u, open |-> FALSE]

\* A line is read as one record, wherever it stands.
LEMMA LineStep ==
  ASSUME NEW g \in Bytes, NEW i \in Nat \ {0}, NEW u \in Bytes, Closed(u),
         Occurs(g, i, u \o <<LF>>)
  PROVE  LET next == i + Len(u \o <<LF>>)
         IN  /\ next \in Nat \ {0} /\ next <= Len(g) + 1
             /\ RawFrom(g)[i] = << ClosedRecord(u) >> \o RawFrom(g)[next]
<1> DEFINE lf == <<LF>>
           e == i + Len(u)
<1>1. lf \in Bytes /\ Len(lf) = 1
  BY SymbolsAssumption DEF Bytes
<1>2. \A k \in Nat \ {0} : Occurs(g, k, lf) => k \in 1 .. Len(g) /\ g[k] = LF
  BY OccursOne
<1> HIDE DEF lf
<1>3. /\ Occurs(g, i, u) /\ Occurs(g, e, lf) /\ e \in Nat \ {0}
      /\ i + Len(u \o lf) = e + Len(lf)
  <2>1. Occurs(g, i, u \o lf)
    BY DEF lf
  <2>2. lf \in Bytes
    BY <1>1
  <2> QED
    BY <2>1, <2>2, OccursParts
<1>4. e \in 1 .. Len(g) /\ g[e] = LF /\ i + Len(u \o lf) = e + 1
  BY <1>1, <1>2, <1>3
<1>5. Len(u) \in Nat /\ i <= e /\ Len(g) \in Nat
  BY DEF Bytes
<1>6. ReadRecord(g, i) = [end |-> e, next |-> e + 1, open |-> FALSE]
  <2>1. i + Len(u) <= Len(g) /\ g[i + Len(u)] = LF
    BY <1>4, <1>5
  <2> QED
    BY <1>3, <2>1 DEF Closed, ReadRecord
<1>7. Len(u) = (e - 1) - i + 1 /\ e - 1 \in Int
  BY <1>5
<1>8. i \in 1 .. Len(g)
  BY <1>4, <1>5
<1> HIDE DEF e
<1>9. TextAt(g, i) = u
  <2>1. TextAt(g, i) = SubSeq(g, i, e - 1)
    <3>1. ReadRecord(g, i).end = e
      BY <1>6
    <3> QED
      BY <3>1 DEF TextAt
  <2>2. \A k \in i .. (e - 1) : g[k] \in Char
    BY <1>4, <1>5 DEF Bytes
  <2>3. /\ SubSeq(g, i, e - 1) \in Seq(Char)
        /\ Len(SubSeq(g, i, e - 1)) = IF i <= e - 1 THEN (e - 1) - i + 1 ELSE 0
        /\ \A k \in 1 .. ((e - 1) - i + 1) : SubSeq(g, i, e - 1)[k] = g[i + k - 1]
    BY <1>7, <2>2, SubSeqProperties
  <2>4. \A k \in 1 .. Len(u) : g[i + k - 1] = u[k]
    BY <1>3 DEF Occurs
  <2>5. /\ Len(SubSeq(g, i, e - 1)) = Len(u)
        /\ \A k \in 1 .. Len(u) : SubSeq(g, i, e - 1)[k] = u[k]
    BY <1>4, <1>5, <1>7, <2>3, <2>4
  <2> QED
    BY <2>1, <2>3, <2>5, SeqEqual DEF Bytes
<1>10. RawFrom(g)[i] = << ClosedRecord(u) >> \o RawFrom(g)[e + 1]
  <2>1. i \in Positions(g) /\ ~(i > Len(g))
    BY <1>5, <1>8 DEF Positions
  <2>2. RawFrom(g)[i] = RawStep(g, RawFrom(g), i)
    BY <2>1, RawSteps
  <2>3. RecordAt(g, i) = ClosedRecord(u)
    BY <1>6, <1>9 DEF RecordAt, ClosedRecord
  <2> QED
    BY <1>6, <2>1, <2>2, <2>3 DEF RawStep
<1>11. e + 1 \in Nat \ {0} /\ e + 1 <= Len(g) + 1
  BY <1>4, <1>5
<1> QED
  BY <1>4, <1>10, <1>11 DEF lf

LEMMA AfterLast ==
  ASSUME NEW g \in Bytes
  PROVE  RawFrom(g)[Len(g) + 1] = <<>>
<1>1. Len(g) + 1 \in Positions(g) /\ Len(g) + 1 > Len(g)
  BY DEF Positions, Bytes
<1>2. RawFrom(g)[Len(g) + 1] = RawStep(g, RawFrom(g), Len(g) + 1)
  BY <1>1, RawSteps
<1> QED
  BY <1>1, <1>2 DEF RawStep

\* A line of cells at the end of a file is one record.
LEMMA LineRead ==
  ASSUME NEW a \in Bytes, NEW cs \in Seq(CellPair), cs # <<>>
  PROVE  RawFrom(a \o Line(Ws(cs)))[Len(a) + 1] = << ClosedRecord(Joined(Ws(cs))) >>
<1> DEFINE u == Joined(Ws(cs))
           line == Line(Ws(cs))
           g == a \o line
           i == Len(a) + 1
<1>1. u \in Bytes /\ Closed(u)
  BY CellSteps, JoinedSteps, JoinedPassed, PassedIsClosed
<1>2. line = u \o <<LF>> /\ line \in Bytes
  <2>1. line \in Bytes
    BY CellSteps, LineType
  <2> QED
    BY <2>1 DEF Line
<1> HIDE DEF line, u
<1>3. g \in Bytes /\ Len(g) = Len(a) + Len(line) /\ Len(a) \in Nat /\ Len(line) \in Nat
  BY <1>2, ConcatProperties DEF Bytes
<1>4. Occurs(g, i, line) /\ i \in Nat \ {0} /\ i + Len(line) = Len(g) + 1
  <2>1. Occurs(g, 1, a \o line)
    BY <1>3, WholeOccurs
  <2> HIDE DEF g
  <2>2. Occurs(g, 1 + Len(a), line)
    BY <1>2, <1>3, <2>1, OccursParts
  <2> QED
    BY <1>3, <2>2
<1> HIDE DEF g, i
<1>5. RawFrom(g)[i] = << ClosedRecord(u) >> \o RawFrom(g)[i + Len(line)]
  BY <1>1, <1>2, <1>3, <1>4, LineStep, SMTT(30)
<1>6. RawFrom(g)[i + Len(line)] = <<>>
  BY <1>3, <1>4, AfterLast
<1>7. << ClosedRecord(u) >> \o <<>> = << ClosedRecord(u) >>
  OBVIOUS
<1> QED
  BY <1>5, <1>6, <1>7 DEF g, i, line, u

\* The record a row of cells is read as.
NewRecord(cs) == ClosedRecord(Joined(Ws(cs)))

\* A row written behind a file that ends outside quotes is one more record.
LEMMA RowIsRecord ==
  ASSUME NEW f \in Bytes, ~EndsInQuotes(f),
         NEW cs \in Seq(CellPair), cs # <<>>, Visible(cs[1].w)
  PROVE  RawRecords(f \o (NewlineIfNeeded(f) \o Line(Ws(cs))))
           = RawRecords(f) \o << NewRecord(cs) >>
<1> DEFINE nl == NewlineIfNeeded(f)
           line == Line(Ws(cs))
           part == nl \o line
           g == f \o part
           a == f \o nl
<1>1. line \in Bytes /\ line # <<>> /\ line[1] \notin LineEnds
  <2> DEFINE u == Joined(Ws(cs))
             lf == <<LF>>
  <2>1. u \in Seq(Char) /\ lf \in Seq(Char) /\ u # <<>> /\ u[1] \notin LineEnds
    <3>1. u \in Bytes
      BY CellSteps, JoinedSteps
    <3>2. Visible(u)
      BY JoinedPassed
    <3> QED
      BY <3>1, <3>2, SymbolsAssumption DEF Bytes, Visible
  <2>2. line = u \o lf
    BY DEF Line
  <2> HIDE DEF u, lf, line
  <2>3. Len(u) \in Nat \ {0} /\ Len(lf) \in Nat
    BY <2>1, EmptySeq
  <2>4. line \in Seq(Char) /\ Len(line) = Len(u) + Len(lf) /\ line[1] = u[1]
    BY <2>1, <2>2, <2>3, ConcatProperties
  <2> QED
    BY <2>1, <2>3, <2>4 DEF Bytes
<1>2. nl \in Bytes /\ Len(nl) \in Nat
  BY SymbolsAssumption DEF NewlineIfNeeded, Bytes
<1>3. RawFrom(a \o line)[Len(a) + 1] = << NewRecord(cs) >>
  <2>1. a \in Bytes
    <3> HIDE DEF nl
    <3> QED
      BY <1>2, ConcatProperties DEF Bytes
  <2> HIDE DEF a
  <2> QED
    BY <2>1, LineRead DEF NewRecord
<1>4. g = a \o line
  <2>1. f \in Seq(Char) /\ nl \in Seq(Char) /\ line \in Seq(Char)
    BY <1>1, <1>2 DEF Bytes
  <2> HIDE DEF nl, line
  <2> QED
    BY <2>1, Grouping
<1>5. Len(a) = Len(f) + Len(nl)
  <2>1. f \in Seq(Char) /\ nl \in Seq(Char)
    BY <1>2 DEF Bytes
  <2> HIDE DEF nl
  <2> QED
    BY <2>1, ConcatProperties
<1>6. part \in Bytes /\ part # <<>>
  <2>1. nl \in Seq(Char) /\ line \in Seq(Char)
    BY <1>1, <1>2 DEF Bytes
  <2> HIDE DEF nl, line
  <2>2. part \in Seq(Char) /\ Len(part) = Len(nl) + Len(line) /\ Len(line) \in Nat \ {0}
    BY <1>1, <2>1, ConcatProperties, EmptySeq
  <2> QED
    BY <1>2, <2>2 DEF Bytes
<1> HIDE DEF line
<1>7. CASE f = <<>>
  <2>1. nl = <<>> /\ Len(f) = 0 /\ Len(nl) = 0
    BY <1>7 DEF NewlineIfNeeded
  <2>2. RawRecords(f) = <<>>
    <3>1. 1 \in Positions(f) /\ 1 > Len(f)
      BY <2>1 DEF Positions
    <3>2. RawFrom(f)[1] = RawStep(f, RawFrom(f), 1)
      BY <3>1, RawSteps
    <3> QED
      BY <3>1, <3>2, RawSteps DEF RawStep
  <2>3. g \in Bytes
    <3> HIDE DEF part
    <3> QED
      BY <1>6, ConcatProperties DEF Bytes
  <2>4. RawRecords(g) = RawFrom(g)[1]
    <3> HIDE DEF g
    <3> QED
      BY <2>3, RawSteps
  <2>5. Len(a) + 1 = 1
    BY <1>5, <2>1
  <2>6. RawRecords(g) = << NewRecord(cs) >>
    <3> HIDE DEF a, g, nl
    <3> QED
      BY <1>3, <1>4, <2>4, <2>5
  <2>7. <<>> \o << NewRecord(cs) >> = << NewRecord(cs) >>
    OBVIOUS
  <2> QED
    BY <2>2, <2>6, <2>7 DEF line
<1>8. CASE f # <<>>
  <2>1. ~EndsOpen(RawRecords(f))
    BY <1>8, FilesAssumption DEF EndsInQuotes, EndsOpen
  <2> DEFINE start == Len(f) + Len(nl) + 1
  <2>2. f[Len(f)] \in LineEnds => part[1] # LF /\ start = Len(f) + 1
    <3> SUFFICES ASSUME f[Len(f)] \in LineEnds PROVE part[1] # LF /\ start = Len(f) + 1
      OBVIOUS
    <3>1. nl = <<>> /\ Len(nl) = 0
      BY DEF NewlineIfNeeded
    <3>2. part = line
      BY <1>1, <3>1, ConcatEmptySeq DEF Bytes
    <3>3. Len(f) \in Nat
      BY DEF Bytes
    <3> QED
      BY <1>1, <3>1, <3>2, <3>3 DEF LineEnds
  <2>3. f[Len(f)] \notin LineEnds => part[1] = LF /\ start = Len(f) + 2
    <3> SUFFICES ASSUME f[Len(f)] \notin LineEnds PROVE part[1] = LF /\ start = Len(f) + 2
      OBVIOUS
    <3>1. nl = <<LF>> /\ Len(nl) = 1 /\ nl[1] = LF
      BY <1>8 DEF NewlineIfNeeded
    <3>2. part[1] = LF
      <4>1. nl \in Seq(Char) /\ line \in Seq(Char)
        BY <1>1, <1>2 DEF Bytes
      <4>2. Len(line) \in Nat
        BY <4>1
      <4> HIDE DEF nl
      <4> QED
        BY <3>1, <4>1, <4>2, ConcatProperties
    <3>3. Len(f) \in Nat
      BY DEF Bytes
    <3> QED
      BY <3>1, <3>2, <3>3
  <2>4. start = Len(a) + 1
    BY <1>5
  <2> HIDE DEF start, part
  <2>5. RawRecords(f \o part) = RawRecords(f) \o RawFrom(f \o part)[start]
    BY <1>6, <1>8, <2>1, <2>2, <2>3, RawThen
  <2>6. RawFrom(g)[start] = << NewRecord(cs) >>
    <3> HIDE DEF g, a
    <3> QED
      BY <1>3, <1>4, <2>4
  <2> QED
    BY <2>5, <2>6 DEF line, part
<1> QED
  BY <1>7, <1>8

\* Which Storage finds as one more row.
LEMMA RowReads ==
  ASSUME NEW f \in Bytes, ~EndsInQuotes(f),
         NEW cs \in Seq(CellPair), cs # <<>>, Visible(cs[1].w)
  PROVE  LET g == f \o (NewlineIfNeeded(f) \o Line(Ws(cs)))
         IN  g \in Bytes => Table(g) = Append(Table(f), StrRow(Shown(Ts(cs))))
<1> DEFINE g == f \o (NewlineIfNeeded(f) \o Line(Ws(cs)))
           R == {RecordOf(x) : x \in RawRecord}
           row == RecordOf(NewRecord(cs))
           n == Len(RawRecords(f))
<1>1. RawRecords(g) = RawRecords(f) \o << NewRecord(cs) >>
  BY RowIsRecord
<1> HIDE DEF g
<1> SUFFICES ASSUME g \in Bytes
             PROVE  Table(g) = Append(Table(f), StrRow(Shown(Ts(cs))))
  BY DEF g
<1>2. NewRecord(cs) \in RawRecord
  <2>1. Joined(Ws(cs)) \in Bytes
    BY CellSteps, JoinedSteps
  <2> QED
    BY <2>1 DEF NewRecord, ClosedRecord, RawRecord
<1>3. row = StrRow(Shown(Ts(cs)))
  BY RowRead DEF RecordOf, NewRecord, ClosedRecord
<1>4. row \in R
  BY <1>2
<1>5. /\ Table(f) \in Seq(R) /\ Len(Table(f)) = n
      /\ \A k \in 1 .. n : Table(f)[k] = RecordOf(RawRecords(f)[k])
      /\ Table(g) \in Seq(R) /\ Len(Table(g)) = Len(RawRecords(g))
      /\ \A k \in 1 .. Len(RawRecords(g)) : Table(g)[k] = RecordOf(RawRecords(g)[k])
  BY TableOf
<1>6. RawRecords(f) \in Seq(RawRecord) /\ n \in Nat
  <2>1. 1 \in Positions(f)
    BY DEF Positions, Bytes
  <2>2. RawRecords(f) \in Seq(RawRecord)
    BY <2>1, RawSteps
  <2> QED
    BY <2>2
<1>7. /\ Len(RawRecords(g)) = n + 1
      /\ \A k \in 1 .. n : RawRecords(g)[k] = RawRecords(f)[k]
      /\ RawRecords(g)[n + 1] = NewRecord(cs)
  <2> DEFINE r == NewRecord(cs)
  <2>1. RawRecords(g) = Append(RawRecords(f), r)
    <3> HIDE DEF r
    <3> QED
      BY <1>1, <1>2, <1>6, AppendIsConcat DEF r
  <2> HIDE DEF r
  <2> QED
    BY <1>2, <1>6, <2>1, AppendProperties DEF r
<1> HIDE DEF n, R, row
<1>8. /\ Append(Table(f), row) \in Seq(R) /\ Len(Append(Table(f), row)) = n + 1
      /\ \A k \in 1 .. n : Append(Table(f), row)[k] = Table(f)[k]
      /\ Append(Table(f), row)[n + 1] = row
  BY <1>4, <1>5, AppendProperties
<1>9. \A k \in 1 .. (n + 1) : Table(g)[k] = Append(Table(f), row)[k]
  <2>1. \A k \in 1 .. (n + 1) : k \in 1 .. n \/ k = n + 1
    BY <1>6
  <2>2. \A k \in 1 .. (n + 1) : Table(g)[k] = RecordOf(RawRecords(g)[k])
    BY <1>5, <1>7
  <2>3. \A k \in 1 .. n : Table(g)[k] = Table(f)[k]
    <3>1. \A k \in 1 .. n : k \in 1 .. (n + 1)
      BY <1>6
    <3> QED
      BY <1>5, <1>7, <2>2, <3>1
  <2>4. Table(g)[n + 1] = row
    <3>1. n + 1 \in 1 .. (n + 1)
      BY <1>6
    <3> QED
      BY <1>7, <2>2, <3>1 DEF row
  <2> QED
    BY <1>8, <2>1, <2>3, <2>4
<1>10. Table(g) = Append(Table(f), row)
  BY <1>5, <1>7, <1>8, <1>9, SeqEqual
<1> QED
  BY <1>3, <1>10

----------------------------------------------------------------------------
(***************************************************************************)
(* What a SELECT prints: lines, one behind the other.                      *)
(***************************************************************************)
ClosedText == {u \in Bytes : Closed(u)}

Lines(us)   == FlattenSeq([k \in DOMAIN us |-> Append(us[k], LF)])
Records(us) == [k \in DOMAIN us |-> ClosedRecord(us[k])]

LEMMA LineIs ==
  ASSUME NEW u \in Bytes
  PROVE  Append(u, LF) \in Bytes /\ Append(u, LF) = u \o <<LF>>
<1>1. LF \in Char
  BY SymbolsAssumption
<1> QED
  BY <1>1, AppendProperties, AppendIsConcat DEF Bytes

LEMMA LinesSteps ==
  /\ Lines(<<>>) = <<>>
  /\ \A us \in Seq(Bytes) : Lines(us) \in Bytes
  /\ \A us \in Seq(Bytes), u \in Bytes : Lines(Append(us, u)) = Lines(us) \o (u \o <<LF>>)
<1> DEFINE ended(us) == [k \in DOMAIN us |-> Append(us[k], LF)]
<1>1. \A us : Lines(us) = FlattenSeq(ended(us))
  BY DEF Lines
<1>2. ASSUME NEW us \in Seq(Bytes)
      PROVE  /\ ended(us) \in Seq(Bytes) /\ Len(ended(us)) = Len(us)
             /\ \A k \in 1 .. Len(us) : ended(us)[k] = Append(us[k], LF)
  <2>1. Len(us) \in Nat /\ DOMAIN us = 1 .. Len(us) /\ \A k \in 1 .. Len(us) : us[k] \in Bytes
    OBVIOUS
  <2>2. \A k \in 1 .. Len(us) : Append(us[k], LF) \in Bytes
    BY <2>1, LineIs
  <2>3. ended(us) \in [1 .. Len(us) -> Bytes] /\ \A k \in 1 .. Len(us) : ended(us)[k] = Append(us[k], LF)
    BY <2>1, <2>2
  <2> HIDE DEF ended
  <2> QED
    BY <2>1, <2>3, FunctionIsSeq
<1>3. ended(<<>>) = <<>>
  OBVIOUS
<1> HIDE DEF ended
<1>4. ASSUME NEW us \in Seq(Bytes), NEW u \in Bytes
      PROVE  Lines(Append(us, u)) = Lines(us) \o (u \o <<LF>>)
  <2> DEFINE vs == Append(us, u)
             line == Append(u, LF)
             old == ended(us)
             new == ended(vs)
  <2>1. /\ vs \in Seq(Bytes) /\ Len(vs) = Len(us) + 1 /\ Len(us) \in Nat
        /\ \A k \in 1 .. Len(us) : vs[k] = us[k]
        /\ vs[Len(us) + 1] = u
    BY AppendProperties
  <2>2. line \in Bytes /\ line = u \o <<LF>>
    BY LineIs
  <2>3. /\ old \in Seq(Bytes) /\ Len(old) = Len(us)
        /\ \A k \in 1 .. Len(us) : old[k] = Append(us[k], LF)
    BY <1>2
  <2> HIDE DEF vs
  <2>4. /\ new \in Seq(Bytes) /\ Len(new) = Len(us) + 1
        /\ \A k \in 1 .. (Len(us) + 1) : new[k] = Append(vs[k], LF)
    BY <1>2, <2>1
  <2> HIDE DEF old, new
  <2>5. /\ \A k \in 1 .. Len(us) : new[k] = old[k]
        /\ new[Len(us) + 1] = line
    <3>1. \A k \in 1 .. Len(us) : k \in 1 .. (Len(us) + 1)
      BY <2>1
    <3>2. Len(us) + 1 \in 1 .. (Len(us) + 1)
      BY <2>1
    <3> QED
      BY <2>1, <2>3, <2>4, <3>1, <3>2
  <2> HIDE DEF line
  <2>6. /\ Append(old, line) \in Seq(Bytes) /\ Len(Append(old, line)) = Len(old) + 1
        /\ \A k \in 1 .. Len(old) : Append(old, line)[k] = old[k]
        /\ Append(old, line)[Len(old) + 1] = line
    BY <2>2, <2>3, AppendProperties
  <2>7. new = Append(old, line)
    <3>1. \A k \in 1 .. Len(new) : new[k] = Append(old, line)[k]
      BY <2>1, <2>3, <2>4, <2>5, <2>6
    <3> QED
      BY <2>3, <2>4, <2>6, <3>1, SeqEqual
  <2>8. FlattenSeq(new) = FlattenSeq(old) \o line
    BY <2>2, <2>3, <2>7, FlattenAppend DEF Bytes
  <2> QED
    BY <1>1, <2>2, <2>8 DEF old, new, vs
<1>5. \A us \in Seq(Bytes) : Lines(us) \in Bytes
  BY <1>1, <1>2, FlattenType DEF Bytes
<1> QED
  BY <1>1, <1>3, <1>4, <1>5, FlattenEmpty

LEMMA RecordsSteps ==
  ASSUME NEW us \in Seq(Bytes)
  PROVE  /\ Records(us) \in Seq(RawRecord) /\ Len(Records(us)) = Len(us)
         /\ \A k \in 1 .. Len(us) : Records(us)[k] = ClosedRecord(us[k])
         /\ \A u \in Bytes : Records(Append(us, u)) = Append(Records(us), ClosedRecord(u))
<1>1. \A u \in Bytes : ClosedRecord(u) \in RawRecord
  BY DEF ClosedRecord, RawRecord
<1>2. \A vs \in Seq(Bytes) : /\ Records(vs) \in Seq(RawRecord) /\ Len(Records(vs)) = Len(vs)
                             /\ \A k \in 1 .. Len(vs) : Records(vs)[k] = ClosedRecord(vs[k])
  <2> TAKE vs \in Seq(Bytes)
  <2>1. Len(vs) \in Nat /\ DOMAIN vs = 1 .. Len(vs) /\ \A k \in 1 .. Len(vs) : vs[k] \in Bytes
    OBVIOUS
  <2>2. /\ Records(vs) \in [1 .. Len(vs) -> RawRecord]
        /\ \A k \in 1 .. Len(vs) : Records(vs)[k] = ClosedRecord(vs[k])
    BY <1>1, <2>1 DEF Records
  <2> QED
    BY <2>1, <2>2, FunctionIsSeq
<1>3. ASSUME NEW u \in Bytes
      PROVE  Records(Append(us, u)) = Append(Records(us), ClosedRecord(u))
  <2> DEFINE vs == Append(us, u)
             rec == ClosedRecord(u)
             old == Records(us)
             new == Records(vs)
  <2>1. /\ vs \in Seq(Bytes) /\ Len(vs) = Len(us) + 1 /\ Len(us) \in Nat
        /\ \A k \in 1 .. Len(us) : vs[k] = us[k]
        /\ vs[Len(us) + 1] = u
    BY AppendProperties
  <2>2. rec \in RawRecord
    BY <1>1
  <2> HIDE DEF vs
  <2>3. /\ old \in Seq(RawRecord) /\ Len(old) = Len(us)
        /\ \A k \in 1 .. Len(us) : old[k] = ClosedRecord(us[k])
        /\ new \in Seq(RawRecord) /\ Len(new) = Len(us) + 1
        /\ \A k \in 1 .. (Len(us) + 1) : new[k] = ClosedRecord(vs[k])
    BY <1>2, <2>1
  <2> HIDE DEF old, new
  <2>4. /\ \A k \in 1 .. Len(us) : new[k] = old[k]
        /\ new[Len(us) + 1] = rec
    <3>1. \A k \in 1 .. Len(us) : k \in 1 .. (Len(us) + 1)
      BY <2>1
    <3>2. Len(us) + 1 \in 1 .. (Len(us) + 1)
      BY <2>1
    <3> QED
      BY <2>1, <2>3, <3>1, <3>2
  <2> HIDE DEF rec
  <2>5. /\ Append(old, rec) \in Seq(RawRecord) /\ Len(Append(old, rec)) = Len(old) + 1
        /\ \A k \in 1 .. Len(old) : Append(old, rec)[k] = old[k]
        /\ Append(old, rec)[Len(old) + 1] = rec
    BY <2>2, <2>3, AppendProperties
  <2>6. \A k \in 1 .. Len(new) : new[k] = Append(old, rec)[k]
    BY <2>1, <2>3, <2>4, <2>5
  <2>7. new = Append(old, rec)
    BY <2>3, <2>5, <2>6, SeqEqual
  <2> QED
    BY <2>7 DEF new, old, vs, rec
<1> QED
  BY <1>2, <1>3

\* The reader finds the lines one after the other.
LEMMA LinesStep ==
  ASSUME NEW g \in Bytes
  PROVE  \A us \in Seq(ClosedText) : \A i \in Nat \ {0} :
           Occurs(g, i, Lines(us)) =>
             RawFrom(g)[i] = Records(us) \o RawFrom(g)[i + Len(Lines(us))]
<1> DEFINE Found(us) == \A i \in Nat \ {0} :
             Occurs(g, i, Lines(us)) =>
               RawFrom(g)[i] = Records(us) \o RawFrom(g)[i + Len(Lines(us))]
           P == {us \in Seq(ClosedText) : Found(us)}
<1>1. \A us \in Seq(ClosedText) : us \in Seq(Bytes)
  BY DEF ClosedText
<1>2. \A i \in Nat : i > 0 /\ i <= Len(g) + 1 => RawFrom(g)[i] \in Seq(RawRecord)
  <2>1. \A i \in Nat : i > 0 /\ i <= Len(g) + 1 => i \in Positions(g)
    BY DEF Positions, Bytes
  <2> QED
    BY <2>1, RawSteps
<1>3. <<>> \in P
  <2>1. Lines(<<>>) = <<>> /\ Len(<<>>) = 0 /\ Records(<<>>) = <<>>
    BY LinesSteps DEF Records
  <2>2. ASSUME NEW i \in Nat \ {0}, Occurs(g, i, Lines(<<>>))
        PROVE  RawFrom(g)[i] = Records(<<>>) \o RawFrom(g)[i + Len(Lines(<<>>))]
    <3>1. i + Len(Lines(<<>>)) = i /\ i <= Len(g) + 1
      BY <2>1, <2>2 DEF Occurs
    <3>2. RawFrom(g)[i] \in Seq(RawRecord)
      BY <1>2, <3>1
    <3> QED
      BY <2>1, <3>1, <3>2, ConcatEmptySeq
  <2> QED
    BY <2>2
<1>4. ASSUME NEW us \in Seq(ClosedText), NEW u \in ClosedText, us \in P
      PROVE  Append(us, u) \in P
  <2> DEFINE vs == Append(us, u)
             before0 == Lines(us)
             line == u \o <<LF>>
             rec == ClosedRecord(u)
  <2>1. us \in Seq(Bytes) /\ u \in Bytes /\ Closed(u) /\ vs \in Seq(ClosedText)
    BY <1>1 DEF ClosedText
  <2>2. before0 \in Bytes /\ line \in Bytes /\ Lines(vs) = before0 \o line
    BY <2>1, LinesSteps, LineIs
  <2>3. /\ Records(us) \in Seq(RawRecord) /\ rec \in RawRecord
        /\ Records(vs) = Append(Records(us), rec)
    BY <2>1, RecordsSteps DEF ClosedRecord, RawRecord
  <2>4. ASSUME NEW i \in Nat \ {0}, Occurs(g, i, Lines(vs))
        PROVE  RawFrom(g)[i] = Records(vs) \o RawFrom(g)[i + Len(Lines(vs))]
    <3> DEFINE j == i + Len(before0)
               n == j + Len(line)
               tail == RawFrom(g)[n]
    <3> HIDE DEF before0, line, vs
    <3>1. Occurs(g, i, before0 \o line)
      BY <2>2, <2>4
    <3>2. /\ Occurs(g, i, before0) /\ Occurs(g, j, line) /\ j \in Nat \ {0}
          /\ i + Len(before0 \o line) = n
      BY <2>2, <3>1, OccursParts
    <3>3. RawFrom(g)[i] = Records(us) \o RawFrom(g)[j]
      BY <1>4, <3>2 DEF before0
    <3> HIDE DEF j
    <3>4. n \in Nat \ {0} /\ n <= Len(g) + 1 /\ RawFrom(g)[j] = <<rec>> \o tail
      BY <2>1, <3>2, LineStep DEF line
    <3>5. tail \in Seq(RawRecord)
      BY <1>2, <3>4
    <3>6. i + Len(Lines(vs)) = n
      BY <2>2, <3>2
    <3> HIDE DEF n, tail
    <3>7. Records(us) \o (<<rec>> \o tail) = Append(Records(us), rec) \o tail
      <4> HIDE DEF rec
      <4>1. <<rec>> \in Seq(RawRecord)
        BY <2>3, SmallSeqs
      <4>2. Records(us) \o (<<rec>> \o tail) = (Records(us) \o <<rec>>) \o tail
        BY <2>3, <3>5, <4>1, Grouping
      <4>3. Append(Records(us), rec) = Records(us) \o <<rec>>
        BY <2>3, AppendIsConcat
      <4> QED
        BY <4>2, <4>3
    <3> QED
      BY <2>3, <3>3, <3>4, <3>6, <3>7 DEF tail
  <2>5. Found(vs)
    BY <2>4
  <2> HIDE DEF Found
  <2> QED
    BY <2>1, <2>5
<1>5. \A us \in Seq(ClosedText) : us \in P
  <2> HIDE DEF P
  <2> QED
    BY <1>3, <1>4, LongerAndLonger
<1> QED
  BY <1>5

\* What is printed is a table of its own, one record to a line.
LEMMA LinesRead ==
  ASSUME NEW us \in Seq(ClosedText)
  PROVE  /\ Lines(us) \in Bytes
         /\ Len(Table(Lines(us))) = Len(us)
         /\ \A k \in 1 .. Len(us) : Table(Lines(us))[k] = StrRow(Fields(us[k]))
         /\ \E X : Table(Lines(us)) \in Seq(X)
<1> DEFINE g == Lines(us)
<1>1. us \in Seq(Bytes) /\ Len(us) \in Nat
  BY DEF ClosedText
<1>2. g \in Bytes
  BY <1>1, LinesSteps
<1> HIDE DEF g
<1>3. Occurs(g, 1, g) /\ Len(g) \in Nat /\ 1 + Len(g) = Len(g) + 1
  BY <1>2, WholeOccurs DEF Bytes
<1>4. RawFrom(g)[1] = Records(us) \o <<>>
  <2>1. RawFrom(g)[1] = Records(us) \o RawFrom(g)[1 + Len(g)]
    BY <1>2, <1>3, LinesStep DEF g
  <2> QED
    BY <1>2, <1>3, <2>1, AfterLast
<1>5. RawRecords(g) = Records(us)
  <2>1. Records(us) \in Seq(RawRecord)
    BY <1>1, RecordsSteps
  <2>2. Records(us) \o <<>> = Records(us)
    BY <2>1, ConcatEmptySeq
  <2> QED
    BY <1>2, <1>4, <2>2, RawSteps
<1>6. /\ Table(g) \in Seq({RecordOf(raw) : raw \in RawRecord})
      /\ Len(Table(g)) = Len(us)
      /\ \A k \in 1 .. Len(us) : Table(g)[k] = RecordOf(ClosedRecord(us[k]))
  BY <1>1, <1>2, <1>5, TableOf, RecordsSteps
<1>7. \A u : RecordOf(ClosedRecord(u)) = StrRow(Fields(u))
  BY DEF RecordOf, ClosedRecord
<1> QED
  BY <1>2, <1>6, <1>7 DEF g

\* The text of a record that does not end inside quotes is read again up to
\* its end: the reader takes the decisions it took where the text came from.
LEMMA TextIsClosed ==
  ASSUME NEW f \in Bytes, NEW i \in 1 .. Len(f), ~ReadRecord(f, i).open
  PROVE  TextAt(f, i) \in Bytes /\ Closed(TextAt(f, i))
<1> DEFINE e == ReadRecord(f, i).end
           u == TextAt(f, i)
<1>1. /\ Len(f) \in Nat /\ i \in Nat \ {0} /\ e \in i .. (Len(f) + 1) /\ e \in Nat
      /\ e <= Len(f) => f[e] \in LineEnds
  BY ReadRecordBounds DEF Bytes
<1>2. u \in Bytes
  BY RecordAtType DEF RecordAt, RawRecord
<1>3. Len(u) = e - i /\ \A k \in 1 .. Len(u) : u[k] = f[i + k - 1]
  <2>1. u = SubSeq(f, i, e - 1)
    BY DEF TextAt
  <2>2. \A k \in i .. (e - 1) : f[k] \in Char
    BY <1>1 DEF Bytes
  <2> HIDE DEF u, e
  <2>3. /\ Len(SubSeq(f, i, e - 1)) = IF i <= e - 1 THEN (e - 1) - i + 1 ELSE 0
        /\ \A k \in 1 .. ((e - 1) - i + 1) : SubSeq(f, i, e - 1)[k] = f[i + k - 1]
    BY <1>1, <2>2, SubSeqProperties
  <2>4. Len(u) = e - i /\ (e - 1) - i + 1 = e - i
    BY <1>1, <2>1, <2>3
  <2> QED
    BY <2>1, <2>3, <2>4
<1>4. Scan(f)[i][FALSE].end = e /\ ~Scan(f)[i][FALSE].open
  BY DEF ReadRecord
<1> HIDE DEF e, u
<1>5. ASSUME NEW g \in Bytes, NEW m \in Nat \ {0}, Occurs(g, m, u),
             m + Len(u) <= Len(g), g[m + Len(u)] = LF
      PROVE  Scan(g)[m][FALSE] = [end |-> m + Len(u), next |-> m + Len(u) + 1, open |-> FALSE]
  <2> DEFINE n == m + Len(u)
             At(j) == j - i + m
             there == [end |-> n, next |-> n + 1, open |-> FALSE]
             Same(j, q) == Scan(f)[j][q].end = e /\ ~Scan(f)[j][q].open => Scan(g)[At(j)][q] = there
             P == {j \in 1 .. e : j >= i => \A q \in BOOLEAN : Same(j, q)}
  <2>1. n \in 1 .. Len(g) /\ n = At(e) /\ g[n] = LF /\ Len(g) \in Nat
    BY <1>1, <1>3, <1>5 DEF Bytes
  <2>2. \A j \in i .. (e - 1) : g[At(j)] = f[j] /\ At(j) \in 1 .. Len(g) /\ At(j) < n
    <3> SUFFICES ASSUME NEW j \in i .. (e - 1)
                 PROVE  g[At(j)] = f[j] /\ At(j) \in 1 .. Len(g) /\ At(j) < n
      OBVIOUS
    <3>1. j - i + 1 \in 1 .. Len(u) /\ m + (j - i + 1) - 1 = At(j) /\ i + (j - i + 1) - 1 = j
      BY <1>1, <1>3
    <3>2. g[m + (j - i + 1) - 1] = u[j - i + 1] /\ u[j - i + 1] = f[i + (j - i + 1) - 1]
      BY <1>3, <1>5, <3>1 DEF Occurs
    <3>3. g[At(j)] = f[j]
      BY <3>1, <3>2
    <3>4. 1 <= At(j) /\ At(j) < m + (e - i) /\ At(j) \in Int
      BY <1>1
    <3>5. n = m + (e - i) /\ n <= Len(g)
      BY <1>3, <2>1
    <3> QED
      BY <2>1, <3>3, <3>4, <3>5
  <2> HIDE DEF n, there
  <2>3. LF # Quote /\ \A ch \in LineEnds : ch # Quote
    BY Marks DEF LineEnds
  <2>4. \A j \in Positions(f), q \in BOOLEAN : Bounded(f, j, Scan(f)[j][q])
    BY ScanBounds
  <2>5. ASSUME NEW q \in BOOLEAN
        PROVE  Same(e, q)
    <3> SUFFICES ASSUME Scan(f)[e][q].end = e, ~Scan(f)[e][q].open
                 PROVE  Scan(g)[n][q] = there
      BY <2>1
    <3>1. e \in Positions(f) /\ Scan(f)[e][q] = ScanStep(f, Scan(f), e, q)
      BY <1>1, ScanSteps DEF Positions
    <3>2. q = FALSE
      <4> SUFFICES ASSUME q = TRUE PROVE FALSE
        OBVIOUS
      <4>1. CASE e > Len(f)
        <5>1. Scan(f)[e][q].open = TRUE
          BY <3>1, <4>1 DEF ScanStep
        <5> QED
          BY <5>1
      <4>2. CASE e <= Len(f)
        <5>1. f[e] # Quote /\ ~(e > Len(f)) /\ e + 1 \in Positions(f)
          BY <1>1, <2>3, <4>2 DEF Positions
        <5>2. Scan(f)[e][q] = Scan(f)[e + 1][TRUE]
          BY <3>1, <5>1 DEF ScanStep
        <5>3. e + 1 <= Scan(f)[e + 1][TRUE].end
          BY <2>4, <5>1 DEF Bounded
        <5>4. Scan(f)[e + 1][TRUE].end = e
          BY <5>2
        <5> QED
          BY <1>1, <5>3, <5>4
      <4> QED
        BY <1>1, <4>1, <4>2
    <3>3. Scan(g)[n][FALSE] = there
      BY <2>1, LineEndScan DEF there
    <3> QED
      BY <3>2, <3>3
  <2>6. ASSUME NEW j \in i .. (e - 1), \A k \in (j + 1) .. e : k \in P, NEW q \in BOOLEAN
        PROVE  Same(j, q)
    <3> SUFFICES ASSUME Scan(f)[j][q].end = e, ~Scan(f)[j][q].open
                 PROVE  Scan(g)[At(j)][q] = there
      OBVIOUS
    <3> DEFINE l == At(j)
    <3>1. /\ j \in Positions(f) /\ ~(j > Len(f)) /\ j \in Nat /\ j # e
          /\ g[l] = f[j] /\ l \in 1 .. Len(g) /\ l \in Positions(g) /\ ~(l > Len(g))
      BY <1>1, <2>1, <2>2 DEF Positions
    <3>2. /\ Scan(f)[j][q] = ScanStep(f, Scan(f), j, q)
          /\ Scan(g)[l][q] = ScanStep(g, Scan(g), l, q)
      BY <1>5, <3>1, ScanSteps
    <3>3. At(j + 1) = l + 1 /\ At(j + 2) = l + 2
      BY <1>1, <3>1
    <3>4. \A p \in BOOLEAN : Same(j + 1, p)
      <4>1. j + 1 \in (j + 1) .. e /\ j + 1 >= i
        BY <1>1
      <4> QED
        BY <2>6, <4>1
    <3>5. j + 2 <= e => \A p \in BOOLEAN : Same(j + 2, p)
      <4> SUFFICES ASSUME j + 2 <= e PROVE \A p \in BOOLEAN : Same(j + 2, p)
        OBVIOUS
      <4>1. j + 2 \in (j + 1) .. e /\ j + 2 >= i
        BY <1>1
      <4> QED
        BY <2>6, <4>1
    <3>6. j + 2 <= e => g[l + 1] = f[j + 1] /\ l + 1 <= Len(g)
      <4> SUFFICES ASSUME j + 2 <= e PROVE g[l + 1] = f[j + 1] /\ l + 1 <= Len(g)
        OBVIOUS
      <4>1. j + 1 \in i .. (e - 1)
        BY <1>1, <3>1
      <4> QED
        BY <2>2, <3>3, <4>1
    <3>7. j + 2 > e => g[l + 1] = LF
      <4> SUFFICES ASSUME j + 2 > e PROVE g[l + 1] = LF
        OBVIOUS
      <4>1. j + 1 = e
        BY <1>1, <3>1
      <4> QED
        BY <2>1, <3>3, <4>1
    <3>8. CASE f[j] = Quote /\ q /\ EscapedQuote(f, j)
      <4>1. Scan(f)[j][q] = Scan(f)[j + 2][TRUE] /\ j + 2 \in Positions(f)
        BY <1>1, <3>1, <3>2, <3>8 DEF ScanStep, EscapedQuote, Positions
      <4>2. j + 2 <= e
        <5>1. j + 2 <= Scan(f)[j + 2][TRUE].end
          BY <2>4, <4>1 DEF Bounded
        <5> QED
          BY <4>1, <5>1
      <4>3. EscapedQuote(g, l)
        BY <2>1, <3>1, <3>6, <3>8, <4>2 DEF EscapedQuote
      <4>4. Scan(g)[l][q] = Scan(g)[l + 2][TRUE]
        BY <3>1, <3>2, <3>8, <4>3 DEF ScanStep
      <4> HIDE DEF At, l
      <4> QED
        BY <3>3, <3>5, <4>1, <4>2, <4>4 DEF l
    <3>9. CASE f[j] = Quote /\ ~(q /\ EscapedQuote(f, j))
      <4>1. Scan(f)[j][q] = Scan(f)[j + 1][~q]
        BY <3>1, <3>2, <3>9 DEF ScanStep
      <4>2. ~(q /\ EscapedQuote(g, l))
        <5> SUFFICES ASSUME q, EscapedQuote(g, l) PROVE FALSE
          OBVIOUS
        <5>1. g[l + 1] = Quote
          BY DEF EscapedQuote
        <5>2. j + 2 <= e
          BY <1>1, <2>3, <3>1, <3>7, <5>1
        <5>3. f[j + 1] = Quote /\ j < Len(f)
          BY <1>1, <3>1, <3>6, <5>1, <5>2
        <5> QED
          BY <3>9, <5>3 DEF EscapedQuote
      <4>3. Scan(g)[l][q] = Scan(g)[l + 1][~q]
        BY <3>1, <3>2, <3>9, <4>2 DEF ScanStep
      <4>4. (~q) \in BOOLEAN
        OBVIOUS
      <4> HIDE DEF At, l
      <4> QED
        BY <3>3, <3>4, <4>1, <4>3, <4>4 DEF l
    <3>10. CASE f[j] # Quote /\ ~q /\ f[j] \in LineEnds
      <4>1. Scan(f)[j][q].end = j
        BY <3>1, <3>2, <3>10 DEF ScanStep
      <4> QED
        BY <3>1, <4>1
    <3>11. CASE f[j] # Quote /\ ~(~q /\ f[j] \in LineEnds)
      <4>1. Scan(f)[j][q] = Scan(f)[j + 1][q] /\ Scan(g)[l][q] = Scan(g)[l + 1][q]
        BY <3>1, <3>2, <3>11 DEF ScanStep
      <4> HIDE DEF At, l
      <4> QED
        BY <3>3, <3>4, <4>1 DEF l
    <3> QED
      BY <3>8, <3>9, <3>10, <3>11
  <2>7. ASSUME NEW j \in 1 .. e, \A k \in (j + 1) .. e : k \in P
        PROVE  j \in P
    <3> SUFFICES ASSUME j >= i PROVE \A q \in BOOLEAN : Same(j, q)
      OBVIOUS
    <3>1. j = e \/ j \in i .. (e - 1)
      BY <1>1
    <3> HIDE DEF Same
    <3> QED
      BY <2>5, <2>6, <2>7, <3>1
  <2>8. \A j \in 1 .. e : j \in P
    <3> HIDE DEF P
    <3> QED
      BY <1>1, <2>7, DownwardInduction
  <2>9. Same(i, FALSE)
    <3>1. i \in 1 .. e /\ i >= i
      BY <1>1
    <3> HIDE DEF Same
    <3> QED
      BY <2>8, <3>1
  <2>10. At(i) = m
    BY <1>1
  <2> QED
    BY <1>4, <2>9, <2>10 DEF there, n
<1>6. Closed(u)
  BY <1>5 DEF Closed
<1> QED
  BY <1>2, <1>6 DEF u

LEMMA RecordsClosed ==
  ASSUME NEW f \in Bytes, NEW k \in 1 .. Len(RawRecords(f)), ~RawRecords(f)[k].open
  PROVE  RawRecords(f)[k].text \in ClosedText
<1> DEFINE Fine(raw) == \A j \in 1 .. Len(raw) : ~raw[j].open => raw[j].text \in ClosedText
           P == {i \in Positions(f) : Fine(RawFrom(f)[i])}
           last == Len(f) + 2
<1>1. Len(f) \in Nat /\ last \in Nat /\ Positions(f) = 1 .. last
  BY DEF Positions, Bytes
<1>2. ASSUME NEW i \in 1 .. last, \A n \in (i + 1) .. last : n \in P
      PROVE  i \in P
  <2>1. RawFrom(f)[i] = RawStep(f, RawFrom(f), i)
    BY <1>1, RawSteps
  <2>2. CASE i > Len(f)
    <3>1. RawFrom(f)[i] = <<>> /\ Len(<<>>) = 0
      BY <2>1, <2>2 DEF RawStep
    <3> QED
      BY <1>1, <3>1
  <2>3. CASE i <= Len(f)
    <3> DEFINE n == ReadRecord(f, i).next
               rec == RecordAt(f, i)
               rest == RawFrom(f)[n]
               raw == <<rec>> \o rest
    <3>1. i \in 1 .. Len(f) /\ ~(i > Len(f))
      BY <1>1, <2>3
    <3>2. n \in (i + 1) .. last /\ n \in Positions(f)
      BY <1>1, <3>1, ReadRecordBounds
    <3>3. Fine(rest)
      BY <1>2, <3>2
    <3>4. rec \in RawRecord /\ (~rec.open => rec.text \in ClosedText)
      BY <3>1, RecordAtType, TextIsClosed DEF RecordAt, ClosedText
    <3>5. rest \in Seq(RawRecord)
      BY <3>2, RawSteps
    <3>6. RawFrom(f)[i] = raw
      BY <2>1, <3>1 DEF RawStep
    <3> HIDE DEF rec, rest
    <3>7. /\ <<rec>> \in Seq(RawRecord) /\ Len(raw) = 1 + Len(rest) /\ Len(rest) \in Nat
          /\ \A j \in 1 .. (1 + Len(rest)) : raw[j] = IF j <= 1 THEN <<rec>>[j] ELSE rest[j - 1]
      BY <3>4, <3>5, SmallSeqs, ConcatProperties
    <3> HIDE DEF raw
    <3>8. ASSUME NEW j \in 1 .. Len(raw), ~raw[j].open
          PROVE  raw[j].text \in ClosedText
      <4>1. CASE j = 1
        BY <3>4, <3>7, <3>8, <4>1
      <4>2. CASE j # 1
        <5>1. j - 1 \in 1 .. Len(rest) /\ raw[j] = rest[j - 1]
          BY <3>7, <4>2
        <5> QED
          BY <3>3, <3>8, <5>1
      <4> QED
        BY <4>1, <4>2
    <3> QED
      BY <1>1, <3>6, <3>8
  <2> QED
    BY <1>1, <2>2, <2>3
<1>3. \A i \in 1 .. last : i \in P
  <2> HIDE DEF P, last
  <2> QED
    BY <1>1, <1>2, DownwardInduction
<1>4. 1 \in P /\ RawRecords(f) = RawFrom(f)[1]
  BY <1>1, <1>3, RawSteps
<1> QED
  BY <1>4
=============================================================================
