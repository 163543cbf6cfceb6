----------------------------- MODULE CodecProofs -----------------------------
(***************************************************************************)
(* The CSV codec, for every text: what is read from a file, and what is    *)
(* read back from what was written.                                        *)
(***************************************************************************)
EXTENDS AppendRowProps, StorageProofs, FiniteSetTheorems

----------------------------------------------------------------------------
(***************************************************************************)
(* read_csv_record.                                                        *)
(***************************************************************************)
Positions(f) == 1 .. (Len(f) + 2)

Reads == [end : Nat, next : Nat, open : BOOLEAN]
Scans == [BOOLEAN -> Reads]

\* What is read from position j, given what is read from the later ones.
ScanStep(f, later, j, inQuotes) ==
  IF j > Len(f) THEN [end |-> j, next |-> j, open |-> inQuotes]
  ELSE IF f[j] = Quote THEN
    IF inQuotes /\ EscapedQuote(f, j) THEN later[j + 2][TRUE] ELSE later[j + 1][~inQuotes]
  ELSE IF ~inQuotes /\ f[j] \in LineEnds THEN
    [end |-> j, next |-> AfterLineEnd(f, j), open |-> FALSE]
  ELSE later[j + 1][inQuotes]

LEMMA ScanStepType ==
  ASSUME NEW f \in Bytes, NEW j \in Positions(f), NEW q \in BOOLEAN, NEW later,
         \A k \in Positions(f) : k > j => later[k] \in Scans
  PROVE  ScanStep(f, later, j, q) \in Reads
<1>1. Len(f) \in Nat /\ j \in Nat
  BY DEF Bytes, Positions
<1>2. j <= Len(f) => /\ later[j + 1] \in [BOOLEAN -> Reads]
                     /\ later[j + 2] \in [BOOLEAN -> Reads]
  BY <1>1 DEF Positions, Scans
<1>3. j <= Len(f) => /\ later[j + 1][q] \in Reads /\ later[j + 1][~q] \in Reads
                     /\ later[j + 2][TRUE] \in Reads
  BY <1>2
<1>4. AfterLineEnd(f, j) \in Nat
  BY <1>1 DEF AfterLineEnd
<1>5. /\ [end |-> j, next |-> j, open |-> q] \in Reads
      /\ [end |-> j, next |-> AfterLineEnd(f, j), open |-> FALSE] \in Reads
  BY <1>1, <1>4 DEF Reads
<1>6. CASE j > Len(f)
  BY <1>5, <1>6 DEF ScanStep
<1>7. CASE j <= Len(f)
  <2>1. ~(j > Len(f))
    BY <1>1, <1>7
  <2>2. later[j + 1][q] \in Reads /\ later[j + 1][~q] \in Reads /\ later[j + 2][TRUE] \in Reads
    BY <1>3, <1>7
  <2> QED
    BY <1>5, <2>1, <2>2, Zenon DEF ScanStep
<1> QED
  BY <1>1, <1>6, <1>7

\* The recursion of Scan is well defined.
LEMMA ScanSteps ==
  ASSUME NEW f \in Bytes
  PROVE  /\ Scan(f) \in [Positions(f) -> Scans]
         /\ \A j \in Positions(f), q \in BOOLEAN : Scan(f)[j][q] = ScanStep(f, Scan(f), j, q)
<1> DEFINE n == Len(f) + 2
           Whole(scan) == [j \in Positions(f) |-> [q \in BOOLEAN |-> ScanStep(f, scan, j, q)]]
           B == [j \in 1 .. n |-> [h \in [(j + 1) .. n -> Scans] |->
                                     [q \in BOOLEAN |-> ScanStep(f, h, j, q)]]]
           Rest(h, j) == Following(h, j, n)
<1>1. n \in Nat /\ Positions(f) = 1 .. n /\ Len(f) \in Nat
  BY DEF Positions, Bytes
<1> HIDE DEF n
<1>2. ASSUME NEW j \in 1 .. n, NEW h \in [(j + 1) .. n -> Scans]
      PROVE  B[j][h] = [q \in BOOLEAN |-> ScanStep(f, h, j, q)] /\ B[j][h] \in Scans
  <2>1. B[j][h] = [q \in BOOLEAN |-> ScanStep(f, h, j, q)]
    OBVIOUS
  <2>2. \A k \in Positions(f) : k > j => h[k] \in Scans
    BY <1>1
  <2>3. \A q \in BOOLEAN : ScanStep(f, h, j, q) \in Reads
    BY <1>1, <2>2, ScanStepType
  <2> QED
    BY <2>1, <2>3 DEF Scans
<1> HIDE DEF B
<1>3. PICK h \in [1 .. n -> Scans] : \A j \in 1 .. n : h[j] = B[j][Following(h, j, n)]
  <2>1. Downward(B, n, Scans)
    BY <1>2 DEF Downward
  <2>2. \E h \in [1 .. n -> Scans] : \A j \in 1 .. n : h[j] = B[j][Following(h, j, n)]
    BY <1>1, <2>1, DownwardRecursion
  <2> QED
    BY <2>2
<1>4. ASSUME NEW j \in 1 .. n, NEW q \in BOOLEAN
      PROVE  h[j][q] = ScanStep(f, h, j, q)
  <2>1. Rest(h, j) \in [(j + 1) .. n -> Scans]
    BY DEF Following
  <2>2. h[j][q] = ScanStep(f, Rest(h, j), j, q)
    <3>1. h[j] = B[j][Rest(h, j)]
      BY <1>3
    <3>2. B[j][Rest(h, j)] = [p \in BOOLEAN |-> ScanStep(f, Rest(h, j), j, p)]
      BY <1>2, <2>1
    <3> HIDE DEF Rest
    <3> QED
      BY <3>1, <3>2
  <2>3. j <= Len(f) => j + 1 \in (j + 1) .. n /\ j + 2 \in (j + 1) .. n
    BY <1>1 DEF n
  <2>4. j <= Len(f) => Rest(h, j)[j + 1] = h[j + 1] /\ Rest(h, j)[j + 2] = h[j + 2]
    BY <2>3 DEF Following
  <2> HIDE DEF Rest
  <2>5. CASE j > Len(f)
    BY <2>2, <2>5 DEF ScanStep
  <2>6. CASE j <= Len(f)
    <3>1. Rest(h, j)[j + 1] = h[j + 1] /\ Rest(h, j)[j + 2] = h[j + 2]
      BY <2>4, <2>6
    <3>2. ScanStep(f, Rest(h, j), j, q) = ScanStep(f, h, j, q)
      BY <3>1, Zenon DEF ScanStep
    <3> QED
      BY <2>2, <3>2
  <2> QED
    BY <1>1, <2>5, <2>6
<1>5. h = Whole(h)
  <2>1. \A j \in 1 .. n : h[j] \in [BOOLEAN -> Reads]
    BY DEF Scans
  <2>2. \A j \in 1 .. n : h[j] = [q \in BOOLEAN |-> ScanStep(f, h, j, q)]
    BY <1>4, <2>1
  <2> QED
    BY <1>1, <2>2
<1>6. Scan(f) = CHOOSE scan : scan = Whole(scan)
  BY DEF Scan, ScanStep, Positions
<1>7. Scan(f) = Whole(Scan(f))
  <2> HIDE DEF Whole
  <2> QED
    BY <1>5, <1>6
<1>8. \A j \in Positions(f), q \in BOOLEAN : Scan(f)[j][q] = ScanStep(f, Scan(f), j, q)
  BY <1>7
<1>9. \A j \in Positions(f) : Scan(f)[j] = [q \in BOOLEAN |-> ScanStep(f, Scan(f), j, q)]
  BY <1>7
<1>10. \A j \in 1 .. n : Scan(f)[j] \in Scans
  <2> DEFINE P == {j \in 1 .. n : Scan(f)[j] \in Scans}
  <2>1. ASSUME NEW j \in 1 .. n, \A k \in (j + 1) .. n : k \in P
        PROVE  j \in P
    <3>1. \A k \in Positions(f) : k > j => Scan(f)[k] \in Scans
      BY <1>1, <2>1
    <3>2. \A q \in BOOLEAN : ScanStep(f, Scan(f), j, q) \in Reads
      BY <1>1, <3>1, ScanStepType
    <3>3. Scan(f)[j] = [q \in BOOLEAN |-> ScanStep(f, Scan(f), j, q)]
      BY <1>1, <1>9
    <3> QED
      BY <3>2, <3>3 DEF Scans
  <2>2. \A j \in 1 .. n : j \in P
    <3> HIDE DEF P
    <3> QED
      BY <1>1, <2>1, DownwardInduction
  <2> QED
    BY <2>2
<1>11. Scan(f) \in [Positions(f) -> Scans]
  BY <1>1, <1>7, <1>10
<1> QED
  BY <1>8, <1>11

\* A record ends at a line end or with the file, and the next one starts after
\* it; only the end of the file can leave quotes open.
Bounded(f, j, r) ==
  /\ j <= r.end /\ r.next <= Len(f) + 2
  /\ j <= Len(f) + 1 => r.end <= Len(f) + 1
  /\ r.end <= Len(f) => /\ f[r.end] \in LineEnds /\ ~r.open
                         /\ r.next = AfterLineEnd(f, r.end) /\ r.next \in {r.end + 1, r.end + 2}
  /\ r.end > Len(f) => r.next = r.end

LEMMA ScanBounds ==
  ASSUME NEW f \in Bytes
  PROVE  \A j \in Positions(f), q \in BOOLEAN : Bounded(f, j, Scan(f)[j][q])
<1> DEFINE P == {j \in Positions(f) : \A q \in BOOLEAN : Bounded(f, j, Scan(f)[j][q])}
<1>1. Len(f) \in Nat /\ Len(f) + 2 \in Nat /\ Positions(f) = 1 .. (Len(f) + 2)
  BY DEF Bytes, Positions
<1>2. ASSUME NEW j \in Positions(f), \A k \in (j + 1) .. (Len(f) + 2) : k \in P,
             NEW q \in BOOLEAN
      PROVE  Bounded(f, j, Scan(f)[j][q])
  <2>1. /\ Scan(f)[j][q] = ScanStep(f, Scan(f), j, q)
        /\ \A k \in Positions(f), p \in BOOLEAN : Scan(f)[k][p] \in Reads
    BY ScanSteps DEF Scans
  <2>2. CASE j > Len(f)
    <3>1. Scan(f)[j][q] = [end |-> j, next |-> j, open |-> q]
      BY <2>1, <2>2 DEF ScanStep
    <3> QED
      BY <1>1, <2>2, <3>1 DEF Bounded
  <2>3. CASE j <= Len(f) /\ ~q /\ f[j] \in LineEnds /\ f[j] # Quote
    <3>1. Scan(f)[j][q] = [end |-> j, next |-> AfterLineEnd(f, j), open |-> FALSE]
      BY <1>1, <2>1, <2>3 DEF ScanStep
    <3>2. AfterLineEnd(f, j) \in {j + 1, j + 2}
      BY DEF AfterLineEnd
    <3> QED
      BY <1>1, <2>3, <3>1, <3>2 DEF Bounded
  <2>4. CASE j <= Len(f) /\ (q \/ f[j] \notin LineEnds \/ f[j] = Quote)
    <3>1. \E k \in {j + 1, j + 2}, p \in BOOLEAN :
             Scan(f)[j][q] = Scan(f)[k][p] /\ (k = j + 2 => j < Len(f))
      <4>1. ~(j > Len(f))
        BY <1>1, <2>4
      <4>2. CASE f[j] = Quote /\ q /\ EscapedQuote(f, j)
        <5>1. Scan(f)[j][q] = Scan(f)[j + 2][TRUE]
          BY <2>1, <4>1, <4>2 DEF ScanStep
        <5> QED
          BY <4>2, <5>1 DEF EscapedQuote
      <4>3. CASE f[j] = Quote /\ ~(q /\ EscapedQuote(f, j))
        <5>1. Scan(f)[j][q] = Scan(f)[j + 1][~q]
          BY <2>1, <4>1, <4>3 DEF ScanStep
        <5>2. j + 1 # j + 2
          BY <1>1
        <5>3. CASE q = TRUE
          BY <5>1, <5>2, <5>3
        <5>4. CASE q = FALSE
          BY <5>1, <5>2, <5>4
        <5> QED
          BY <5>3, <5>4
      <4>4. CASE f[j] # Quote
        <5>1. Scan(f)[j][q] = Scan(f)[j + 1][q]
          BY <2>1, <2>4, <4>1, <4>4 DEF ScanStep
        <5>2. j + 1 # j + 2
          BY <1>1
        <5> QED
          BY <5>1, <5>2
      <4> QED
        BY <4>2, <4>3, <4>4
    <3>2. PICK k \in {j + 1, j + 2}, p \in BOOLEAN :
             Scan(f)[j][q] = Scan(f)[k][p] /\ (k = j + 2 => j < Len(f))
      BY <3>1
    <3>3. k \in (j + 1) .. (Len(f) + 2) /\ k <= Len(f) + 1
      BY <1>1, <2>4, <3>2
    <3>4. Bounded(f, k, Scan(f)[k][p])
      BY <1>2, <3>3
    <3>5. Scan(f)[k][p].end \in Nat /\ Scan(f)[k][p].next \in Nat
      BY <1>1, <2>1, <3>3 DEF Reads
    <3> QED
      BY <1>1, <2>4, <3>2, <3>3, <3>4, <3>5 DEF Bounded
  <2> QED
    BY <1>1, <2>2, <2>3, <2>4
<1>3. \A j \in 1 .. (Len(f) + 2) : j \in P
  <2>1. ASSUME NEW j \in 1 .. (Len(f) + 2), \A k \in (j + 1) .. (Len(f) + 2) : k \in P
        PROVE  j \in P
    BY <1>1, <1>2, <2>1
  <2> HIDE DEF P
  <2> QED
    BY <1>1, <2>1, DownwardInduction
<1> QED
  BY <1>1, <1>3

\* The record that starts at a position of f.
LEMMA ReadRecordBounds ==
  ASSUME NEW f \in Bytes, NEW i \in 1 .. Len(f)
  PROVE  /\ ReadRecord(f, i) \in Reads
         /\ ReadRecord(f, i).end \in i .. (Len(f) + 1)
         /\ ReadRecord(f, i).next \in (i + 1) .. (Len(f) + 2)
         /\ ReadRecord(f, i).end <= Len(f) =>
              /\ f[ReadRecord(f, i).end] \in LineEnds /\ ~ReadRecord(f, i).open
              /\ ReadRecord(f, i).next = AfterLineEnd(f, ReadRecord(f, i).end)
         /\ ReadRecord(f, i).end > Len(f) => ReadRecord(f, i).next = Len(f) + 1
<1>1. i \in Positions(f) /\ Len(f) \in Nat
  BY DEF Positions, Bytes
<1>2. Scan(f)[i][FALSE] \in Reads /\ Bounded(f, i, Scan(f)[i][FALSE])
  BY <1>1, ScanSteps, ScanBounds DEF Scans
<1> DEFINE r == Scan(f)[i][FALSE]
<1>3. r.end \in Nat /\ r.next \in Nat
  BY <1>2 DEF Reads
<1> HIDE DEF r
<1>4. Bounded(f, i, r) /\ r \in Reads /\ ReadRecord(f, i) = r
  BY <1>2 DEF r, ReadRecord
<1>5. /\ r.end \in i .. (Len(f) + 1) /\ r.next \in (i + 1) .. (Len(f) + 2)
      /\ r.end > Len(f) => r.next = Len(f) + 1
  BY <1>1, <1>3, <1>4 DEF Bounded
<1>6. r.end <= Len(f) =>
        f[r.end] \in LineEnds /\ ~r.open /\ r.next = AfterLineEnd(f, r.end)
  BY <1>4 DEF Bounded
<1> QED
  BY <1>4, <1>5, <1>6

----------------------------------------------------------------------------
(***************************************************************************)
(* The records of a file.                                                  *)
(***************************************************************************)
RawRecord == [text : Bytes, open : BOOLEAN]

\* The record at position i, and those after it, given those from later on.
TextAt(f, i) == SubSeq(f, i, ReadRecord(f, i).end - 1)

RecordAt(f, i) == [text |-> TextAt(f, i), open |-> ReadRecord(f, i).open]

RawStep(f, later, i) ==
  IF i > Len(f) THEN <<>> ELSE << RecordAt(f, i) >> \o later[ReadRecord(f, i).next]

LEMMA RecordAtType ==
  ASSUME NEW f \in Bytes, NEW i \in 1 .. Len(f)
  PROVE  RecordAt(f, i) \in RawRecord
<1>1. Len(f) \in Nat
  BY DEF Bytes
<1>2. ReadRecord(f, i).open \in BOOLEAN /\ ReadRecord(f, i).end - 1 \in (i - 1) .. Len(f)
  BY <1>1, ReadRecordBounds DEF Reads
<1>3. TextAt(f, i) \in Bytes
  BY <1>1, <1>2, SubSeqProperties DEF Bytes, TextAt
<1> QED
  BY <1>2, <1>3 DEF RecordAt, RawRecord

LEMMA RawStepType ==
  ASSUME NEW f \in Bytes, NEW i \in Positions(f), NEW later,
         \A k \in Positions(f) : k > i => later[k] \in Seq(RawRecord)
  PROVE  RawStep(f, later, i) \in Seq(RawRecord)
<1>1. CASE i > Len(f)
  BY <1>1 DEF RawStep
<1>2. CASE i <= Len(f)
  <2>1. i \in 1 .. Len(f) /\ Len(f) \in Nat /\ ~(i > Len(f))
    BY <1>2 DEF Positions, Bytes
  <2>2. ReadRecord(f, i).next \in Positions(f) /\ ReadRecord(f, i).next > i
    BY <2>1, ReadRecordBounds DEF Positions
  <2>3. later[ReadRecord(f, i).next] \in Seq(RawRecord)
    BY <2>2
  <2>4. << RecordAt(f, i) >> \in Seq(RawRecord)
    <3>1. RecordAt(f, i) \in RawRecord
      BY <2>1, RecordAtType
    <3> QED
      BY <3>1, SmallSeqs
  <2> QED
    BY <2>1, <2>3, <2>4, ConcatProperties DEF RawStep
<1> QED
  BY <1>1, <1>2 DEF Positions, Bytes

\* The records from a position on.
RawFrom(f) ==
  CHOOSE from : from = [i \in Positions(f) |-> RawStep(f, from, i)]

\* The recursion of RawRecords is well defined.
LEMMA RawSteps ==
  ASSUME NEW f \in Bytes
  PROVE  /\ RawRecords(f) = RawFrom(f)[1]
         /\ RawFrom(f) \in [Positions(f) -> Seq(RawRecord)]
         /\ \A i \in Positions(f) : RawFrom(f)[i] = RawStep(f, RawFrom(f), i)
<1> DEFINE n == Len(f) + 2
           Whole(from) == [i \in Positions(f) |-> RawStep(f, from, i)]
           B == [i \in 1 .. n |-> [h \in [(i + 1) .. n -> Seq(RawRecord)] |-> RawStep(f, h, i)]]
<1>1. n \in Nat /\ Positions(f) = 1 .. n /\ Len(f) \in Nat
  BY DEF Positions, Bytes
<1> HIDE DEF n
<1>2. ASSUME NEW i \in 1 .. n, NEW h \in [(i + 1) .. n -> Seq(RawRecord)]
      PROVE  B[i][h] = RawStep(f, h, i) /\ B[i][h] \in Seq(RawRecord)
  <2>1. B[i][h] = RawStep(f, h, i)
    OBVIOUS
  <2>2. \A k \in Positions(f) : k > i => h[k] \in Seq(RawRecord)
    BY <1>1
  <2> QED
    BY <1>1, <2>1, <2>2, RawStepType
<1> HIDE DEF B
<1>3. PICK h \in [1 .. n -> Seq(RawRecord)] : \A i \in 1 .. n : h[i] = B[i][Following(h, i, n)]
  <2>1. Downward(B, n, Seq(RawRecord))
    BY <1>2 DEF Downward
  <2> QED
    BY <1>1, <2>1, DownwardRecursion
<1>4. ASSUME NEW i \in 1 .. n
      PROVE  h[i] = RawStep(f, h, i)
  <2>1. Following(h, i, n) \in [(i + 1) .. n -> Seq(RawRecord)]
    BY DEF Following
  <2>2. h[i] = RawStep(f, Following(h, i, n), i)
    BY <1>2, <1>3, <2>1
  <2>3. CASE i > Len(f)
    BY <2>2, <2>3 DEF RawStep
  <2>4. CASE i <= Len(f)
    <3>1. ReadRecord(f, i).next \in (i + 1) .. n
      BY <1>1, <2>4, ReadRecordBounds DEF n
    <3>2. Following(h, i, n)[ReadRecord(f, i).next] = h[ReadRecord(f, i).next]
      BY <3>1 DEF Following
    <3> QED
      BY <2>2, <3>2 DEF RawStep
  <2> QED
    BY <1>1, <2>3, <2>4
<1>5. h = Whole(h)
  BY <1>1, <1>4
<1>6. RawRecords(f) = RawFrom(f)[1]
  BY DEF RawRecords, RawFrom, RawStep, RecordAt, TextAt, Positions
<1>7. RawFrom(f) = Whole(RawFrom(f))
  <2>1. RawFrom(f) = CHOOSE from : from = Whole(from)
    BY DEF RawFrom
  <2> HIDE DEF Whole
  <2> QED
    BY <1>5, <2>1
<1>8. \A i \in Positions(f) : RawFrom(f)[i] = RawStep(f, RawFrom(f), i)
  BY <1>7
<1>9. \A i \in 1 .. n : RawFrom(f)[i] \in Seq(RawRecord)
  <2> DEFINE P == {i \in 1 .. n : RawFrom(f)[i] \in Seq(RawRecord)}
  <2>1. ASSUME NEW i \in 1 .. n, \A k \in (i + 1) .. n : k \in P
        PROVE  i \in P
    <3>1. \A k \in Positions(f) : k > i => RawFrom(f)[k] \in Seq(RawRecord)
      BY <1>1, <2>1
    <3> QED
      BY <1>1, <1>8, <3>1, RawStepType
  <2>2. \A i \in 1 .. n : i \in P
    <3> HIDE DEF P
    <3> QED
      BY <1>1, <2>1, DownwardInduction
  <2> QED
    BY <2>2
<1> QED
  BY <1>1, <1>6, <1>7, <1>8, <1>9

----------------------------------------------------------------------------
(***************************************************************************)
(* A file that grows at its end.                                           *)
(***************************************************************************)
\* What may follow f: anything after a line end, and a line end after anything
\* else.
Follows(f, part) == f[Len(f)] \in LineEnds \/ part[1] \in LineEnds

\* The record r of f, read from position j, against the record s read there
\* when f has grown to g.
Grown(f, g, j, r, s) ==
  /\ r.end <= Len(f) => s.end = r.end /\ ~s.open
  /\ r.end <= Len(f) /\ (r.next <= Len(f) \/ g[Len(f) + 1] # LF) => s.next = r.next
  /\ r.end > Len(f) /\ f[Len(f)] \notin LineEnds /\ ~r.open => s.end = r.end /\ ~s.open
  /\ r.end > Len(f) /\ f[Len(f)] \notin LineEnds /\ ~r.open /\ g[Len(f) + 1] = LF =>
       s.next = r.end + 1
  /\ r.end > Len(f) /\ f[Len(f)] \in LineEnds /\ j <= Len(f) => r.open

\* One step of the reader, the same on f and on g.
Stops(f, j, q) == Scan(f)[j][q] = [end |-> j, next |-> AfterLineEnd(f, j), open |-> FALSE]

MovesOn(f, j, q, k, p) ==
  /\ k \in {j + 1, j + 2} /\ k <= Len(f) + 1
  /\ f[Len(f)] \in LineEnds /\ k > Len(f) => p = TRUE
  /\ Scan(f)[j][q] = Scan(f)[k][p]

SameMove(f, g, j, q) ==
  \/ Stops(f, j, q) /\ Stops(g, j, q)
  \/ \E k \in Nat, p \in BOOLEAN : MovesOn(f, j, q, k, p) /\ Scan(g)[j][q] = Scan(g)[k][p]

LEMMA ScanBoth ==
  ASSUME NEW f \in Bytes, NEW part \in Bytes, f # <<>>, part # <<>>, Follows(f, part),
         NEW j \in 1 .. Len(f), NEW q \in BOOLEAN
  PROVE  SameMove(f, f \o part, j, q)
<1> DEFINE g == f \o part
<1>1. /\ Len(f) \in Nat \ {0} /\ Len(part) \in Nat \ {0} /\ g \in Bytes
      /\ Len(g) = Len(f) + Len(part)
      /\ \A i \in 1 .. Len(f) : g[i] = f[i]
      /\ g[Len(f) + 1] = part[1]
  BY ConcatProperties, EmptySeq DEF Bytes
<1> HIDE DEF g
<1>2. /\ Scan(f)[j][q] = ScanStep(f, Scan(f), j, q)
      /\ Scan(g)[j][q] = ScanStep(g, Scan(g), j, q)
  <2>1. j \in Positions(f) /\ j \in Positions(g)
    BY <1>1 DEF Positions
  <2> QED
    BY <1>1, <2>1, ScanSteps
<1>3. ~(j > Len(f)) /\ ~(j > Len(g)) /\ g[j] = f[j] /\ j + 1 # j + 2
  BY <1>1
<1>4. Quote \notin LineEnds
  BY SymbolsAssumption
<1>5. f[j] = Quote => (EscapedQuote(g, j) <=> EscapedQuote(f, j))
  <2>1. CASE j < Len(f)
    BY <1>1, <2>1 DEF EscapedQuote
  <2>2. CASE j = Len(f)
    BY <1>1, <1>4, <2>2 DEF EscapedQuote, Follows
  <2> QED
    BY <1>1, <2>1, <2>2
<1>6. CASE f[j] = Quote /\ q = TRUE /\ EscapedQuote(f, j)
  <2>1. Scan(f)[j][q] = Scan(f)[j + 2][TRUE] /\ Scan(g)[j][q] = Scan(g)[j + 2][TRUE]
    BY <1>2, <1>3, <1>5, <1>6 DEF ScanStep
  <2>2. j + 2 <= Len(f) + 1
    BY <1>1, <1>6 DEF EscapedQuote
  <2>3. j + 2 \in Nat /\ TRUE \in BOOLEAN
    BY <1>1
  <2>4. MovesOn(f, j, q, j + 2, TRUE)
    BY <2>1, <2>2 DEF MovesOn
  <2> QED
    BY <2>1, <2>3, <2>4 DEF SameMove, g
<1>7. CASE f[j] = Quote /\ ~(q = TRUE /\ EscapedQuote(f, j))
  <2>1. Scan(f)[j][q] = Scan(f)[j + 1][~q] /\ Scan(g)[j][q] = Scan(g)[j + 1][~q]
    BY <1>2, <1>3, <1>5, <1>7 DEF ScanStep
  <2>2. j + 1 <= Len(f) + 1 /\ (f[Len(f)] \in LineEnds => j + 1 <= Len(f))
    BY <1>1, <1>4, <1>7
  <2>3. CASE q = TRUE
    <3>1. Scan(f)[j][q] = Scan(f)[j + 1][FALSE] /\ Scan(g)[j][q] = Scan(g)[j + 1][FALSE]
      BY <2>1, <2>3
    <3>2. MovesOn(f, j, q, j + 1, FALSE)
      BY <1>1, <2>2, <3>1 DEF MovesOn
    <3>3. j + 1 \in Nat /\ FALSE \in BOOLEAN
      BY <1>1
    <3> QED
      BY <3>1, <3>2, <3>3 DEF SameMove, g
  <2>4. CASE q = FALSE
    <3>1. Scan(f)[j][q] = Scan(f)[j + 1][TRUE] /\ Scan(g)[j][q] = Scan(g)[j + 1][TRUE]
      BY <2>1, <2>4
    <3>2. MovesOn(f, j, q, j + 1, TRUE)
      BY <1>1, <2>2, <3>1 DEF MovesOn
    <3>3. j + 1 \in Nat /\ TRUE \in BOOLEAN
      BY <1>1
    <3> QED
      BY <3>1, <3>2, <3>3 DEF SameMove, g
  <2> QED
    BY <2>3, <2>4
<1>8. CASE f[j] # Quote /\ q = FALSE /\ f[j] \in LineEnds
  <2>1. Stops(f, j, q) /\ Stops(g, j, q)
    BY <1>2, <1>3, <1>8 DEF ScanStep, Stops
  <2> QED
    BY <2>1 DEF SameMove, g
<1>9. CASE f[j] # Quote /\ ~(q = FALSE /\ f[j] \in LineEnds)
  <2>1. Scan(f)[j][q] = Scan(f)[j + 1][q] /\ Scan(g)[j][q] = Scan(g)[j + 1][q]
    BY <1>2, <1>3, <1>9 DEF ScanStep
  <2>2. j + 1 <= Len(f) + 1 /\ (f[Len(f)] \in LineEnds /\ j + 1 > Len(f) => q = TRUE)
    BY <1>1, <1>9
  <2>3. MovesOn(f, j, q, j + 1, q)
    BY <2>1, <2>2 DEF MovesOn
  <2> QED
    BY <1>1, <2>1, <2>3 DEF SameMove, g
<1> QED
  BY <1>6, <1>7, <1>8, <1>9

LEMMA ScanGrown ==
  ASSUME NEW f \in Bytes, NEW part \in Bytes, f # <<>>, part # <<>>, Follows(f, part)
  PROVE  \A j \in 1 .. (Len(f) + 1), q \in BOOLEAN :
           Grown(f, f \o part, j, Scan(f)[j][q], Scan(f \o part)[j][q])
<1> DEFINE g == f \o part
           P == {j \in 1 .. (Len(f) + 1) :
                   \A q \in BOOLEAN : Grown(f, g, j, Scan(f)[j][q], Scan(g)[j][q])}
<1>1. /\ Len(f) \in Nat \ {0} /\ Len(part) \in Nat \ {0} /\ g \in Bytes
      /\ Len(g) = Len(f) + Len(part)
      /\ g[Len(f) + 1] = part[1]
  BY ConcatProperties, EmptySeq DEF Bytes
<1>2. ASSUME NEW j \in 1 .. (Len(f) + 1), \A k \in (j + 1) .. (Len(f) + 1) : k \in P,
             NEW q \in BOOLEAN
      PROVE  Grown(f, g, j, Scan(f)[j][q], Scan(g)[j][q])
  <2>1. CASE j = Len(f) + 1
    <3>1. j \in Positions(f) /\ j \in Positions(g) /\ j > Len(f) /\ ~(j > Len(g))
      BY <1>1, <2>1 DEF Positions
    <3>2. /\ Scan(f)[j][q] = ScanStep(f, Scan(f), j, q)
          /\ Scan(g)[j][q] = ScanStep(g, Scan(g), j, q)
      BY <1>1, <3>1, ScanSteps
    <3>3. Scan(f)[j][q] = [end |-> j, next |-> j, open |-> q]
      BY <3>1, <3>2 DEF ScanStep
    <3>4. f[Len(f)] \notin LineEnds => g[j] \in LineEnds /\ g[j] # Quote
      BY <1>1, <2>1, SymbolsAssumption DEF Follows
    <3>5. f[Len(f)] \notin LineEnds /\ ~q =>
            Scan(g)[j][q] = [end |-> j, next |-> AfterLineEnd(g, j), open |-> FALSE]
      BY <3>1, <3>2, <3>4 DEF ScanStep
    <3>6. g[Len(f) + 1] = LF => AfterLineEnd(g, j) = j + 1
      BY <2>1 DEF AfterLineEnd, LF, CR
    <3> HIDE DEF g
    <3> QED
      BY <1>1, <2>1, <3>1, <3>3, <3>5, <3>6 DEF Grown
  <2>2. CASE j <= Len(f)
    <3> HIDE DEF g
    <3>1. j \in 1 .. Len(f)
      BY <1>1, <2>2
    <3>2. CASE Stops(f, j, q) /\ Stops(g, j, q)
      <4>1. AfterLineEnd(f, j) <= Len(f) \/ g[Len(f) + 1] # LF =>
              AfterLineEnd(g, j) = AfterLineEnd(f, j)
        <5>1. \A i \in 1 .. Len(f) : g[i] = f[i]
          BY ConcatProperties DEF g, Bytes
        <5>2. CASE j < Len(f)
          BY <1>1, <3>1, <5>1, <5>2 DEF AfterLineEnd
        <5>3. CASE j = Len(f)
          BY <1>1, <3>1, <5>1, <5>3 DEF AfterLineEnd
        <5> QED
          BY <1>1, <3>1, <5>2, <5>3
      <4> QED
        BY <1>1, <3>1, <3>2, <4>1 DEF Grown, Stops
    <3>3. CASE \E k \in Nat, p \in BOOLEAN :
                 MovesOn(f, j, q, k, p) /\ Scan(g)[j][q] = Scan(g)[k][p]
      <4>0. PICK k \in Nat, p \in BOOLEAN :
                 MovesOn(f, j, q, k, p) /\ Scan(g)[j][q] = Scan(g)[k][p]
        BY <3>3
      <4>1. /\ k \in {j + 1, j + 2} /\ k <= Len(f) + 1
            /\ f[Len(f)] \in LineEnds /\ k > Len(f) => p = TRUE
            /\ Scan(f)[j][q] = Scan(f)[k][p] /\ Scan(g)[j][q] = Scan(g)[k][p]
        BY <4>0 DEF MovesOn
      <4>2. k \in (j + 1) .. (Len(f) + 1)
        BY <1>1, <3>1, <4>1
      <4>3. Grown(f, g, k, Scan(f)[k][p], Scan(g)[k][p])
        BY <1>2, <4>2
      <4>4. CASE k <= Len(f)
        BY <1>1, <3>1, <4>1, <4>3, <4>4 DEF Grown
      <4>5. CASE k > Len(f)
        <5>1. k \in Positions(f)
          BY <1>1, <4>2 DEF Positions
        <5>2. Scan(f)[k][p] = [end |-> k, next |-> k, open |-> p]
          BY <4>5, <5>1, ScanSteps DEF ScanStep
        <5>3. f[Len(f)] \in LineEnds => Scan(f)[j][q].open
          BY <4>1, <4>5, <5>2
        <5> QED
          BY <4>1, <4>3, <5>3 DEF Grown
      <4> QED
        BY <1>1, <4>2, <4>4, <4>5
    <3>4. SameMove(f, g, j, q)
      BY <3>1, ScanBoth DEF g
    <3> QED
      BY <3>2, <3>3, <3>4 DEF SameMove
  <2> QED
    BY <1>1, <2>1, <2>2
<1>3. \A j \in 1 .. (Len(f) + 1) : j \in P
  <2>1. ASSUME NEW j \in 1 .. (Len(f) + 1), \A k \in (j + 1) .. (Len(f) + 1) : k \in P
        PROVE  j \in P
    BY <1>2, <2>1
  <2>2. Len(f) + 1 \in Nat
    BY <1>1
  <2> HIDE DEF P
  <2> QED
    BY <2>1, <2>2, DownwardInduction
<1> QED
  BY <1>3

\* A prefix, element by element.
LEMMA PrefixElements ==
  ASSUME NEW X, NEW s \in Seq(X), NEW t \in Seq(X)
  PROVE  IsPrefix(s, t) <=> Len(s) <= Len(t) /\ \A k \in 1 .. Len(s) : s[k] = t[k]
<1>1. Len(s) \in Nat /\ Len(t) \in Nat
  OBVIOUS
<1>2. SubSeq(s, 1, Len(s)) = s
  OBVIOUS
<1>3. ASSUME Len(s) <= Len(t)
      PROVE  /\ SubSeq(t, 1, Len(s)) \in Seq(X) /\ Len(SubSeq(t, 1, Len(s))) = Len(s)
             /\ \A k \in 1 .. Len(s) : SubSeq(t, 1, Len(s))[k] = t[k]
  BY <1>1, <1>3, SubSeqProperties
<1>4. ASSUME Len(s) <= Len(t), \A k \in 1 .. Len(s) : s[k] = t[k]
      PROVE  s = SubSeq(t, 1, Len(s))
  BY <1>3, <1>4, SeqEqual
<1> QED
  BY <1>2, <1>3, <1>4 DEF IsPrefix

\* A record before a sequence, and before one it is a prefix of.
LEMMA PrefixAfterOne ==
  ASSUME NEW X, NEW r \in X, NEW s \in Seq(X), NEW t \in Seq(X), IsPrefix(s, t)
  PROVE  IsPrefix(<<r>> \o s, <<r>> \o t)
<1>1. Len(s) <= Len(t) /\ \A k \in 1 .. Len(s) : s[k] = t[k]
  BY PrefixElements
<1>2. /\ Len(s) \in Nat /\ Len(t) \in Nat
      /\ <<r>> \o s \in Seq(X) /\ <<r>> \o t \in Seq(X)
      /\ Len(<<r>> \o s) = Len(s) + 1 /\ Len(<<r>> \o t) = Len(t) + 1
  OBVIOUS
<1>3. /\ \A k \in 1 .. (Len(s) + 1) : (<<r>> \o s)[k] = IF k = 1 THEN r ELSE s[k - 1]
      /\ \A k \in 1 .. (Len(t) + 1) : (<<r>> \o t)[k] = IF k = 1 THEN r ELSE t[k - 1]
  OBVIOUS
<1>4. \A k \in 1 .. (Len(s) + 1) : (<<r>> \o s)[k] = (<<r>> \o t)[k]
  BY <1>1, <1>2, <1>3
<1> DEFINE rs == <<r>> \o s
           rt == <<r>> \o t
<1>5. rs \in Seq(X) /\ rt \in Seq(X) /\ Len(rs) <= Len(rt) /\ \A k \in 1 .. Len(rs) : rs[k] = rt[k]
  BY <1>1, <1>2, <1>4
<1> HIDE DEF rs, rt
<1>6. IsPrefix(rs, rt)
  BY <1>5, PrefixElements
<1> QED
  BY <1>6 DEF rs, rt

\* The last record of a file that ends outside quotes is whole.
EndsOpen(raw) == raw # <<>> /\ raw[Len(raw)].open

\* The record at position i of f, when f has grown to g.
Regrown(f, g, i) ==
  LET r    == ReadRecord(f, i)
      s    == ReadRecord(g, i)
      rest == RawFrom(f)[r.next]
  IN  /\ r \in Reads /\ r.end \in i .. (Len(f) + 1) /\ r.next \in (i + 1) .. (Len(f) + 2)
      /\ ~r.open /\ (r.end > Len(f) => r.next = Len(f) + 1)
      /\ rest \in Seq(RawRecord) /\ RawFrom(g)[s.next] \in Seq(RawRecord)
      /\ RecordAt(f, i) \in RawRecord
      /\ RawFrom(f)[i] = << RecordAt(f, i) >> \o rest
      /\ RawFrom(g)[i] = << RecordAt(f, i) >> \o RawFrom(g)[s.next]
      /\ r.next > Len(f) => rest = <<>>
      /\ r.next <= Len(f) => s.next = r.next /\ ~EndsOpen(rest)
      /\ Grown(f, g, i, r, s)

LEMMA SameSubSeq ==
  ASSUME NEW f \in Bytes, NEW g \in Bytes, Len(f) <= Len(g),
         \A k \in 1 .. Len(f) : g[k] = f[k],
         NEW i \in 1 .. Len(f), NEW e \in (i - 1) .. Len(f)
  PROVE  SubSeq(g, i, e) = SubSeq(f, i, e)
<1>1. Len(f) \in Nat /\ Len(g) \in Nat /\ i \in Int /\ e \in Int
  BY DEF Bytes
<1>2. /\ \A k \in i .. e : f[k] \in Char /\ g[k] \in Char
  BY <1>1 DEF Bytes
<1>3. /\ SubSeq(f, i, e) \in Seq(Char)
      /\ Len(SubSeq(f, i, e)) = IF i <= e THEN e - i + 1 ELSE 0
      /\ \A k \in 1 .. (e - i + 1) : SubSeq(f, i, e)[k] = f[i + k - 1]
  BY <1>1, <1>2, SubSeqProperties
<1>4. /\ SubSeq(g, i, e) \in Seq(Char)
      /\ Len(SubSeq(g, i, e)) = IF i <= e THEN e - i + 1 ELSE 0
      /\ \A k \in 1 .. (e - i + 1) : SubSeq(g, i, e)[k] = g[i + k - 1]
  BY <1>1, <1>2, SubSeqProperties
<1>5. \A k \in 1 .. (e - i + 1) : i + k - 1 \in 1 .. Len(f)
  BY <1>1
<1>6. /\ Len(SubSeq(g, i, e)) = Len(SubSeq(f, i, e))
      /\ \A k \in 1 .. Len(SubSeq(f, i, e)) : SubSeq(g, i, e)[k] = SubSeq(f, i, e)[k]
  BY <1>1, <1>3, <1>4, <1>5
<1> QED
  BY <1>3, <1>4, <1>6, SeqEqual

LEMMA RecordGrown ==
  ASSUME NEW f \in Bytes, NEW part \in Bytes, f # <<>>, part # <<>>, Follows(f, part),
         NEW i \in 1 .. Len(f), ~EndsOpen(RawFrom(f)[i])
  PROVE  Regrown(f, f \o part, i)
<1> DEFINE g == f \o part
<1>0. /\ Len(f) \in Nat \ {0} /\ g \in Bytes /\ Len(g) \in Nat /\ Len(g) > Len(f)
      /\ \A k \in 1 .. Len(f) : g[k] = f[k]
  BY ConcatProperties, EmptySeq DEF Bytes
<1>01. \A j \in 1 .. (Len(f) + 1), q \in BOOLEAN : Grown(f, g, j, Scan(f)[j][q], Scan(g)[j][q])
  BY ScanGrown
<1> HIDE DEF g
<1> DEFINE r == ReadRecord(f, i)
           s == ReadRecord(g, i)
           rest  == RawFrom(f)[r.next]
           restG == RawFrom(g)[s.next]
<1>1. i \in 1 .. Len(g) /\ i \in Positions(f) /\ i \in Positions(g) /\ i \in 1 .. (Len(f) + 1)
  BY <1>0 DEF Positions
<1>2. /\ r \in Reads /\ r.end \in i .. (Len(f) + 1) /\ r.next \in (i + 1) .. (Len(f) + 2)
      /\ r.end <= Len(f) => ~r.open
      /\ r.end > Len(f) => r.next = Len(f) + 1
  BY ReadRecordBounds
<1>3. s \in Reads /\ s.next \in (i + 1) .. (Len(g) + 2)
  BY <1>0, <1>1, ReadRecordBounds
<1>4. Grown(f, g, i, r, s)
  BY <1>1, <1>01 DEF ReadRecord
<1>5. /\ RawFrom(f)[i] = << RecordAt(f, i) >> \o rest
      /\ RawFrom(g)[i] = << RecordAt(g, i) >> \o restG
  <2>1. ~(i > Len(f)) /\ ~(i > Len(g))
    BY <1>0, <1>1
  <2> QED
    BY <1>0, <1>1, <2>1, RawSteps DEF RawStep
<1>6. /\ rest \in Seq(RawRecord) /\ restG \in Seq(RawRecord)
      /\ RecordAt(f, i) \in RawRecord
  <2>1. r.next \in Positions(f) /\ s.next \in Positions(g)
    BY <1>0, <1>2, <1>3 DEF Positions
  <2>2. rest \in Seq(RawRecord) /\ restG \in Seq(RawRecord)
    BY <1>0, <2>1, RawSteps
  <2> QED
    BY <2>2, RecordAtType
<1>7. r.next > Len(f) => rest = <<>>
  <2>1. r.next \in Positions(f)
    BY <1>0, <1>2 DEF Positions
  <2> QED
    BY <2>1, RawSteps DEF RawStep
<1>8. ~r.open
  <2>1. r.next > Len(f) => RawFrom(f)[i] = << RecordAt(f, i) >>
    <3> HIDE DEF rest
    <3>1. << RecordAt(f, i) >> \o <<>> = << RecordAt(f, i) >>
      BY <1>6, SmallSeqs, ConcatEmptySeq
    <3> QED
      BY <1>5, <1>7, <3>1
  <2>2. r.next > Len(f) => ~RecordAt(f, i).open
    <3>1. << RecordAt(f, i) >> # <<>> /\ << RecordAt(f, i) >>[Len(<< RecordAt(f, i) >>)] = RecordAt(f, i)
      OBVIOUS
    <3> QED
      BY <2>1, <3>1 DEF EndsOpen
  <2>3. r.end > Len(f) => ~r.open
    BY <1>0, <1>2, <2>2 DEF RecordAt
  <2> QED
    BY <1>0, <1>2, <2>3
<1>9. RecordAt(g, i) = RecordAt(f, i)
  <2>1. s.end = r.end /\ ~s.open
    BY <1>0, <1>1, <1>2, <1>4, <1>8 DEF Grown
  <2>2. TextAt(g, i) = TextAt(f, i)
    <3> DEFINE e == r.end - 1
    <3>1. e \in (i - 1) .. Len(f) /\ e \in (i - 1) .. Len(g)
      BY <1>0, <1>2
    <3>2. TextAt(f, i) = SubSeq(f, i, e) /\ TextAt(g, i) = SubSeq(g, i, e)
      BY <2>1 DEF TextAt
    <3> HIDE DEF e
    <3> QED
      BY <1>0, <3>1, <3>2, SameSubSeq
  <2>3. r.open \in BOOLEAN /\ s.open \in BOOLEAN
    BY <1>2, <1>3 DEF Reads
  <2> QED
    BY <1>8, <2>1, <2>2, <2>3 DEF RecordAt
<1>10. r.next <= Len(f) => s.next = r.next /\ ~EndsOpen(rest)
  <2> SUFFICES ASSUME r.next <= Len(f) PROVE s.next = r.next /\ ~EndsOpen(rest)
    OBVIOUS
  <2>1. r.next \in (i + 1) .. Len(f) /\ r.end <= Len(f)
    BY <1>0, <1>2
  <2>2. s.next = r.next
    BY <1>4, <2>1 DEF Grown
  <2>3. rest # <<>>
    <3>1. r.next \in Positions(f) /\ r.next \in 1 .. Len(f) /\ ~(r.next > Len(f))
      BY <1>0, <1>1, <2>1 DEF Positions
    <3>2. rest = << RecordAt(f, r.next) >> \o RawFrom(f)[ReadRecord(f, r.next).next]
      BY <3>1, RawSteps DEF RawStep
    <3>3. ReadRecord(f, r.next).next \in Positions(f)
      BY <1>0, <3>1, ReadRecordBounds DEF Positions
    <3>4. RawFrom(f)[ReadRecord(f, r.next).next] \in Seq(RawRecord)
      BY <3>3, RawSteps
    <3>5. RecordAt(f, r.next) \in RawRecord
      BY <3>1, RecordAtType
    <3> HIDE DEF r, rest
    <3> QED
      BY <3>2, <3>4, <3>5
  <2>4. ~EndsOpen(rest)
    <3> HIDE DEF rest, r
    <3>1. Len(rest) \in Nat \ {0}
      BY <1>6, <2>3
    <3>2. /\ Len(RawFrom(f)[i]) = Len(rest) + 1 /\ RawFrom(f)[i] # <<>>
          /\ RawFrom(f)[i][Len(rest) + 1] = rest[Len(rest)]
      BY <1>5, <1>6, <3>1
    <3> QED
      BY <3>2 DEF EndsOpen
  <2> QED
    BY <2>2, <2>4
<1> QED
  BY <1>2, <1>4, <1>5, <1>6, <1>7, <1>8, <1>9, <1>10 DEF Regrown, g

\* A file that ends outside quotes keeps its records when it grows by what may
\* follow it.
LEMMA RawGrown ==
  ASSUME NEW f \in Bytes, NEW part \in Bytes, f # <<>>, part # <<>>, Follows(f, part),
         ~EndsOpen(RawRecords(f))
  PROVE  IsPrefix(RawRecords(f), RawRecords(f \o part))
<1> DEFINE g == f \o part
           Kept(i) == ~EndsOpen(RawFrom(f)[i]) => IsPrefix(RawFrom(f)[i], RawFrom(g)[i])
           P == {i \in 1 .. Len(f) : Kept(i)}
<1>1. Len(f) \in Nat \ {0} /\ g \in Bytes
  BY ConcatProperties, EmptySeq DEF Bytes
<1>2. ASSUME NEW i \in 1 .. Len(f), \A k \in (i + 1) .. Len(f) : k \in P,
             ~EndsOpen(RawFrom(f)[i])
      PROVE  IsPrefix(RawFrom(f)[i], RawFrom(g)[i])
  <2> DEFINE next  == ReadRecord(f, i).next
             nextG == ReadRecord(g, i).next
  <2>1. /\ next \in (i + 1) .. (Len(f) + 2)
        /\ RawFrom(f)[next] \in Seq(RawRecord) /\ RawFrom(g)[nextG] \in Seq(RawRecord)
        /\ RecordAt(f, i) \in RawRecord
        /\ RawFrom(f)[i] = << RecordAt(f, i) >> \o RawFrom(f)[next]
        /\ RawFrom(g)[i] = << RecordAt(f, i) >> \o RawFrom(g)[nextG]
        /\ next > Len(f) => RawFrom(f)[next] = <<>>
        /\ next <= Len(f) => nextG = next /\ ~EndsOpen(RawFrom(f)[next])
    BY <1>2, RecordGrown DEF Regrown
  <2> HIDE DEF g, next, nextG
  <2>2. IsPrefix(RawFrom(f)[next], RawFrom(g)[nextG])
    <3>1. CASE next > Len(f)
      <4>1. /\ Len(RawFrom(f)[next]) = 0 /\ RawFrom(f)[next] \in Seq(RawRecord)
            /\ Len(RawFrom(g)[nextG]) \in Nat /\ RawFrom(g)[nextG] \in Seq(RawRecord)
        BY <2>1, <3>1, EmptySeq
      <4> QED
        BY <4>1, PrefixElements
    <3>2. CASE next <= Len(f)
      <4>1. Kept(next)
        BY <1>1, <1>2, <2>1, <3>2
      <4> QED
        BY <2>1, <3>2, <4>1
    <3> QED
      BY <1>1, <2>1, <3>1, <3>2
  <2> QED
    BY <2>1, <2>2, PrefixAfterOne
<1>3. \A i \in 1 .. Len(f) : i \in P
  <2>1. ASSUME NEW i \in 1 .. Len(f), \A k \in (i + 1) .. Len(f) : k \in P
        PROVE  i \in P
    BY <1>2, <2>1
  <2> HIDE DEF P
  <2> QED
    BY <1>1, <2>1, DownwardInduction
<1>4. Kept(1)
  BY <1>1, <1>3
<1>5. RawRecords(f) = RawFrom(f)[1] /\ RawRecords(g) = RawFrom(g)[1]
  BY <1>1, RawSteps
<1> QED
  BY <1>4, <1>5 DEF g

LEMMA Grouping ==
  ASSUME NEW X, NEW x \in Seq(X), NEW y \in Seq(X), NEW z \in Seq(X)
  PROVE  x \o (y \o z) = (x \o y) \o z
  OBVIOUS

\* When a new line follows, which does not begin with the second half of a line
\* end, all records after those of f are those of the new line on.
LEMMA RawThen ==
  ASSUME NEW f \in Bytes, NEW part \in Bytes, f # <<>>, part # <<>>,
         ~EndsOpen(RawRecords(f)), NEW start,
         f[Len(f)] \in LineEnds => part[1] # LF /\ start = Len(f) + 1,
         f[Len(f)] \notin LineEnds => part[1] = LF /\ start = Len(f) + 2
  PROVE  RawRecords(f \o part) = RawRecords(f) \o RawFrom(f \o part)[start]
<1> DEFINE g == f \o part
           then == RawFrom(g)[start]
           Splits(i) == ~EndsOpen(RawFrom(f)[i]) => RawFrom(g)[i] = RawFrom(f)[i] \o then
           P == {i \in 1 .. Len(f) : Splits(i)}
<1>1. /\ Len(f) \in Nat \ {0} /\ Len(part) \in Nat \ {0} /\ g \in Bytes
      /\ Len(g) = Len(f) + Len(part) /\ g[Len(f) + 1] = part[1]
  BY ConcatProperties, EmptySeq DEF Bytes
<1>2. Follows(f, part)
  BY DEF Follows, LineEnds
<1>3. then \in Seq(RawRecord)
  <2>1. start \in Positions(g)
    BY <1>1 DEF Positions
  <2> QED
    BY <1>1, <2>1, RawSteps
<1>4. ASSUME NEW i \in 1 .. Len(f), \A k \in (i + 1) .. Len(f) : k \in P,
             ~EndsOpen(RawFrom(f)[i])
      PROVE  RawFrom(g)[i] = RawFrom(f)[i] \o then
  <2> DEFINE r == ReadRecord(f, i)
             s == ReadRecord(g, i)
  <2>1. /\ r \in Reads /\ r.end \in i .. (Len(f) + 1) /\ r.next \in (i + 1) .. (Len(f) + 2)
        /\ ~r.open /\ (r.end > Len(f) => r.next = Len(f) + 1)
        /\ RawFrom(f)[r.next] \in Seq(RawRecord)
        /\ RecordAt(f, i) \in RawRecord
        /\ RawFrom(f)[i] = << RecordAt(f, i) >> \o RawFrom(f)[r.next]
        /\ RawFrom(g)[i] = << RecordAt(f, i) >> \o RawFrom(g)[s.next]
        /\ r.next > Len(f) => RawFrom(f)[r.next] = <<>>
        /\ r.next <= Len(f) => s.next = r.next /\ ~EndsOpen(RawFrom(f)[r.next])
        /\ Grown(f, g, i, r, s)
    BY <1>2, <1>4, RecordGrown DEF Regrown
  <2> HIDE DEF g, r, s, then
  <2>2. RawFrom(g)[s.next] = RawFrom(f)[r.next] \o then
    <3>1. CASE r.next <= Len(f)
      <4>1. r.next \in (i + 1) .. Len(f)
        BY <1>1, <2>1, <3>1
      <4>2. r.next \in P
        BY <1>4, <4>1
      <4>3. s.next = r.next /\ ~EndsOpen(RawFrom(f)[r.next])
        BY <2>1, <3>1
      <4> QED
        BY <4>2, <4>3 DEF then
    <3>2. CASE r.next > Len(f)
      <4>1. s.next = start
        <5>1. CASE r.end <= Len(f)
          <6>1. f[r.end] \in LineEnds /\ r.next = AfterLineEnd(f, r.end) /\ r.end \in Nat
            <7>1. r.end \in i .. (Len(f) + 1) /\ i \in 1 .. Len(f)
              BY ReadRecordBounds DEF r
            <7>2. f[r.end] \in LineEnds /\ r.next = AfterLineEnd(f, r.end)
              BY <5>1, ReadRecordBounds DEF r
            <7> QED
              BY <7>1, <7>2
          <6>2. r.next = Len(f) + 1 /\ f[Len(f)] \in LineEnds
            <7>1. r.next = r.end + 1 \/ (r.next = r.end + 2 /\ r.end < Len(f) /\ f[r.end + 1] = LF)
              BY <6>1 DEF AfterLineEnd
            <7>2. \/ r.end = Len(f) /\ r.next = Len(f) + 1
                  \/ r.end + 1 = Len(f) /\ r.next = Len(f) + 1 /\ f[r.end + 1] = LF
              <8>1. Len(f) \in Nat /\ r.next > Len(f) /\ r.end <= Len(f) /\ r.end \in Nat
                BY <1>1, <3>2, <5>1, <6>1
              <8> QED
                BY <7>1, <8>1
            <7> QED
              BY <6>1, <7>2 DEF LineEnds
          <6> QED
            BY <1>1, <2>1, <5>1, <6>2 DEF Grown
        <5>2. CASE r.end > Len(f)
          <6>1. f[Len(f)] \notin LineEnds
            BY <1>1, <2>1, <5>2, SMTT(30) DEF Grown
          <6> QED
            BY <1>1, <2>1, <5>2, <6>1 DEF Grown
        <5> QED
          BY <1>1, <2>1, <5>1, <5>2
      <4>2. RawFrom(f)[r.next] \o then = then
        BY <1>3, <2>1, <3>2, ConcatEmptySeq
      <4> QED
        BY <4>1, <4>2 DEF then
    <3> QED
      BY <1>1, <2>1, <3>1, <3>2
  <2>3. << RecordAt(f, i) >> \o (RawFrom(f)[r.next] \o then)
          = (<< RecordAt(f, i) >> \o RawFrom(f)[r.next]) \o then
    <3>1. << RecordAt(f, i) >> \in Seq(RawRecord)
      BY <2>1, SmallSeqs
    <3> DEFINE x == << RecordAt(f, i) >>
               y == RawFrom(f)[r.next]
    <3>2. x \in Seq(RawRecord) /\ y \in Seq(RawRecord)
      BY <2>1, <3>1
    <3> HIDE DEF x, y
    <3>3. x \o (y \o then) = (x \o y) \o then
      BY <1>3, <3>2, Grouping, SMTT(30)
    <3> QED
      BY <3>3 DEF x, y
  <2> QED
    BY <2>1, <2>2, <2>3
<1>5. \A i \in 1 .. Len(f) : i \in P
  <2>1. ASSUME NEW i \in 1 .. Len(f), \A k \in (i + 1) .. Len(f) : k \in P
        PROVE  i \in P
    BY <1>4, <2>1
  <2> HIDE DEF P
  <2> QED
    BY <1>1, <2>1, DownwardInduction
<1>6. Splits(1)
  <2>1. 1 \in 1 .. Len(f)
    BY <1>1
  <2>2. 1 \in P
    BY <1>5, <2>1
  <2> QED
    BY <2>2
<1>7. RawRecords(f) = RawFrom(f)[1] /\ RawRecords(g) = RawFrom(g)[1]
  BY <1>1, RawSteps
<1> QED
  BY <1>6, <1>7 DEF g

\* What the records of a file are to Storage.
RecordOf(raw) == StrRow(IF raw.open THEN <<>> ELSE Fields(raw.text))

LEMMA TableOf ==
  ASSUME NEW f \in Bytes
  PROVE  /\ Table(f) \in Seq({RecordOf(raw) : raw \in RawRecord})
         /\ Len(Table(f)) = Len(RawRecords(f))
         /\ \A k \in 1 .. Len(RawRecords(f)) : Table(f)[k] = RecordOf(RawRecords(f)[k])
<1> DEFINE raw == RawRecords(f)
           R == {RecordOf(x) : x \in RawRecord}
<1>1. raw \in Seq(RawRecord) /\ f # NoFile
  <2>1. 1 \in Positions(f)
    BY DEF Positions, Bytes
  <2> QED
    BY <2>1, RawSteps, FilesAssumption
<1> HIDE DEF raw
<1>2. /\ Len(raw) \in Nat /\ DOMAIN raw = 1 .. Len(raw)
      /\ \A k \in 1 .. Len(raw) : raw[k] \in RawRecord
  BY <1>1
<1>3. Rows(f) = [k \in 1 .. Len(raw) |-> IF raw[k].open THEN <<>> ELSE Fields(raw[k].text)]
  BY <1>2 DEF Rows, raw
<1>4. Table(f) = [k \in 1 .. Len(raw) |-> RecordOf(raw[k])]
  <2>1. Table(f) = [k \in DOMAIN Rows(f) |-> StrRow(Rows(f)[k])]
    BY <1>1 DEF Table
  <2>2. DOMAIN Rows(f) = 1 .. Len(raw)
    BY <1>3
  <2>3. \A k \in 1 .. Len(raw) : StrRow(Rows(f)[k]) = RecordOf(raw[k])
    BY <1>3 DEF RecordOf
  <2> QED
    BY <2>1, <2>2, <2>3
<1>5. Table(f) \in [1 .. Len(raw) -> R]
  BY <1>2, <1>4
<1>6. Table(f) \in Seq(R) /\ Len(Table(f)) = Len(raw)
  BY <1>2, <1>5, FunctionIsSeq
<1> QED
  BY <1>4, <1>6 DEF raw

\* A file that ends outside quotes keeps its records when a row, or the start
\* of one, is written behind it.
LEMMA RecordsKept ==
  ASSUME NEW f \in Bytes, NEW part \in Bytes, ~EndsInQuotes(f),
         f = <<>> \/ part = <<>> \/ Follows(f, part)
  PROVE  IsPrefix(Table(f), Table(f \o part))
<1> DEFINE g == f \o part
           R == {RecordOf(x) : x \in RawRecord}
<1>1. g \in Bytes /\ f # NoFile /\ 1 \in Positions(f) /\ 1 \in Positions(g)
  BY ConcatProperties, FilesAssumption DEF Bytes, Positions
<1>2. RawRecords(f) \in Seq(RawRecord) /\ RawRecords(g) \in Seq(RawRecord)
  BY <1>1, RawSteps
<1>3. IsPrefix(RawRecords(f), RawRecords(g))
  <2>1. CASE f = <<>>
    <3>1. RawRecords(f) = <<>>
      <4>1. 1 > Len(f)
        BY <2>1
      <4>2. RawFrom(f)[1] = RawStep(f, RawFrom(f), 1)
        BY <1>1, RawSteps
      <4> QED
        BY <4>1, <4>2, RawSteps DEF RawStep
    <3>2. Len(RawRecords(f)) = 0 /\ Len(RawRecords(g)) \in Nat
      BY <1>2, <3>1
    <3>3. /\ Len(RawRecords(f)) <= Len(RawRecords(g))
          /\ \A k \in 1 .. Len(RawRecords(f)) : RawRecords(f)[k] = RawRecords(g)[k]
      BY <3>2
    <3> QED
      BY <1>2, <3>3, PrefixElements
  <2>2. CASE part = <<>>
    <3>1. g = f
      BY <2>2, ConcatEmptySeq DEF Bytes
    <3> QED
      BY <1>2, <3>1, PrefixElements
  <2>3. CASE f # <<>> /\ part # <<>>
    <3>1. ~EndsOpen(RawRecords(f))
      BY <1>1, <2>3 DEF EndsInQuotes, EndsOpen
    <3> QED
      BY <2>3, <3>1, RawGrown
  <2> QED
    BY <2>1, <2>2, <2>3
<1> HIDE DEF g
<1>4. /\ Len(RawRecords(f)) <= Len(RawRecords(g))
      /\ \A k \in 1 .. Len(RawRecords(f)) : RawRecords(f)[k] = RawRecords(g)[k]
  BY <1>2, <1>3, PrefixElements
<1>5. /\ Table(f) \in Seq(R) /\ Table(g) \in Seq(R)
      /\ Len(Table(f)) = Len(RawRecords(f)) /\ Len(Table(g)) = Len(RawRecords(g))
  BY <1>1, TableOf
<1>6. \A k \in 1 .. Len(Table(f)) : Table(f)[k] = Table(g)[k]
  <2>1. \A k \in 1 .. Len(RawRecords(f)) : k \in 1 .. Len(RawRecords(g))
    BY <1>2, <1>4
  <2> QED
    BY <1>1, <1>4, <1>5, <2>1, TableOf
<1> HIDE DEF R
<1>7. IsPrefix(Table(f), Table(g))
  BY <1>4, <1>5, <1>6, PrefixElements
<1> QED
  BY <1>7 DEF g

----------------------------------------------------------------------------
(***************************************************************************)
(* parse_csv_record: the fields of a record are texts.                     *)
(***************************************************************************)
FieldRead == [text : Bytes, next : Nat, ok : BOOLEAN]

BodyStep(rec, later, j) ==
  IF j > Len(rec) THEN [text |-> <<>>, next |-> j, ok |-> FALSE]
  ELSE IF rec[j] # Quote THEN [later[j + 1] EXCEPT !.text = <<rec[j]>> \o @]
  ELSE IF EscapedQuote(rec, j) THEN [later[j + 2] EXCEPT !.text = <<Quote>> \o @]
  ELSE [text |-> <<>>, next |-> j + 1, ok |-> j = Len(rec) \/ rec[j + 1] = Comma]

\* Fields that end at or after position j.
FieldsFrom(j) == {field \in FieldRead : field.next >= j}

LEMMA LongerField ==
  ASSUME NEW field \in FieldRead, NEW ch \in Char
  PROVE  /\ [field EXCEPT !.text = <<ch>> \o @] \in FieldRead
         /\ [field EXCEPT !.text = <<ch>> \o @].next = field.next
<1>1. <<ch>> \o field.text \in Bytes
  BY ConcatProperties DEF FieldRead, Bytes
<1> QED
  BY <1>1 DEF FieldRead

LEMMA BodyStepType ==
  ASSUME NEW rec \in Bytes, NEW j \in Positions(rec), NEW later, NEW m \in Nat, m <= j,
         \A k \in Positions(rec) : k > j => later[k] \in FieldsFrom(m)
  PROVE  BodyStep(rec, later, j) \in FieldsFrom(m)
<1>1. Len(rec) \in Nat /\ j \in Nat /\ \A i \in 1 .. Len(rec) : rec[i] \in Char
  BY DEF Positions, Bytes
<1>2. Quote \in Char /\ <<>> \in Bytes
  BY SymbolsAssumption DEF Bytes
<1>3. CASE j > Len(rec)
  BY <1>1, <1>2, <1>3 DEF BodyStep, FieldsFrom, FieldRead
<1>4. CASE j <= Len(rec)
  <2>1. ~(j > Len(rec)) /\ j \in 1 .. Len(rec)
    BY <1>1, <1>4 DEF Positions
  <2>2. later[j + 1] \in FieldsFrom(m) /\ later[j + 2] \in FieldsFrom(m)
    BY <1>1, <1>4 DEF Positions
  <2>3. /\ later[j + 1] \in FieldRead /\ later[j + 1].next >= m
        /\ later[j + 2] \in FieldRead /\ later[j + 2].next >= m
    BY <2>2 DEF FieldsFrom
  <2>4. CASE rec[j] # Quote
    <3>1. BodyStep(rec, later, j) = [later[j + 1] EXCEPT !.text = <<rec[j]>> \o @]
      BY <2>1, <2>4 DEF BodyStep
    <3>2. rec[j] \in Char
      BY <1>1, <2>1
    <3>3. /\ BodyStep(rec, later, j) \in FieldRead
          /\ BodyStep(rec, later, j).next = later[j + 1].next
      BY <2>3, <3>1, <3>2, LongerField
    <3> QED
      BY <2>3, <3>3 DEF FieldsFrom
  <2>5. CASE rec[j] = Quote /\ EscapedQuote(rec, j)
    <3>1. BodyStep(rec, later, j) = [later[j + 2] EXCEPT !.text = <<Quote>> \o @]
      BY <2>1, <2>5 DEF BodyStep
    <3> QED
      <4>1. /\ BodyStep(rec, later, j) \in FieldRead
            /\ BodyStep(rec, later, j).next = later[j + 2].next
        BY <1>2, <2>3, <3>1, LongerField
      <4> QED
        BY <2>3, <4>1 DEF FieldsFrom
  <2>6. CASE rec[j] = Quote /\ ~EscapedQuote(rec, j)
    <3>1. BodyStep(rec, later, j) =
            [text |-> <<>>, next |-> j + 1, ok |-> j = Len(rec) \/ rec[j + 1] = Comma]
      BY <2>1, <2>6 DEF BodyStep
    <3> QED
      BY <1>1, <1>2, <3>1 DEF FieldsFrom, FieldRead
  <2> QED
    BY <2>4, <2>5, <2>6
<1> QED
  BY <1>1, <1>3, <1>4

\* The recursion of QuotedBody is well defined.
LEMMA BodySteps ==
  ASSUME NEW rec \in Bytes
  PROVE  \A j \in Positions(rec) :
           /\ QuotedBody(rec)[j] = BodyStep(rec, QuotedBody(rec), j)
           /\ QuotedBody(rec)[j] \in FieldsFrom(j)
<1> DEFINE n == Len(rec) + 2
           Whole(body) == [j \in Positions(rec) |-> BodyStep(rec, body, j)]
           B == [j \in 1 .. n |-> [h \in [(j + 1) .. n -> FieldRead] |-> BodyStep(rec, h, j)]]
<1>1. n \in Nat /\ Positions(rec) = 1 .. n /\ Len(rec) \in Nat
  BY DEF Positions, Bytes
<1> HIDE DEF n
<1>2. FieldsFrom(0) = FieldRead
  <2>1. \A field \in FieldRead : field.next >= 0
    BY DEF FieldRead
  <2> QED
    BY <2>1 DEF FieldsFrom
<1>3. ASSUME NEW j \in 1 .. n, NEW h \in [(j + 1) .. n -> FieldRead]
      PROVE  B[j][h] = BodyStep(rec, h, j) /\ B[j][h] \in FieldRead
  <2>1. B[j][h] = BodyStep(rec, h, j)
    OBVIOUS
  <2>2. \A k \in Positions(rec) : k > j => h[k] \in FieldsFrom(0)
    BY <1>1, <1>2
  <2>3. 0 \in Nat /\ 0 <= j
    OBVIOUS
  <2>4. BodyStep(rec, h, j) \in FieldsFrom(0)
    BY <1>1, <2>2, <2>3, BodyStepType
  <2> QED
    BY <1>2, <2>1, <2>4
<1> HIDE DEF B
<1>4. PICK h \in [1 .. n -> FieldRead] : \A j \in 1 .. n : h[j] = B[j][Following(h, j, n)]
  <2>1. Downward(B, n, FieldRead)
    BY <1>3 DEF Downward
  <2> QED
    BY <1>1, <2>1, DownwardRecursion
<1>5. ASSUME NEW j \in 1 .. n
      PROVE  h[j] = BodyStep(rec, h, j)
  <2>1. Following(h, j, n) \in [(j + 1) .. n -> FieldRead]
    BY DEF Following
  <2>2. h[j] = BodyStep(rec, Following(h, j, n), j)
    BY <1>3, <1>4, <2>1
  <2>3. j <= Len(rec) => Following(h, j, n)[j + 1] = h[j + 1] /\ Following(h, j, n)[j + 2] = h[j + 2]
    BY <1>1 DEF Following, n
  <2>4. CASE j > Len(rec)
    BY <2>2, <2>4 DEF BodyStep
  <2>5. CASE j <= Len(rec)
    <3>1. Following(h, j, n)[j + 1] = h[j + 1] /\ Following(h, j, n)[j + 2] = h[j + 2]
      BY <2>3, <2>5
    <3> QED
      BY <2>2, <3>1 DEF BodyStep
  <2> QED
    BY <1>1, <2>4, <2>5
<1>6. h = Whole(h)
  BY <1>1, <1>5
<1>7. QuotedBody(rec) = Whole(QuotedBody(rec))
  <2>1. QuotedBody(rec) = CHOOSE body : body = Whole(body)
    BY DEF QuotedBody, BodyStep, Positions
  <2> HIDE DEF Whole
  <2> QED
    BY <1>6, <2>1
<1>8. \A j \in Positions(rec) : QuotedBody(rec)[j] = BodyStep(rec, QuotedBody(rec), j)
  BY <1>7
<1>9. \A j \in 1 .. n : QuotedBody(rec)[j] \in FieldsFrom(j)
  <2> DEFINE P == {j \in 1 .. n : QuotedBody(rec)[j] \in FieldsFrom(j)}
  <2>1. ASSUME NEW j \in 1 .. n, \A k \in (j + 1) .. n : k \in P
        PROVE  j \in P
    <3>1. \A k \in Positions(rec) : k > j => QuotedBody(rec)[k] \in FieldsFrom(j)
      BY <1>1, <2>1 DEF FieldsFrom, FieldRead
    <3>2. j \in Nat /\ j <= j
      OBVIOUS
    <3>3. BodyStep(rec, QuotedBody(rec), j) \in FieldsFrom(j)
      BY <1>1, <3>1, <3>2, BodyStepType
    <3> QED
      BY <1>1, <1>8, <3>3
  <2>2. \A j \in 1 .. n : j \in P
    <3> HIDE DEF P
    <3> QED
      BY <1>1, <2>1, DownwardInduction
  <2> QED
    BY <2>2
<1> QED
  BY <1>1, <1>8, <1>9

LEMMA LeastMember ==
  ASSUME NEW T, T \subseteq Nat, T # {}
  PROVE  Min(T) \in T /\ \A y \in T : Min(T) <= y
<1>1. IsWellFoundedOn(OpToRel(<, Nat), Nat)
  BY NatLessThanWellFounded
<1>2. \A x, y \in Nat : y < x => <<y, x>> \in OpToRel(<, Nat)
  BY DEF OpToRel
<1>3. \E x \in T : \A y \in T : x <= y
  BY <1>1, <1>2, LeastElement
<1> QED
  BY <1>3 DEF Min

LEMMA FieldAtType ==
  ASSUME NEW rec \in Bytes, NEW p \in 1 .. (Len(rec) + 1)
  PROVE  FieldAt(rec, p) \in FieldsFrom(p)
<1>1. Len(rec) \in Nat
  BY DEF Bytes
<1>2. CASE p <= Len(rec) /\ rec[p] = Quote
  <2>1. p + 1 \in Positions(rec)
    BY <1>1, <1>2 DEF Positions
  <2>2. QuotedBody(rec)[p + 1] \in FieldsFrom(p + 1)
    BY <2>1, BodySteps
  <2>3. QuotedBody(rec)[p + 1] \in FieldsFrom(p)
    BY <2>2 DEF FieldsFrom, FieldRead
  <2> QED
    BY <1>2, <2>3 DEF FieldAt
<1>3. CASE ~(p <= Len(rec) /\ rec[p] = Quote)
  <2> DEFINE ends == {j \in p .. Len(rec) : rec[j] = Comma}
             e    == IF ends = {} THEN Len(rec) + 1 ELSE Min(ends)
  <2>1. e \in p .. (Len(rec) + 1)
    <3>1. ends \subseteq p .. Len(rec) /\ ends \subseteq Nat
      OBVIOUS
    <3> HIDE DEF ends
    <3>2. ends # {} => Min(ends) \in p .. Len(rec)
      BY <3>1, LeastMember
    <3> QED
      BY <1>1, <3>2
  <2>2. PlainField(rec, p) = [text |-> SubSeq(rec, p, e - 1), next |-> e, ok |-> TRUE]
    BY DEF PlainField
  <2> HIDE DEF e
  <2>3. SubSeq(rec, p, e - 1) \in Bytes
    <3>1. \A i \in p .. (e - 1) : rec[i] \in Char
      BY <1>1, <2>1 DEF Bytes
    <3>2. p \in Int /\ e - 1 \in Int
      BY <1>1, <2>1
    <3> QED
      BY <3>1, <3>2, SubSeqProperties DEF Bytes
  <2>4. PlainField(rec, p) \in FieldsFrom(p)
    BY <1>1, <2>1, <2>2, <2>3 DEF FieldsFrom, FieldRead
  <2> QED
    BY <1>3, <2>4 DEF FieldAt
<1> QED
  BY <1>2, <1>3

FieldsStep(rec, later, p) ==
  LET field == FieldAt(rec, p)
      text  == IF p = 1 THEN StripBom(field.text) ELSE field.text
  IN  IF ~field.ok THEN <<>>
      ELSE IF field.next > Len(rec) THEN <<text>>
      ELSE IF field.next = Len(rec) THEN <<text, <<>>>>
      ELSE LET rest == later[field.next + 1]
           IN  IF rest = <<>> THEN <<>> ELSE <<text>> \o rest

LEMMA FieldsStepType ==
  ASSUME NEW rec \in Bytes, NEW p \in 1 .. (Len(rec) + 1), NEW later,
         \A k \in (p + 1) .. (Len(rec) + 1) : later[k] \in Seq(Bytes)
  PROVE  FieldsStep(rec, later, p) \in Seq(Bytes)
<1> DEFINE field == FieldAt(rec, p)
           text  == IF p = 1 THEN StripBom(field.text) ELSE field.text
           rest  == later[field.next + 1]
<1>1. field.text \in Bytes /\ field.next \in Nat /\ field.next >= p /\ Len(rec) \in Nat /\ <<>> \in Bytes
  BY FieldAtType DEF FieldsFrom, FieldRead, Bytes
<1>2. text \in Bytes
  <2>1. field.text # <<>> => Tail(field.text) \in Bytes
    BY <1>1, HeadTailProperties DEF Bytes
  <2> HIDE DEF field
  <2> QED
    BY <1>1, <2>1 DEF StripBom
<1>3. field.next < Len(rec) => rest \in Seq(Bytes)
  BY <1>1
<1>4. FieldsStep(rec, later, p) =
        IF ~field.ok THEN <<>>
        ELSE IF field.next > Len(rec) THEN <<text>>
        ELSE IF field.next = Len(rec) THEN <<text, <<>>>>
        ELSE IF rest = <<>> THEN <<>> ELSE <<text>> \o rest
  BY DEF FieldsStep
<1> HIDE DEF field, text, rest
<1>5. /\ <<>> \in Seq(Bytes) /\ <<text>> \in Seq(Bytes) /\ <<text, <<>>>> \in Seq(Bytes)
      /\ field.next < Len(rec) => <<text>> \o rest \in Seq(Bytes)
  <2>1. <<text>> \in Seq(Bytes) /\ <<text, <<>>>> \in Seq(Bytes)
    BY <1>1, <1>2, SmallSeqs
  <2> QED
    BY <1>3, <2>1, ConcatProperties
<1> QED
  BY <1>1, <1>4, <1>5

\* The fields of a record.
\* The fields from each position on.
FieldsOf(rec) == CHOOSE from : from = [p \in 1 .. (Len(rec) + 1) |-> FieldsStep(rec, from, p)]

LEMMA FieldsSteps ==
  ASSUME NEW rec \in Bytes
  PROVE  /\ Fields(rec) = FieldsOf(rec)[1]
         /\ \A p \in 1 .. (Len(rec) + 1) :
              /\ FieldsOf(rec)[p] = FieldsStep(rec, FieldsOf(rec), p)
              /\ FieldsOf(rec)[p] \in Seq(Bytes)
<1> DEFINE n == Len(rec) + 1
           Whole(from) == [p \in 1 .. (Len(rec) + 1) |-> FieldsStep(rec, from, p)]
           from0 == FieldsOf(rec)
           B == [p \in 1 .. n |-> [h \in [(p + 1) .. n -> Seq(Bytes)] |-> FieldsStep(rec, h, p)]]
<1>1. n \in Nat /\ Len(rec) \in Nat
  BY DEF Bytes
<1> HIDE DEF n
<1>2. ASSUME NEW p \in 1 .. n, NEW h \in [(p + 1) .. n -> Seq(Bytes)]
      PROVE  B[p][h] = FieldsStep(rec, h, p) /\ B[p][h] \in Seq(Bytes)
  <2>1. B[p][h] = FieldsStep(rec, h, p)
    OBVIOUS
  <2>2. p \in 1 .. (Len(rec) + 1) /\ \A k \in (p + 1) .. (Len(rec) + 1) : h[k] \in Seq(Bytes)
    BY DEF n
  <2>3. FieldsStep(rec, h, p) \in Seq(Bytes)
    BY <2>2, FieldsStepType
  <2> QED
    BY <2>1, <2>3
<1> HIDE DEF B
<1>3. PICK h \in [1 .. n -> Seq(Bytes)] : \A p \in 1 .. n : h[p] = B[p][Following(h, p, n)]
  <2>1. Downward(B, n, Seq(Bytes))
    BY <1>2 DEF Downward
  <2> QED
    BY <1>1, <2>1, DownwardRecursion
<1>4. ASSUME NEW p \in 1 .. n
      PROVE  h[p] = FieldsStep(rec, h, p)
  <2>1. Following(h, p, n) \in [(p + 1) .. n -> Seq(Bytes)]
    BY DEF Following
  <2>2. h[p] = FieldsStep(rec, Following(h, p, n), p)
    BY <1>2, <1>3, <2>1
  <2>3. FieldAt(rec, p).next \in Nat /\ FieldAt(rec, p).next >= p
    BY FieldAtType DEF FieldsFrom, FieldRead, n
  <2>4. CASE FieldAt(rec, p).next >= Len(rec)
    BY <1>1, <2>2, <2>3, <2>4 DEF FieldsStep
  <2>5. CASE FieldAt(rec, p).next < Len(rec)
    <3>1. Following(h, p, n)[FieldAt(rec, p).next + 1] = h[FieldAt(rec, p).next + 1]
      BY <1>1, <2>3, <2>5 DEF Following, n
    <3> QED
      BY <2>2, <3>1 DEF FieldsStep
  <2> QED
    BY <1>1, <2>3, <2>4, <2>5
<1>5. h = Whole(h)
  BY <1>4 DEF n
<1>6. Fields(rec) = from0[1]
  BY DEF Fields, FieldsStep, FieldsOf
<1>7. from0 = Whole(from0)
  <2>1. from0 = CHOOSE from : from = Whole(from)
    BY DEF FieldsOf
  <2> HIDE DEF Whole, from0
  <2> QED
    BY <1>5, <2>1
<1> HIDE DEF from0
<1>8. \A p \in 1 .. n : from0[p] = FieldsStep(rec, from0, p)
  BY <1>7 DEF n
<1>9. \A p \in 1 .. n : from0[p] \in Seq(Bytes)
  <2> DEFINE P == {p \in 1 .. n : from0[p] \in Seq(Bytes)}
  <2>1. ASSUME NEW p \in 1 .. n, \A k \in (p + 1) .. n : k \in P
        PROVE  p \in P
    <3>1. p \in 1 .. (Len(rec) + 1) /\ \A k \in (p + 1) .. (Len(rec) + 1) : from0[k] \in Seq(Bytes)
      BY <2>1 DEF n
    <3>2. FieldsStep(rec, from0, p) \in Seq(Bytes)
      BY <3>1, FieldsStepType
    <3> QED
      BY <1>8, <3>2
  <2>2. \A p \in 1 .. n : p \in P
    <3> HIDE DEF P
    <3> QED
      BY <1>1, <2>1, DownwardInduction
  <2> QED
    BY <2>2
<1> QED
  BY <1>6, <1>8, <1>9 DEF n, from0

LEMMA FieldsType ==
  ASSUME NEW rec \in Bytes
  PROVE  Fields(rec) \in Seq(Bytes)
<1>1. 1 \in 1 .. (Len(rec) + 1)
  BY DEF Bytes
<1> QED
  BY <1>1, FieldsSteps

----------------------------------------------------------------------------
(***************************************************************************)
(* What is written is text.                                                *)
(***************************************************************************)
DigitChar == {Digit[d] : d \in 0 .. 9}
Numeral   == {w \in Seq(DigitChar) : w # <<>>}

LEMMA NumeralIsText ==
  ASSUME NEW w \in Numeral
  PROVE  w \in Bytes
<1>1. DigitChar \subseteq Char
  BY SymbolsAssumption DEF DigitChar
<1> QED
  BY <1>1 DEF Numeral, Bytes

\* write_signed_integer divides the magnitude by ten until nothing is left.
LEMMA DigitsType ==
  ASSUME NEW n \in Nat
  PROVE  Digits(n) \in Numeral
<1> DEFINE Value(h, m) == (IF m < 10 THEN <<>> ELSE h[m \div 10]) \o <<Digit[m % 10]>>
           Whole(h, k) == [m \in 0 .. k |-> Value(h, m)]
           S == {k \in Nat : \E h \in [0 .. k -> Numeral] : h = Whole(h, k)}
           upTo == CHOOSE h : h = Whole(h, n)
<1>1. \A m \in Nat : Digit[m % 10] \in DigitChar
  <2>1. \A m \in Nat : m % 10 \in 0 .. 9
    OBVIOUS
  <2> QED
    BY <2>1 DEF DigitChar
<1>2. ASSUME NEW m \in Nat, NEW h, m >= 10 => h[m \div 10] \in Numeral
      PROVE  Value(h, m) \in Numeral
  <2> DEFINE higher == IF m < 10 THEN <<>> ELSE h[m \div 10]
             lowest == <<Digit[m % 10]>>
  <2>1. lowest \in Seq(DigitChar) /\ Len(lowest) = 1
    BY <1>1
  <2>2. higher \in Seq(DigitChar)
    BY <1>2 DEF Numeral
  <2> HIDE DEF higher, lowest
  <2>3. higher \o lowest \in Seq(DigitChar) /\ Len(higher \o lowest) # 0
    BY <2>1, <2>2, ConcatProperties
  <2>4. higher \o lowest \in Numeral
    BY <2>3 DEF Numeral
  <2> QED
    BY <2>4 DEF higher, lowest
<1>3. \A m \in Nat : m >= 10 => m \div 10 \in 0 .. (m - 1)
  OBVIOUS
<1>4. 0 \in S
  <2> DEFINE h == [m \in 0 .. 0 |-> Value(<<>>, 0)]
  <2>1. Value(<<>>, 0) \in Numeral
    <3>1. 0 \in Nat /\ ~(0 >= 10)
      OBVIOUS
    <3> HIDE DEF Value
    <3> QED
      BY <1>2, <3>1
  <2>2. Value(h, 0) = Value(<<>>, 0)
    OBVIOUS
  <2>3. h \in [0 .. 0 -> Numeral] /\ h = Whole(h, 0)
    <3> HIDE DEF Value
    <3> QED
      BY <2>1, <2>2
  <2> HIDE DEF h, Whole
  <2> QED
    BY <2>3
<1>5. ASSUME NEW k \in Nat, k \in S
      PROVE  k + 1 \in S
  <2>1. PICK g \in [0 .. k -> Numeral] : g = Whole(g, k)
    BY <1>5
  <2> DEFINE h == [m \in 0 .. (k + 1) |-> IF m = k + 1 THEN Value(g, k + 1) ELSE g[m]]
  <2>2. Value(g, k + 1) \in Numeral
    <3>1. k + 1 \in Nat /\ (k + 1 >= 10 => g[(k + 1) \div 10] \in Numeral)
      BY <1>3
    <3> QED
      BY <1>2, <3>1
  <2>3. \A m \in 0 .. k : g[m] = Value(g, m)
    BY <2>1
  <2> HIDE DEF Value
  <2>4. h \in [0 .. (k + 1) -> Numeral] /\ h[k + 1] = Value(g, k + 1) /\ \A m \in 0 .. k : h[m] = g[m]
    BY <2>2
  <2> HIDE DEF h
  <2>5. ASSUME NEW m \in 0 .. (k + 1)
        PROVE  h[m] = Value(h, m)
    <3>1. m >= 10 => h[m \div 10] = g[m \div 10]
      BY <1>3, <2>4
    <3>2. Value(h, m) = Value(g, m)
      <4>1. CASE m < 10
        BY <4>1 DEF Value
      <4>2. CASE m >= 10
        <5>1. h[m \div 10] = g[m \div 10]
          BY <3>1, <4>2
        <5> QED
          BY <5>1 DEF Value
      <4> QED
        BY <4>1, <4>2
    <3> QED
      BY <2>3, <2>4, <3>2
  <2>6. h = Whole(h, k + 1)
    BY <2>4, <2>5
  <2> HIDE DEF Whole
  <2> QED
    BY <2>4, <2>6
<1>6. PICK h \in [0 .. n -> Numeral] : h = Whole(h, n)
  <2> HIDE DEF S
  <2>1. n \in S
    BY <1>4, <1>5, NatSetInduction
  <2> QED
    BY <2>1 DEF S
<1>7. Digits(n) = upTo[n]
  BY DEF Digits
<1>8. upTo = Whole(upTo, n)
  <2> HIDE DEF Whole
  <2> QED
    BY <1>6
<1> HIDE DEF upTo
<1>9. \A m \in 0 .. n : upTo[m] = Value(upTo, m)
  BY <1>8
<1> DEFINE T == {k \in Nat : \A m \in 0 .. k : m <= n => upTo[m] \in Numeral}
<1>10. 0 \in T
  <2>1. 0 \in Nat /\ ~(0 >= 10)
    OBVIOUS
  <2> HIDE DEF Value
  <2>2. Value(upTo, 0) \in Numeral
    BY <1>2, <2>1
  <2>3. upTo[0] \in Numeral
    BY <1>9, <2>2
  <2> QED
    BY <2>3
<1>11. ASSUME NEW k \in Nat, k \in T
       PROVE  k + 1 \in T
  <2>1. ASSUME k + 1 <= n PROVE upTo[k + 1] \in Numeral
    <3>1. k + 1 \in Nat /\ (k + 1 >= 10 => upTo[(k + 1) \div 10] \in Numeral)
      BY <1>3, <1>11, <2>1
    <3>2. Value(upTo, k + 1) \in Numeral
      <4> HIDE DEF Value
      <4> QED
        BY <1>2, <3>1
    <3> HIDE DEF Value
    <3> QED
      BY <1>9, <2>1, <3>2
  <2> QED
    BY <1>11, <2>1
<1>12. n \in T
  <2> HIDE DEF T
  <2> QED
    BY <1>10, <1>11, NatSetInduction
<1> QED
  BY <1>7, <1>12

LEMMA WriteValueType ==
  ASSUME NEW v \in ByteValue
  PROVE  WriteValue(v, LongMax) \in Bytes
<1>1. CASE v.type = "STRING"
  <2> DEFINE Quoted(ch) == IF ch = Quote THEN <<Quote, Quote>> ELSE <<ch>>
             quoted == [i \in DOMAIN v.text |-> Quoted(v.text[i])]
  <2>1. v.text \in Bytes
    BY <1>1 DEF ByteValue
  <2>2. Quote \in Char
    BY SymbolsAssumption
  <2>3. \A ch \in Char : Quoted(ch) \in Bytes
    BY <2>2, SmallSeqs DEF Bytes
  <2> HIDE DEF Quoted
  <2>4. Len(v.text) \in Nat /\ quoted \in [1 .. Len(v.text) -> Bytes]
    BY <2>1, <2>3 DEF Bytes
  <2>5. quoted \in Seq(Bytes)
    BY <2>4, FunctionIsSeq
  <2> HIDE DEF quoted
  <2>6. FlattenSeq(quoted) \in Bytes /\ <<Quote>> \in Bytes
    BY <2>2, <2>5, FlattenType DEF Bytes
  <2>7. <<Quote>> \o FlattenSeq(quoted) \o <<Quote>> \in Bytes
    BY <2>6, ConcatProperties DEF Bytes
  <2>8. WriteString(v.text) = <<Quote>> \o FlattenSeq(quoted) \o <<Quote>>
    BY DEF WriteString, quoted, Quoted
  <2> QED
    BY <1>1, <2>7, <2>8 DEF WriteValue
<1>2. CASE v.type # "STRING"
  <2>1. v.int \in (-LongMax - 1) .. LongMax /\ LongMax \in Nat
    BY <1>2, LongMaxAssumption DEF ByteValue
  <2>2. \A m \in Nat : m % (2 * LongMax + 2) \in Nat
    BY <2>1
  <2>3. Magnitude(v.int, LongMax) \in Nat
    BY <2>1, <2>2 DEF Magnitude
  <2>4. Digits(Magnitude(v.int, LongMax)) \in Bytes
    BY <2>3, DigitsType, NumeralIsText
  <2>5. <<"-">> \in Bytes /\ <<>> \in Bytes
    BY SymbolsAssumption DEF Bytes
  <2>6. WriteInteger(v.int, LongMax) \in Bytes
    BY <2>4, <2>5, ConcatProperties DEF WriteInteger, Bytes
  <2> QED
    BY <1>2, <2>6 DEF WriteValue
<1> QED
  BY <1>1, <1>2

LEMMA LineType ==
  ASSUME NEW fields \in Seq(Bytes)
  PROVE  Line(fields) \in Bytes
<1> DEFINE Cell(i) == IF i = 1 THEN fields[i] ELSE <<Comma>> \o fields[i]
           cells == [i \in DOMAIN fields |-> Cell(i)]
<1>1. <<Comma>> \in Bytes /\ <<LF>> \in Bytes
  BY SymbolsAssumption DEF Bytes
<1>2. Len(fields) \in Nat /\ DOMAIN fields = 1 .. Len(fields)
  OBVIOUS
<1>3. \A i \in 1 .. Len(fields) : Cell(i) \in Bytes
  BY <1>1, <1>2, ElementOfSeq, ConcatProperties DEF Bytes
<1> HIDE DEF Cell
<1>4. cells \in Seq(Bytes)
  BY <1>2, <1>3, FunctionIsSeq
<1> HIDE DEF cells
<1>5. FlattenSeq(cells) \in Bytes
  BY <1>4, FlattenType DEF Bytes
<1>6. Line(fields) = FlattenSeq(cells) \o <<LF>>
  BY DEF Line, Joined, cells, Cell
<1> QED
  BY <1>1, <1>5, <1>6, ConcatProperties DEF Bytes

----------------------------------------------------------------------------
(***************************************************************************)
(* The rows of a file.                                                     *)
(***************************************************************************)
\* Every record of a file is a sequence of texts.
LEMMA RowsType ==
  ASSUME NEW f \in Bytes
  PROVE  /\ Rows(f) \in Seq(Seq(Bytes)) /\ Len(Rows(f)) = Len(Table(f))
         /\ Len(Table(f)) \in Nat
         /\ \A k \in 1 .. Len(Table(f)) : Len(Table(f)[k]) = Len(Rows(f)[k])
<1> DEFINE raw == RawRecords(f)
<1>1. raw \in Seq(RawRecord) /\ f # NoFile
  <2>1. 1 \in Positions(f)
    BY DEF Positions, Bytes
  <2> QED
    BY <2>1, RawSteps, FilesAssumption
<1> HIDE DEF raw
<1>2. /\ Len(raw) \in Nat /\ DOMAIN raw = 1 .. Len(raw)
      /\ \A k \in 1 .. Len(raw) : raw[k] \in RawRecord
  BY <1>1
<1>3. Rows(f) = [k \in 1 .. Len(raw) |-> IF raw[k].open THEN <<>> ELSE Fields(raw[k].text)]
  BY <1>2 DEF Rows, raw
<1>4. \A k \in 1 .. Len(raw) : Rows(f)[k] \in Seq(Bytes)
  <2>1. \A k \in 1 .. Len(raw) : Fields(raw[k].text) \in Seq(Bytes)
    BY <1>2, FieldsType DEF RawRecord
  <2> QED
    BY <1>3, <2>1
<1>5. Rows(f) \in [1 .. Len(raw) -> Seq(Bytes)]
  BY <1>3, <1>4
<1>6. Rows(f) \in Seq(Seq(Bytes)) /\ Len(Rows(f)) = Len(raw)
  BY <1>2, <1>5, FunctionIsSeq
<1>7. Len(Table(f)) = Len(raw)
  BY TableOf DEF raw
<1>8. ASSUME NEW k \in 1 .. Len(raw)
      PROVE  Len(Table(f)[k]) = Len(Rows(f)[k])
  <2>1. Table(f)[k] = StrRow(Rows(f)[k])
    <3>1. Table(f) = [m \in DOMAIN Rows(f) |-> StrRow(Rows(f)[m])]
      BY <1>1 DEF Table
    <3> QED
      BY <1>5, <3>1
  <2>2. /\ Rows(f)[k] \in Seq(Bytes)
        /\ Len(Rows(f)[k]) \in Nat /\ DOMAIN Rows(f)[k] = 1 .. Len(Rows(f)[k])
    BY <1>4
  <2>3. StrRow(Rows(f)[k]) = [i \in 1 .. Len(Rows(f)[k]) |-> Str(Rows(f)[k][i])]
    BY <2>2 DEF StrRow
  <2>4. Len([i \in 1 .. Len(Rows(f)[k]) |-> Str(Rows(f)[k][i])]) = Len(Rows(f)[k])
    BY <2>2
  <2> QED
    BY <2>1, <2>3, <2>4
<1> QED
  BY <1>2, <1>6, <1>7, <1>8

----------------------------------------------------------------------------
(***************************************************************************)
(* The records of a file, against the count of its quotes.                 *)
(***************************************************************************)
\* How many quotes stand at positions i to j.
QuotesAt(f, i, j) == {k \in i .. j : f[k] = Quote}
Quotes(f, i, j) == Cardinality(QuotesAt(f, i, j))

LEMMA QuotesType ==
  ASSUME NEW f, NEW i \in Int, NEW j \in Int
  PROVE  IsFiniteSet(QuotesAt(f, i, j)) /\ Quotes(f, i, j) \in Nat
<1>1. IsFiniteSet(i .. j) /\ QuotesAt(f, i, j) \in SUBSET (i .. j)
  BY FS_Interval DEF QuotesAt
<1>2. IsFiniteSet(QuotesAt(f, i, j))
  BY <1>1, FS_Subset
<1> QED
  BY <1>2, FS_CardinalityType DEF Quotes

LEMMA QuotesSplit ==
  ASSUME NEW f, NEW i \in Int, NEW j \in Int, NEW m \in i .. (j + 1)
  PROVE  Quotes(f, i, j) = Quotes(f, i, m - 1) + Quotes(f, m, j)
<1> DEFINE S == QuotesAt(f, i, m - 1)
           T == QuotesAt(f, m, j)
<1>1. m \in Int /\ m - 1 \in Int
  OBVIOUS
<1>2. IsFiniteSet(S) /\ IsFiniteSet(T) /\ Cardinality(S) \in Nat /\ Cardinality(T) \in Nat
  BY <1>1, QuotesType DEF Quotes
<1>3. S \cap T = {} /\ S \cup T = QuotesAt(f, i, j)
  BY <1>1 DEF QuotesAt
<1> HIDE DEF S, T
<1>4. Cardinality(S \cup T) = Cardinality(S) + Cardinality(T) - Cardinality(S \cap T)
  BY <1>2, FS_Union
<1>5. Cardinality(S \cap T) = 0
  BY <1>3, FS_EmptySet
<1>6. Cardinality(QuotesAt(f, i, j)) = Cardinality(S) + Cardinality(T)
  <2>1. \A a, b \in Nat : a + b - 0 = a + b
    OBVIOUS
  <2>2. Cardinality(S \cup T) = Cardinality(S) + Cardinality(T) - 0
    BY <1>4, <1>5
  <2>3. Cardinality(S \cup T) = Cardinality(S) + Cardinality(T)
    BY <1>2, <2>1, <2>2
  <2> QED
    BY <1>3, <2>3
<1> QED
  BY <1>6 DEF Quotes, S, T

LEMMA QuotesOne ==
  ASSUME NEW f, NEW j \in Int
  PROVE  Quotes(f, j, j) = IF f[j] = Quote THEN 1 ELSE 0
<1>1. CASE f[j] = Quote
  <2>1. QuotesAt(f, j, j) = {j}
    BY <1>1 DEF QuotesAt
  <2> QED
    BY <1>1, <2>1, FS_Singleton DEF Quotes
<1>2. CASE f[j] # Quote
  <2>1. QuotesAt(f, j, j) = {}
    BY <1>2 DEF QuotesAt
  <2> QED
    BY <1>2, <2>1, FS_EmptySet DEF Quotes
<1> QED
  BY <1>1, <1>2

\* Those of a part of a text are those it has there.
LEMMA QuotesOfPart ==
  ASSUME NEW f \in Bytes, NEW i \in 1 .. (Len(f) + 1), NEW e \in (i - 1) .. Len(f)
  PROVE  QuotesIn(SubSeq(f, i, e)) = Quotes(f, i, e)
<1> DEFINE t == SubSeq(f, i, e)
           S == {k \in DOMAIN t : t[k] = Quote}
           T == QuotesAt(f, i, e)
           b == [k \in S |-> i + k - 1]
<1>1. Len(f) \in Nat /\ i \in Nat /\ e \in Int /\ e >= i - 1 /\ \A k \in i .. e : f[k] \in Char
  BY DEF Bytes
<1>2. /\ t \in Seq(Char) /\ Len(t) = e - i + 1
      /\ \A k \in 1 .. (e - i + 1) : t[k] = f[i + k - 1]
  BY <1>1, SubSeqProperties
<1>3. DOMAIN t = 1 .. (e - i + 1)
  BY <1>2
<1> HIDE DEF t
<1>4. S = {k \in 1 .. (e - i + 1) : f[i + k - 1] = Quote}
  BY <1>2, <1>3
<1>5. T = {k \in i .. e : f[k] = Quote}
  BY DEF QuotesAt
<1> HIDE DEF S, T
<1>6. b \in [S -> T]
  BY <1>1, <1>4, <1>5
<1>7. \A x, y \in S : b[x] = b[y] => x = y
  BY <1>1, <1>4
<1>8. \A y \in T : \E x \in S : b[x] = y
  <2>1. ASSUME NEW y \in T PROVE \E x \in S : b[x] = y
    <3>1. y \in i .. e /\ f[y] = Quote
      BY <1>5
    <3>2. y - i + 1 \in 1 .. (e - i + 1) /\ i + (y - i + 1) - 1 = y
      BY <1>1, <3>1
    <3>3. y - i + 1 \in S
      BY <1>4, <3>1, <3>2
    <3> QED
      BY <3>2, <3>3
  <2> QED
    BY <2>1
<1>9. ExistsBijection(S, T)
  <2> HIDE DEF b
  <2> QED
    BY <1>6, <1>7, <1>8 DEF ExistsBijection, Bijection, Injection, Surjection, IsInjective
<1>10. IsFiniteSet(S)
  <2>1. e - i + 1 \in Int
    BY <1>1
  <2>2. IsFiniteSet(1 .. (e - i + 1))
    BY <2>1, FS_Interval
  <2>3. S \in SUBSET (1 .. (e - i + 1))
    BY <1>4
  <2> QED
    BY <2>2, <2>3, FS_Subset
<1>11. Cardinality(T) = Cardinality(S)
  BY <1>9, <1>10, FS_Bijection
<1> QED
  BY <1>11 DEF QuotesIn, Quotes, S, T, t

\* Position j is not inside quotes.
Outside(f, j) == IsEven(Quotes(f, 1, j - 1))

LEMMA EvenAndOne ==
  ASSUME NEW n \in Nat
  PROVE  (n + 1) % 2 = 0 <=> ~(n % 2 = 0)
  OBVIOUS

LEMMA EvenSum ==
  ASSUME NEW n \in Nat, NEW m \in Nat, n % 2 = 0
  PROVE  (n + m) % 2 = 0 <=> m % 2 = 0
  OBVIOUS

LEMMA OutsideSteps ==
  ASSUME NEW f \in Bytes
  PROVE  /\ Outside(f, 1)
         /\ \A j \in 1 .. Len(f) :
              Outside(f, j + 1) <=> (IF f[j] = Quote THEN ~Outside(f, j) ELSE Outside(f, j))
<1>1. Outside(f, 1)
  <2>1. QuotesAt(f, 1, 1 - 1) = {}
    BY DEF QuotesAt
  <2> QED
    BY <2>1, FS_EmptySet DEF Outside, Quotes, IsEven
<1>2. ASSUME NEW j \in 1 .. Len(f)
      PROVE  Outside(f, j + 1) <=> (IF f[j] = Quote THEN ~Outside(f, j) ELSE Outside(f, j))
  <2>1. j \in Int /\ (j + 1) - 1 = j /\ j - 1 \in Int /\ j \in 1 .. (j + 1)
    BY DEF Bytes
  <2>2. Quotes(f, 1, j) = Quotes(f, 1, j - 1) + Quotes(f, j, j)
    BY <2>1, QuotesSplit
  <2>3. Quotes(f, 1, j - 1) \in Nat
    BY <2>1, QuotesType
  <2> DEFINE n == Quotes(f, 1, j - 1)
  <2> HIDE DEF n
  <2>4. Quotes(f, 1, j) = IF f[j] = Quote THEN n + 1 ELSE n
    BY <2>1, <2>2, <2>3, QuotesOne DEF n
  <2>5. n \in Nat /\ ((n + 1) % 2 = 0 <=> ~(n % 2 = 0))
    BY <2>3, EvenAndOne DEF n
  <2>6. Outside(f, j + 1) <=> Quotes(f, 1, j) % 2 = 0
    BY <2>1 DEF Outside, IsEven
  <2>7. Outside(f, j) <=> n % 2 = 0
    BY DEF Outside, IsEven, n
  <2> QED
    BY <2>4, <2>5, <2>6, <2>7
<1> QED
  BY <1>1, <1>2

\* The line ends outside quotes, where they stand.
LEMMA BreaksAre ==
  ASSUME NEW f \in Bytes, NEW j \in 1 .. Len(f)
  PROVE  j \in Breaks(f) <=> f[j] \in LineEnds /\ Outside(f, j)
<1>1. Len(f) \in Nat /\ DOMAIN f = 1 .. Len(f) /\ j \in Int /\ (j + 1) - 1 = j
  BY DEF Bytes
<1>2. QuotesIn(SubSeq(f, 1, j)) = Quotes(f, 1, j)
  BY <1>1, QuotesOfPart
<1>3. j \in Breaks(f) <=> f[j] \in LineEnds /\ Outside(f, j + 1)
  BY <1>1, <1>2 DEF Breaks, Outside
<1>4. f[j] \in LineEnds => (Outside(f, j + 1) <=> Outside(f, j))
  BY OutsideSteps, SymbolsAssumption
<1> QED
  BY <1>3, <1>4

LEMMA BreaksAreAt ==
  ASSUME NEW f \in Bytes
  PROVE  Breaks(f) \subseteq 1 .. Len(f)
  BY DEF Breaks, Bytes

\* A record read from position j, outside or inside quotes as they count, goes
\* to the first line end outside quotes.
Counted(f, j, r) ==
  /\ \A k \in j .. (r.end - 1) : k \notin Breaks(f)
  /\ r.end <= Len(f) => r.end \in Breaks(f)
  /\ r.open <=> ~Outside(f, r.end)

LEMMA ScanCounts ==
  ASSUME NEW f \in Bytes
  PROVE  \A j \in 1 .. (Len(f) + 1), q \in BOOLEAN :
           (q <=> ~Outside(f, j)) => Counted(f, j, Scan(f)[j][q])
<1> DEFINE P == {j \in 1 .. (Len(f) + 1) :
                   \A q \in BOOLEAN : (q <=> ~Outside(f, j)) => Counted(f, j, Scan(f)[j][q])}
<1>1. Len(f) \in Nat /\ Len(f) + 1 \in Nat
  BY DEF Bytes
<1>2. ASSUME NEW j \in 1 .. (Len(f) + 1), \A k \in (j + 1) .. (Len(f) + 1) : k \in P,
             NEW q \in BOOLEAN, q <=> ~Outside(f, j)
      PROVE  Counted(f, j, Scan(f)[j][q])
  <2>1. /\ j \in Positions(f) /\ Scan(f)[j][q] = ScanStep(f, Scan(f), j, q)
        /\ \A k \in 1 .. (Len(f) + 1), p \in BOOLEAN :
              Scan(f)[k][p] \in Reads /\ k <= Scan(f)[k][p].end
    <3>1. \A k \in 1 .. (Len(f) + 1) : k \in Positions(f)
      BY <1>1 DEF Positions
    <3>2. \A k \in Positions(f), p \in BOOLEAN : Scan(f)[k][p] \in Reads
      BY ScanSteps DEF Scans
    <3>3. \A k \in Positions(f), p \in BOOLEAN : k <= Scan(f)[k][p].end
      BY ScanBounds DEF Bounded
    <3> QED
      BY <3>1, <3>2, <3>3, ScanSteps
  <2>2. CASE j > Len(f)
    <3>1. Scan(f)[j][q] = [end |-> j, next |-> j, open |-> q]
      BY <2>1, <2>2 DEF ScanStep
    <3>2. \A k \in j .. (j - 1) : k \notin Breaks(f)
      BY <1>1
    <3> QED
      BY <1>1, <1>2, <2>2, <3>1, <3>2 DEF Counted
  <2>3. CASE j <= Len(f) /\ ~q /\ f[j] \in LineEnds
    <3>1. f[j] # Quote
      BY <2>3, SymbolsAssumption
    <3>2. Scan(f)[j][q] = [end |-> j, next |-> AfterLineEnd(f, j), open |-> FALSE]
      BY <1>1, <2>1, <2>3, <3>1 DEF ScanStep
    <3>3. j \in Breaks(f)
      BY <1>1, <1>2, <2>3, BreaksAre
    <3>4. \A k \in j .. (j - 1) : k \notin Breaks(f)
      BY <1>1
    <3> QED
      BY <1>2, <2>3, <3>2, <3>3, <3>4 DEF Counted
  <2>4. CASE j <= Len(f) /\ ~(~q /\ f[j] \in LineEnds)
    <3>1. j \in 1 .. Len(f) /\ ~(j > Len(f)) /\ j \notin Breaks(f)
      BY <1>1, <1>2, <2>4, BreaksAre
    <3>2. \E k \in {j + 1, j + 2}, p \in BOOLEAN :
             /\ Scan(f)[j][q] = Scan(f)[k][p] /\ k <= Len(f) + 1
             /\ p <=> ~Outside(f, k)
             /\ k = j + 2 => j + 1 \notin Breaks(f)
      <4>1. CASE f[j] = Quote /\ q /\ EscapedQuote(f, j)
        <5>1. Scan(f)[j][q] = Scan(f)[j + 2][TRUE]
          BY <2>1, <3>1, <4>1 DEF ScanStep
        <5>2. j + 1 \in 1 .. Len(f) /\ f[j + 1] = Quote /\ j + 2 <= Len(f) + 1 /\ (j + 1) + 1 = j + 2
          BY <1>1, <3>1, <4>1 DEF EscapedQuote
        <5>3. ~Outside(f, j + 2)
          BY <1>2, <3>1, <4>1, <5>2, OutsideSteps
        <5>4. j + 1 \notin Breaks(f)
          BY <5>2, BreaksAre, SymbolsAssumption
        <5> QED
          BY <5>1, <5>2, <5>3, <5>4
      <4>2. CASE f[j] = Quote /\ ~(q /\ EscapedQuote(f, j))
        <5>1. Scan(f)[j][q] = Scan(f)[j + 1][~q]
          BY <2>1, <3>1, <4>2 DEF ScanStep
        <5>2. j + 1 # j + 2 /\ j + 1 <= Len(f) + 1
          BY <1>1, <3>1
        <5>3. Outside(f, j + 1) <=> ~Outside(f, j)
          BY <3>1, <4>2, OutsideSteps
        <5>4. CASE q = TRUE
          BY <1>2, <5>1, <5>2, <5>3, <5>4
        <5>5. CASE q = FALSE
          BY <1>2, <5>1, <5>2, <5>3, <5>5
        <5> QED
          BY <5>4, <5>5
      <4>3. CASE f[j] # Quote
        <5>1. Scan(f)[j][q] = Scan(f)[j + 1][q]
          BY <2>1, <2>4, <3>1, <4>3 DEF ScanStep
        <5>2. j + 1 # j + 2 /\ j + 1 <= Len(f) + 1
          BY <1>1, <3>1
        <5>3. Outside(f, j + 1) <=> Outside(f, j)
          BY <3>1, <4>3, OutsideSteps
        <5> QED
          BY <1>2, <5>1, <5>2, <5>3
      <4> QED
        BY <4>1, <4>2, <4>3
    <3>3. PICK k \in {j + 1, j + 2}, p \in BOOLEAN :
             /\ Scan(f)[j][q] = Scan(f)[k][p] /\ k <= Len(f) + 1
             /\ p <=> ~Outside(f, k)
             /\ k = j + 2 => j + 1 \notin Breaks(f)
      BY <3>2
    <3>4. k \in (j + 1) .. (Len(f) + 1) /\ k \in 1 .. (Len(f) + 1)
      BY <1>1, <3>1, <3>3
    <3> DEFINE r == Scan(f)[k][p]
    <3>5. Counted(f, k, r) /\ r.end \in Nat
      BY <1>2, <2>1, <3>3, <3>4 DEF Reads
    <3> HIDE DEF r
    <3>6. \A m \in j .. (r.end - 1) : m = j \/ (m = j + 1 /\ k = j + 2) \/ m \in k .. (r.end - 1)
      BY <3>1, <3>3, <3>5
    <3>7. \A m \in j .. (r.end - 1) : m \notin Breaks(f)
      BY <3>1, <3>3, <3>5, <3>6 DEF Counted
    <3> QED
      BY <3>3, <3>5, <3>7 DEF Counted, r
  <2> QED
    BY <1>1, <2>2, <2>3, <2>4
<1>3. \A j \in 1 .. (Len(f) + 1) : j \in P
  <2>1. ASSUME NEW j \in 1 .. (Len(f) + 1), \A k \in (j + 1) .. (Len(f) + 1) : k \in P
        PROVE  j \in P
    BY <1>2, <2>1
  <2> HIDE DEF P
  <2> QED
    BY <1>1, <2>1, DownwardInduction
<1> QED
  BY <1>3

\* Where a record may start: outside quotes and not between CR and LF.
Starts(f, i) ==
  /\ i \in 1 .. (Len(f) + 1) /\ Outside(f, i)
  /\ 1 < i /\ i <= Len(f) => ~(f[i] = LF /\ f[i - 1] = CR)

\* The record that starts there holds no line end outside quotes, ends at one
\* or with the file, and lets the next one start.
LEMMA RecordCounts ==
  ASSUME NEW f \in Bytes, NEW i \in 1 .. Len(f), Starts(f, i)
  PROVE  LET r == ReadRecord(f, i)
         IN  /\ Counted(f, i, r)
             /\ r.end <= Len(f) => r.end \in Ends(f)
             /\ r.end <= Len(f) => Starts(f, r.next)
             /\ r.next = r.end + 2 => r.end + 1 \in Breaks(f) \ Ends(f)
<1> DEFINE r == ReadRecord(f, i)
<1>1. Len(f) \in Nat /\ i \in 1 .. (Len(f) + 1)
  BY DEF Bytes
<1>2. Counted(f, i, r)
  <2>1. Outside(f, i) /\ r = Scan(f)[i][FALSE]
    BY DEF Starts, ReadRecord
  <2> HIDE DEF r
  <2> QED
    BY <1>1, <2>1, ScanCounts
<1>3. /\ r.end \in i .. (Len(f) + 1) /\ r.next \in (i + 1) .. (Len(f) + 2)
      /\ r.end <= Len(f) => f[r.end] \in LineEnds /\ r.next = AfterLineEnd(f, r.end)
      /\ r.end > Len(f) => r.next = Len(f) + 1
  BY ReadRecordBounds
<1> HIDE DEF r
<1> DEFINE e == r.end
<1>4. e \in Nat /\ e >= i
  BY <1>1, <1>3
<1>5. ASSUME e <= Len(f)
      PROVE  /\ Starts(f, r.next)
             /\ e \in Ends(f)
             /\ r.next = e + 2 => e + 1 \in Breaks(f) \ Ends(f)
  <2>1. e \in 1 .. Len(f) /\ e \in Breaks(f)
    BY <1>1, <1>2, <1>4, <1>5 DEF Counted
  <2>2. f[e] \in LineEnds /\ Outside(f, e) /\ f[e] # Quote
    BY <2>1, BreaksAre, SymbolsAssumption
  <2>3. Outside(f, e + 1)
    BY <2>1, <2>2, OutsideSteps
  <2>4. e \in Ends(f)
    <3>1. ASSUME e > 1, f[e] = LF, f[e - 1] = CR
          PROVE  FALSE
      <4>1. e # i
        BY <1>5, <3>1 DEF Starts
      <4>2. e - 1 \in 1 .. Len(f) /\ e - 1 \in i .. (e - 1) /\ (e - 1) + 1 = e
        BY <1>1, <1>4, <2>1, <4>1
      <4>3. CR \in LineEnds /\ CR # Quote
        BY SymbolsAssumption DEF LineEnds
      <4>4. Outside(f, e - 1)
        BY <2>2, <3>1, <4>2, <4>3, OutsideSteps
      <4>5. e - 1 \in Breaks(f)
        BY <3>1, <4>2, <4>3, <4>4, BreaksAre
      <4> QED
        BY <1>2, <4>2, <4>5 DEF Counted
    <3> QED
      BY <2>1, <3>1 DEF Ends
  <2>5. CASE f[e] = CR /\ e < Len(f) /\ f[e + 1] = LF
    <3>1. r.next = e + 2
      BY <1>3, <1>5, <2>5 DEF AfterLineEnd
    <3>2. e + 1 \in 1 .. Len(f) /\ (e + 1) + 1 = e + 2 /\ (e + 1) - 1 = e /\ e + 1 > 1
      BY <1>1, <2>1, <2>5
    <3>3. LF \in LineEnds /\ LF # Quote /\ LF # CR
      BY SymbolsAssumption DEF LineEnds, LF, CR
    <3>4. Outside(f, e + 2)
      BY <2>3, <2>5, <3>2, <3>3, OutsideSteps
    <3>5. e + 1 \in Breaks(f)
      BY <2>3, <2>5, <3>2, <3>3, BreaksAre
    <3>6. e + 1 \notin Ends(f)
      BY <2>5, <3>2 DEF Ends
    <3>7. e + 2 <= Len(f) => ~(f[e + 2] = LF /\ f[(e + 2) - 1] = CR)
      <4>1. (e + 2) - 1 = e + 1
        BY <1>4
      <4> QED
        BY <2>5, <3>3, <4>1
    <3>8. Starts(f, e + 2)
      BY <1>1, <3>2, <3>4, <3>7 DEF Starts
    <3> QED
      BY <2>4, <3>1, <3>5, <3>6, <3>8
  <2>6. CASE ~(f[e] = CR /\ e < Len(f) /\ f[e + 1] = LF)
    <3>1. r.next = e + 1
      BY <1>3, <1>5, <2>6 DEF AfterLineEnd
    <3>2. e + 1 \in 1 .. (Len(f) + 1) /\ (e + 1) - 1 = e /\ e + 1 # e + 2 /\ (e + 1 <= Len(f) => e < Len(f))
      BY <1>1, <2>1
    <3>3. Starts(f, e + 1)
      BY <2>3, <2>6, <3>2 DEF Starts
    <3> QED
      BY <2>4, <3>1, <3>2, <3>3
  <2> QED
    BY <2>5, <2>6
<1>6. CASE e > Len(f)
  <2>1. r.next = Len(f) + 1 /\ e = Len(f) + 1
    BY <1>1, <1>3, <1>4, <1>6
  <2>2. ~(e <= Len(f)) /\ r.next # e + 2
    BY <1>1, <2>1
  <2> QED
    BY <1>2, <2>1, <2>2 DEF r
<1> QED
  BY <1>1, <1>2, <1>4, <1>5, <1>6 DEF r

\* The characters of f that are no line ends outside quotes, from a position on.
KeptAt(f, i) == IF i \in Breaks(f) THEN <<>> ELSE <<f[i]>>
KeptFrom(f, i) == FlattenSeq(SubSeq([k \in DOMAIN f |-> KeptAt(f, k)], i, Len(f)))

LEMMA KeptSteps ==
  ASSUME NEW f \in Bytes
  PROVE  /\ KeptFrom(f, 1) = FlattenSeq([k \in DOMAIN f |-> KeptAt(f, k)])
         /\ \A i \in 1 .. (Len(f) + 1) : KeptFrom(f, i) \in Bytes
         /\ KeptFrom(f, Len(f) + 1) = <<>>
         /\ \A i \in 1 .. Len(f) : KeptFrom(f, i) = KeptAt(f, i) \o KeptFrom(f, i + 1)
<1> DEFINE n == Len(f)
           kept == [k \in DOMAIN f |-> KeptAt(f, k)]
<1>1. n \in Nat /\ DOMAIN f = 1 .. n /\ \A k \in 1 .. n : f[k] \in Char
  BY DEF Bytes
<1>2. \A k \in 1 .. n : KeptAt(f, k) \in Bytes
  BY <1>1 DEF KeptAt, Bytes
<1>3. kept \in [1 .. n -> Bytes] /\ \A k \in 1 .. n : kept[k] = KeptAt(f, k)
  BY <1>1, <1>2
<1>4. \A i : KeptFrom(f, i) = FlattenSeq(SubSeq(kept, i, n))
  BY DEF KeptFrom
<1> HIDE DEF kept, n
<1>5. kept \in Seq(Bytes) /\ Len(kept) = n
  BY <1>1, <1>3, FunctionIsSeq
<1>6. KeptFrom(f, 1) = FlattenSeq(kept)
  BY <1>4, <1>5, SubSeqFull
<1>7. ASSUME NEW i \in 1 .. (n + 1)
      PROVE  SubSeq(kept, i, n) \in Seq(Bytes)
  <2>1. \A k \in i .. n : kept[k] \in Bytes
    BY <1>1, <1>3
  <2> QED
    BY <1>1, <2>1, SubSeqProperties
<1>8. \A i \in 1 .. (n + 1) : KeptFrom(f, i) \in Bytes
  BY <1>4, <1>7, FlattenType DEF Bytes
<1>9. KeptFrom(f, n + 1) = <<>>
  <2>1. SubSeq(kept, n + 1, n) = <<>>
    BY <1>1, SubSeqEmpty
  <2> QED
    BY <1>4, <2>1, FlattenEmpty
<1>10. ASSUME NEW i \in 1 .. n
       PROVE  KeptFrom(f, i) = KeptAt(f, i) \o KeptFrom(f, i + 1)
  <2>1. i \in 1 .. Len(kept) /\ n \in i .. Len(kept) /\ i + 1 \in 1 .. (n + 1)
    BY <1>1, <1>5
  <2>2. SubSeq(kept, i, n) = <<kept[i]>> \o SubSeq(kept, i + 1, n)
    BY <1>5, <2>1, SubSeqRecursiveFirst
  <2>3. kept[i] \in Bytes /\ kept[i] = KeptAt(f, i)
    BY <1>2, <1>3
  <2>4. FlattenSeq(<<kept[i]>> \o SubSeq(kept, i + 1, n)) = kept[i] \o FlattenSeq(SubSeq(kept, i + 1, n))
    BY <1>7, <2>1, <2>3, FlattenFirst DEF Bytes
  <2> QED
    BY <1>4, <2>2, <2>3, <2>4
<1> QED
  BY <1>6, <1>8, <1>9, <1>10 DEF n, kept

\* Up to the next of those line ends all are kept.
LEMMA KeptRun ==
  ASSUME NEW f \in Bytes, NEW e \in 1 .. (Len(f) + 1), NEW i \in 1 .. e,
         \A k \in i .. (e - 1) : k \notin Breaks(f)
  PROVE  KeptFrom(f, i) = SubSeq(f, i, e - 1) \o KeptFrom(f, e)
<1> DEFINE Run(j) == KeptFrom(f, j) = SubSeq(f, j, e - 1) \o KeptFrom(f, e)
           P == {j \in 1 .. e : j >= i => Run(j)}
<1>1. Len(f) \in Nat /\ e \in Nat /\ i \in Nat /\ \A k \in 1 .. Len(f) : f[k] \in Char
  BY DEF Bytes
<1>2. ASSUME NEW j \in 1 .. e, \A k \in (j + 1) .. e : k \in P, j >= i
      PROVE  Run(j)
  <2>1. CASE j = e
    <3>1. SubSeq(f, j, e - 1) = <<>>
      BY <1>1, <2>1, SubSeqEmpty
    <3>2. <<>> \o KeptFrom(f, e) = KeptFrom(f, e)
      BY KeptSteps, ConcatEmptySeq DEF Bytes
    <3> QED
      BY <2>1, <3>1, <3>2
  <2>2. CASE j < e
    <3>1. /\ j \in 1 .. Len(f) /\ e - 1 \in j .. Len(f) /\ j + 1 \in (j + 1) .. e /\ j + 1 >= i
          /\ j \in i .. (e - 1)
      BY <1>1, <1>2, <2>2
    <3>2. Run(j + 1)
      BY <1>2, <3>1
    <3>3. KeptFrom(f, j) = <<f[j]>> \o KeptFrom(f, j + 1)
      BY <3>1, KeptSteps DEF KeptAt
    <3>4. SubSeq(f, j, e - 1) = <<f[j]>> \o SubSeq(f, j + 1, e - 1)
      BY <3>1, SubSeqRecursiveFirst DEF Bytes
    <3> DEFINE x == <<f[j]>>
               y == SubSeq(f, j + 1, e - 1)
               z == KeptFrom(f, e)
    <3>5. x \in Seq(Char) /\ y \in Seq(Char) /\ z \in Seq(Char)
      <4>1. \A k \in (j + 1) .. (e - 1) : f[k] \in Char
        BY <1>1
      <4>2. y \in Seq(Char)
        BY <1>1, <4>1, SubSeqProperties
      <4>3. x \in Seq(Char)
        BY <1>1, <3>1, SmallSeqs
      <4> QED
        BY <4>2, <4>3, KeptSteps DEF Bytes
    <3>6. KeptFrom(f, j + 1) = y \o z
      BY <3>2
    <3> HIDE DEF x, y, z
    <3>7. x \o (y \o z) = (x \o y) \o z
      BY <3>5, Grouping
    <3> QED
      BY <3>3, <3>4, <3>6, <3>7 DEF x, y, z
  <2> QED
    BY <1>1, <2>1, <2>2
<1>3. \A j \in 1 .. e : j \in P
  <2>1. ASSUME NEW j \in 1 .. e, \A k \in (j + 1) .. e : k \in P
        PROVE  j \in P
    BY <1>2, <2>1
  <2> HIDE DEF P
  <2> QED
    BY <1>1, <2>1, DownwardInduction
<1>4. i \in P /\ i >= i
  BY <1>1, <1>3
<1> QED
  BY <1>4

Texts(raw) == [k \in DOMAIN raw |-> raw[k].text]

LEMMA TextsSteps ==
  /\ Texts(<<>>) = <<>>
  /\ \A raw \in Seq(RawRecord) : Texts(raw) \in Seq(Bytes)
  /\ \A rec \in RawRecord, raw \in Seq(RawRecord) : Texts(<<rec>> \o raw) = <<rec.text>> \o Texts(raw)
<1>1. \A rec \in RawRecord : rec.text \in Bytes
  BY DEF RawRecord
<1>2. ASSUME NEW raw \in Seq(RawRecord)
      PROVE  /\ Texts(raw) \in Seq(Bytes) /\ Len(Texts(raw)) = Len(raw)
             /\ \A k \in 1 .. Len(raw) : Texts(raw)[k] = raw[k].text
  <2>1. Len(raw) \in Nat /\ DOMAIN raw = 1 .. Len(raw) /\ \A k \in 1 .. Len(raw) : raw[k] \in RawRecord
    OBVIOUS
  <2>2. Texts(raw) \in [1 .. Len(raw) -> Bytes] /\ \A k \in 1 .. Len(raw) : Texts(raw)[k] = raw[k].text
    BY <1>1, <2>1 DEF Texts
  <2> QED
    BY <2>1, <2>2, FunctionIsSeq
<1>3. Texts(<<>>) = <<>>
  BY DEF Texts
<1>4. ASSUME NEW rec \in RawRecord, NEW raw \in Seq(RawRecord)
      PROVE  Texts(<<rec>> \o raw) = <<rec.text>> \o Texts(raw)
  <2> DEFINE more == <<rec>> \o raw
             a == Texts(more)
             b == <<rec.text>> \o Texts(raw)
  <2>1. /\ more \in Seq(RawRecord) /\ Len(more) = Len(raw) + 1 /\ Len(raw) \in Nat
        /\ \A k \in 1 .. (Len(raw) + 1) : more[k] = IF k = 1 THEN rec ELSE raw[k - 1]
    OBVIOUS
  <2> HIDE DEF more
  <2>2. /\ a \in Seq(Bytes) /\ Len(a) = Len(raw) + 1
        /\ \A k \in 1 .. (Len(raw) + 1) : a[k] = more[k].text
    BY <1>2, <2>1
  <2>3. rec.text \in Bytes /\ Texts(raw) \in Seq(Bytes) /\ Len(Texts(raw)) = Len(raw)
    BY <1>1, <1>2
  <2>4. /\ b \in Seq(Bytes) /\ Len(b) = Len(raw) + 1
        /\ \A k \in 1 .. (Len(raw) + 1) : b[k] = IF k = 1 THEN rec.text ELSE Texts(raw)[k - 1]
    BY <2>1, <2>3
  <2>5. \A k \in 1 .. (Len(raw) + 1) : k # 1 => k - 1 \in 1 .. Len(raw)
    BY <2>1
  <2> HIDE DEF a, b
  <2>6. ASSUME NEW k \in 1 .. (Len(raw) + 1)
        PROVE  a[k] = b[k]
    <3>1. CASE k = 1
      BY <2>1, <2>2, <2>4, <3>1
    <3>2. CASE k # 1
      <4>1. k - 1 \in 1 .. Len(raw)
        BY <2>5, <3>2
      <4>2. Texts(raw)[k - 1] = raw[k - 1].text
        BY <1>2, <4>1
      <4> QED
        BY <2>1, <2>2, <2>4, <3>2, <4>2
    <3> QED
      BY <3>1, <3>2
  <2>7. a = b
    BY <2>2, <2>4, <2>6, SeqEqual
  <2> QED
    BY <2>7 DEF a, b, more
<1> QED
  BY <1>2, <1>3, <1>4

\* The ends of records from a position on.
EndsFrom(f, i) == Ends(f) \cap (i .. Len(f))

LEMMA EndsFinite ==
  ASSUME NEW f \in Bytes, NEW i \in Int
  PROVE  IsFiniteSet(EndsFrom(f, i)) /\ Cardinality(EndsFrom(f, i)) \in Nat
<1>1. IsFiniteSet(i .. Len(f)) /\ EndsFrom(f, i) \in SUBSET (i .. Len(f))
  <2>1. Len(f) \in Int
    BY DEF Bytes
  <2> QED
    BY <2>1, FS_Interval DEF EndsFrom
<1> QED
  BY <1>1, FS_Subset, FS_CardinalityType

\* A record ends with the file, or at the next end outside quotes.
LEMMA EndsSteps ==
  ASSUME NEW f \in Bytes, NEW i \in 1 .. Len(f), Starts(f, i)
  PROVE  LET r == ReadRecord(f, i)
         IN  Cardinality(EndsFrom(f, i))
               = (IF r.end <= Len(f) THEN 1 ELSE 0) + Cardinality(EndsFrom(f, r.next))
<1> DEFINE r == ReadRecord(f, i)
<1>1. Len(f) \in Nat /\ i \in 1 .. (Len(f) + 1)
  BY DEF Bytes
<1>2. /\ r.end \in i .. (Len(f) + 1) /\ r.next \in (i + 1) .. (Len(f) + 2)
      /\ r.end <= Len(f) => r.next = AfterLineEnd(f, r.end)
      /\ r.end > Len(f) => r.next = Len(f) + 1
  BY ReadRecordBounds
<1>3. /\ \A k \in i .. (r.end - 1) : k \notin Breaks(f)
      /\ r.end <= Len(f) => r.end \in Ends(f)
      /\ r.next = r.end + 2 => r.end + 1 \notin Ends(f)
  BY RecordCounts DEF Counted
<1>4. Ends(f) \subseteq Breaks(f)
  BY DEF Ends
<1> HIDE DEF r
<1>5. r.end \in Nat /\ r.next \in Nat
  BY <1>1, <1>2
<1>6. CASE r.end <= Len(f)
  <2>1. r.next \in {r.end + 1, r.end + 2}
    BY <1>2, <1>6 DEF AfterLineEnd
  <2>2. r.end \notin EndsFrom(f, r.next)
    BY <1>5, <2>1 DEF EndsFrom
  <2>3. EndsFrom(f, i) = EndsFrom(f, r.next) \cup {r.end}
    <3>1. ASSUME NEW k \in EndsFrom(f, i)
          PROVE  k \in EndsFrom(f, r.next) \cup {r.end}
      <4>1. k \in i .. Len(f) /\ k \in Ends(f) /\ k \in Breaks(f)
        BY <1>4 DEF EndsFrom
      <4>2. ~(k \in i .. (r.end - 1)) /\ ~(r.next = r.end + 2 /\ k = r.end + 1)
        BY <1>3, <4>1
      <4>3. k = r.end \/ k \in r.next .. Len(f)
        BY <1>1, <1>5, <2>1, <4>1, <4>2
      <4> QED
        BY <4>1, <4>3 DEF EndsFrom
    <3>2. EndsFrom(f, r.next) \subseteq EndsFrom(f, i)
      <4>1. \A k \in r.next .. Len(f) : k \in i .. Len(f)
        BY <1>1, <1>2, <1>5
      <4> QED
        BY <4>1 DEF EndsFrom
    <3>3. r.end \in EndsFrom(f, i)
      <4>1. r.end \in i .. Len(f)
        BY <1>1, <1>2, <1>6
      <4> QED
        BY <1>3, <1>6, <4>1 DEF EndsFrom
    <3> QED
      BY <3>1, <3>2, <3>3
  <2>4. IsFiniteSet(EndsFrom(f, r.next)) /\ Cardinality(EndsFrom(f, r.next)) \in Nat
    <3>1. r.next \in Int
      BY <1>5
    <3> QED
      BY <3>1, EndsFinite
  <2>5. Cardinality(EndsFrom(f, r.next) \cup {r.end}) = Cardinality(EndsFrom(f, r.next)) + 1
    BY <2>2, <2>4, FS_AddElement
  <2> QED
    BY <1>6, <2>3, <2>4, <2>5 DEF r
<1>7. CASE r.end > Len(f)
  <2>1. EndsFrom(f, i) = {}
    <3>1. r.end = Len(f) + 1 /\ r.end - 1 = Len(f)
      BY <1>1, <1>2, <1>7
    <3> QED
      BY <1>3, <1>4, <3>1 DEF EndsFrom
  <2>2. EndsFrom(f, r.next) = {}
    BY <1>1, <1>2, <1>7 DEF EndsFrom
  <2>3. ~(r.end <= Len(f))
    BY <1>1, <1>5, <1>7
  <2> QED
    BY <2>1, <2>2, <2>3, FS_EmptySet DEF r
<1> QED
  BY <1>1, <1>5, <1>6, <1>7

\* What ReaderCountsQuotes says, of the records from a position on.
CountsFrom(f, i) ==
  LET raw == RawFrom(f)[i]
  IN  /\ FlattenSeq(Texts(raw)) = KeptFrom(f, i)
      /\ Len(raw) = Cardinality(EndsFrom(f, i)) + (IF i > Len(f) \/ Len(f) \in Breaks(f) THEN 0 ELSE 1)
      /\ \A k \in DOMAIN raw : raw[k].open <=> ~IsEven(QuotesIn(raw[k].text))

LEMMA RecordEven ==
  ASSUME NEW f \in Bytes, NEW i \in 1 .. Len(f), Starts(f, i)
  PROVE  RecordAt(f, i).open <=> ~IsEven(QuotesIn(RecordAt(f, i).text))
<1> DEFINE r == ReadRecord(f, i)
<1>1. Len(f) \in Nat /\ i \in 1 .. (Len(f) + 1)
  BY DEF Bytes
<1>2. r.end \in i .. (Len(f) + 1)
  BY ReadRecordBounds
<1>3. (r.open <=> ~Outside(f, r.end)) /\ Outside(f, i)
  BY RecordCounts DEF Counted, Starts
<1> HIDE DEF r
<1>4. r.end - 1 \in (i - 1) .. Len(f) /\ r.end - 1 \in Int /\ i - 1 \in Int /\ i \in 1 .. ((r.end - 1) + 1)
  BY <1>1, <1>2
<1>5. QuotesIn(SubSeq(f, i, r.end - 1)) = Quotes(f, i, r.end - 1)
  BY <1>1, <1>4, QuotesOfPart
<1>6. Quotes(f, 1, r.end - 1) = Quotes(f, 1, i - 1) + Quotes(f, i, r.end - 1)
  BY <1>4, QuotesSplit
<1>7. Quotes(f, 1, i - 1) \in Nat /\ Quotes(f, i, r.end - 1) \in Nat
  BY <1>1, <1>4, QuotesType
<1>8. Outside(f, r.end) <=> IsEven(Quotes(f, i, r.end - 1))
  BY <1>3, <1>6, <1>7, EvenSum DEF Outside, IsEven
<1> QED
  BY <1>3, <1>5, <1>8 DEF RecordAt, TextAt, r

LEMMA RawCounts ==
  ASSUME NEW f \in Bytes
  PROVE  \A i \in 1 .. (Len(f) + 1) : Starts(f, i) => CountsFrom(f, i)
<1> DEFINE P == {i \in 1 .. (Len(f) + 1) : Starts(f, i) => CountsFrom(f, i)}
<1>1. Len(f) \in Nat /\ Len(f) + 1 \in Nat /\ \A k \in 1 .. (Len(f) + 1) : k \in Positions(f)
  BY DEF Bytes, Positions
<1>2. RawFrom(f)[Len(f) + 1] = <<>>
  <2>1. Len(f) + 1 \in Positions(f) /\ Len(f) + 1 > Len(f)
    BY <1>1
  <2>2. RawFrom(f)[Len(f) + 1] = RawStep(f, RawFrom(f), Len(f) + 1)
    BY <2>1, RawSteps
  <2> QED
    BY <2>1, <2>2 DEF RawStep
<1>3. ASSUME NEW i \in 1 .. (Len(f) + 1), \A k \in (i + 1) .. (Len(f) + 1) : k \in P, Starts(f, i)
      PROVE  CountsFrom(f, i)
  <2>1. CASE i > Len(f)
    <3>1. i = Len(f) + 1 /\ RawFrom(f)[i] = <<>>
      BY <1>1, <1>2, <2>1
    <3>2. EndsFrom(f, i) = {}
      BY <1>1, <2>1 DEF EndsFrom
    <3>3. Cardinality(EndsFrom(f, i)) = 0
      BY <3>2, FS_EmptySet
    <3>4. FlattenSeq(Texts(<<>>)) = KeptFrom(f, i)
      BY <3>1, TextsSteps, KeptSteps, FlattenEmpty
    <3>5. Len(<<>>) = 0 + 0 /\ DOMAIN <<>> = {}
      OBVIOUS
    <3> QED
      BY <2>1, <3>1, <3>3, <3>4, <3>5 DEF CountsFrom
  <2>2. CASE i <= Len(f)
    <3> DEFINE r == ReadRecord(f, i)
               rec == RecordAt(f, i)
               later == RawFrom(f)[r.next]
               rest(j) == IF j > Len(f) \/ Len(f) \in Breaks(f) THEN 0 ELSE 1
    <3>1. i \in 1 .. Len(f) /\ ~(i > Len(f))
      BY <1>1, <2>2
    <3>2. /\ r.end \in i .. (Len(f) + 1) /\ r.next \in (i + 1) .. (Len(f) + 2)
          /\ r.end <= Len(f) => r.next = AfterLineEnd(f, r.end)
          /\ r.end > Len(f) => r.next = Len(f) + 1
      BY <3>1, ReadRecordBounds
    <3>3. /\ \A k \in i .. (r.end - 1) : k \notin Breaks(f)
          /\ r.end <= Len(f) => r.end \in Breaks(f) /\ Starts(f, r.next)
          /\ r.next = r.end + 2 => r.end + 1 \in Breaks(f)
      BY <1>3, <3>1, RecordCounts DEF Counted
    <3>4. Cardinality(EndsFrom(f, i)) = (IF r.end <= Len(f) THEN 1 ELSE 0) + Cardinality(EndsFrom(f, r.next))
      BY <1>3, <3>1, EndsSteps
    <3>5. rec.open <=> ~IsEven(QuotesIn(rec.text))
      BY <1>3, <3>1, RecordEven
    <3>6. /\ rec \in RawRecord /\ rec.text = SubSeq(f, i, r.end - 1) /\ rec.text \in Bytes
      BY <3>1, RecordAtType DEF RecordAt, TextAt, RawRecord
    <3> HIDE DEF r, rec
    <3>7. r.end \in Nat /\ r.next \in 1 .. (Len(f) + 1) /\ r.next \in (i + 1) .. (Len(f) + 1)
      <4>1. CASE r.end > Len(f)
        BY <1>1, <3>2, <4>1
      <4>2. CASE r.end <= Len(f)
        BY <1>1, <3>2, <3>3, <4>2 DEF Starts
      <4> QED
        BY <1>1, <3>2, <4>1, <4>2
    <3>8. later \in Seq(RawRecord) /\ RawFrom(f)[i] = <<rec>> \o later
      BY <1>1, <3>1, <3>7, RawSteps DEF RawStep, r, rec
    <3>9. CountsFrom(f, r.next)
      <4>1. CASE r.end <= Len(f)
        BY <1>3, <3>3, <3>7, <4>1
      <4>2. CASE r.end > Len(f)
        <5>1. r.next = Len(f) + 1
          BY <3>2, <4>2
        <5>2. RawFrom(f)[r.next] = <<>>
          BY <1>2, <5>1
        <5>3. EndsFrom(f, r.next) = {}
          BY <1>1, <5>1 DEF EndsFrom
        <5>4. Cardinality(EndsFrom(f, r.next)) = 0
          BY <5>3, FS_EmptySet
        <5>5. FlattenSeq(Texts(<<>>)) = KeptFrom(f, r.next)
          BY <5>1, TextsSteps, KeptSteps, FlattenEmpty
        <5>6. Len(<<>>) = 0 + 0 /\ DOMAIN <<>> = {} /\ r.next > Len(f)
          BY <1>1, <5>1
        <5> QED
          BY <5>2, <5>4, <5>5, <5>6 DEF CountsFrom
      <4> QED
        BY <1>1, <3>7, <4>1, <4>2
    <3>10. /\ FlattenSeq(Texts(later)) = KeptFrom(f, r.next)
           /\ Len(later) = Cardinality(EndsFrom(f, r.next)) + rest(r.next)
           /\ \A k \in DOMAIN later : later[k].open <=> ~IsEven(QuotesIn(later[k].text))
      BY <3>9 DEF CountsFrom
    <3> DEFINE raw == RawFrom(f)[i]
    <3>11. FlattenSeq(Texts(raw)) = KeptFrom(f, i)
      <4>1. KeptFrom(f, i) = rec.text \o KeptFrom(f, r.end)
        <5>1. r.end \in 1 .. (Len(f) + 1) /\ i \in 1 .. r.end
          BY <1>1, <3>2, <3>7
        <5> QED
          BY <3>3, <3>6, <5>1, KeptRun
      <4>2. KeptFrom(f, r.end) = KeptFrom(f, r.next)
        <5>1. ASSUME NEW k \in 1 .. Len(f), k \in Breaks(f)
              PROVE  KeptFrom(f, k) = KeptFrom(f, k + 1)
          <6>1. k + 1 \in 1 .. (Len(f) + 1)
            BY <1>1
          <6>2. KeptFrom(f, k) = <<>> \o KeptFrom(f, k + 1)
            BY <5>1, KeptSteps DEF KeptAt
          <6>3. KeptFrom(f, k + 1) \in Bytes
            BY <6>1, KeptSteps
          <6> QED
            BY <6>2, <6>3, ConcatEmptySeq DEF Bytes
        <5>2. CASE r.end > Len(f)
          <6>1. r.end = r.next
            BY <1>1, <3>2, <5>2
          <6> QED
            BY <6>1
        <5>3. CASE r.end <= Len(f)
          <6>1. r.end \in 1 .. Len(f) /\ r.end \in Breaks(f) /\ r.next \in {r.end + 1, r.end + 2}
            BY <1>1, <3>2, <3>3, <5>3 DEF AfterLineEnd
          <6>2. KeptFrom(f, r.end) = KeptFrom(f, r.end + 1)
            BY <5>1, <6>1
          <6>3. CASE r.next = r.end + 2
            <7>1. r.end + 1 \in 1 .. Len(f) /\ r.end + 1 \in Breaks(f) /\ (r.end + 1) + 1 = r.next
              BY <1>1, <3>3, <3>7, <6>1, <6>3
            <7>2. KeptFrom(f, r.end + 1) = KeptFrom(f, (r.end + 1) + 1)
              BY <5>1, <7>1
            <7> QED
              BY <6>2, <7>1, <7>2
          <6> QED
            BY <6>1, <6>2, <6>3
        <5> QED
          BY <1>1, <3>7, <5>2, <5>3
      <4>3. Texts(raw) = <<rec.text>> \o Texts(later)
        BY <3>6, <3>8, TextsSteps
      <4>4. FlattenSeq(<<rec.text>> \o Texts(later)) = rec.text \o FlattenSeq(Texts(later))
        BY <3>6, <3>8, TextsSteps, FlattenFirst DEF Bytes
      <4> QED
        BY <3>10, <4>1, <4>2, <4>3, <4>4
    <3>12. Len(raw) = Cardinality(EndsFrom(f, i)) + rest(i)
      <4>1. Len(raw) = Len(later) + 1 /\ Len(later) \in Nat
        <5>1. <<rec>> \in Seq(RawRecord) /\ Len(<<rec>>) = 1
          BY <3>6, SmallSeqs
        <5> QED
          BY <3>8, <5>1, ConcatProperties
      <4>2. Cardinality(EndsFrom(f, r.next)) \in Nat
        <5>1. r.next \in Int
          BY <3>7
        <5> QED
          BY <5>1, EndsFinite
      <4>3. (IF r.end <= Len(f) THEN 1 ELSE 0) + rest(i) = 1 + rest(r.next)
        <5>1. CASE r.end > Len(f)
          <6>1. Len(f) \in i .. (r.end - 1) /\ ~(r.end <= Len(f)) /\ r.next > Len(f)
            BY <1>1, <3>1, <3>2, <3>7, <5>1
          <6>2. Len(f) \notin Breaks(f)
            BY <3>3, <6>1
          <6> QED
            BY <3>1, <6>1, <6>2
        <5>2. CASE r.end <= Len(f) /\ r.next > Len(f)
          <6>1. r.next \in {r.end + 1, r.end + 2} /\ r.next = Len(f) + 1
            BY <1>1, <3>2, <3>7, <5>2 DEF AfterLineEnd
          <6>2. r.end = Len(f) \/ (r.next = r.end + 2 /\ r.end + 1 = Len(f))
            BY <1>1, <3>7, <6>1
          <6>3. Len(f) \in Breaks(f)
            BY <3>3, <5>2, <6>2
          <6> QED
            BY <5>2, <6>3
        <5>3. CASE r.end <= Len(f) /\ ~(r.next > Len(f))
          BY <3>1, <5>3
        <5> QED
          BY <1>1, <3>7, <5>1, <5>2, <5>3
      <4>4. rest(i) \in Nat /\ rest(r.next) \in Nat
        OBVIOUS
      <4> DEFINE a == Cardinality(EndsFrom(f, i))
                 b == Cardinality(EndsFrom(f, r.next))
                 c == IF r.end <= Len(f) THEN 1 ELSE 0
                 d == rest(i)
                 e == rest(r.next)
      <4>5. /\ a = c + b /\ Len(later) = b + e /\ c + d = 1 + e /\ Len(raw) = Len(later) + 1
            /\ b \in Nat /\ d \in Nat /\ e \in Nat /\ c \in Nat
        BY <3>4, <3>10, <4>1, <4>2, <4>3, <4>4
      <4> HIDE DEF a, b, c, d, e, raw, later
      <4>6. Len(raw) = a + d
        BY <4>5
      <4> QED
        BY <4>6 DEF a, d
    <3>13. \A k \in DOMAIN raw : raw[k].open <=> ~IsEven(QuotesIn(raw[k].text))
      <4>1. /\ Len(later) \in Nat /\ DOMAIN later = 1 .. Len(later) /\ DOMAIN raw = 1 .. (Len(later) + 1)
            /\ \A k \in 1 .. (Len(later) + 1) : raw[k] = IF k = 1 THEN rec ELSE later[k - 1]
        BY <3>6, <3>8
      <4>2. \A k \in 1 .. (Len(later) + 1) : k = 1 \/ k - 1 \in 1 .. Len(later)
        BY <4>1
      <4> HIDE DEF raw, later
      <4> QED
        BY <3>5, <3>10, <4>1, <4>2
    <3> QED
      BY <3>11, <3>12, <3>13 DEF CountsFrom
  <2> QED
    BY <1>1, <2>1, <2>2
<1>4. \A i \in 1 .. (Len(f) + 1) : i \in P
  <2>1. ASSUME NEW i \in 1 .. (Len(f) + 1), \A k \in (i + 1) .. (Len(f) + 1) : k \in P
        PROVE  i \in P
    BY <1>3, <2>1
  <2> HIDE DEF P
  <2> QED
    BY <1>1, <2>1, DownwardInduction
<1> QED
  BY <1>4

\* All of it, for a whole file.
LEMMA FileCounts ==
  ASSUME NEW f \in Bytes
  PROVE  LET raw  == RawRecords(f)
             kept == [i \in DOMAIN f |-> IF i \in Breaks(f) THEN <<>> ELSE <<f[i]>>]
             rest == IF f = <<>> \/ Len(f) \in Breaks(f) THEN 0 ELSE 1
         IN  /\ FlattenSeq([k \in DOMAIN raw |-> raw[k].text]) = FlattenSeq(kept)
             /\ Len(raw) = Cardinality(Ends(f)) + rest
             /\ \A k \in DOMAIN raw : raw[k].open <=> ~IsEven(QuotesIn(raw[k].text))
<1>1. Len(f) \in Nat /\ 1 \in 1 .. (Len(f) + 1) /\ (f = <<>> <=> 1 > Len(f))
  BY EmptySeq DEF Bytes
<1>2. Starts(f, 1)
  BY <1>1, OutsideSteps DEF Starts
<1>3. CountsFrom(f, 1) /\ RawRecords(f) = RawFrom(f)[1]
  BY <1>1, <1>2, RawCounts, RawSteps
<1>4. EndsFrom(f, 1) = Ends(f)
  BY BreaksAreAt DEF EndsFrom, Ends
<1>5. KeptFrom(f, 1) = FlattenSeq([i \in DOMAIN f |-> IF i \in Breaks(f) THEN <<>> ELSE <<f[i]>>])
  BY KeptSteps DEF KeptAt
<1> QED
  BY <1>1, <1>3, <1>4, <1>5 DEF CountsFrom, Texts
=============================================================================
