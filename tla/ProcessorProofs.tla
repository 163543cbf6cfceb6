--------------------------- MODULE ProcessorProofs ---------------------------
(***************************************************************************)
(* What the parser makes of a file, for every set of tokens and every      *)
(* bound: the statements of a script are well formed, the script is the    *)
(* file, the tables change by whole files alone, and no sentence of the    *)
(* grammar is refused.                                                     *)
(*                                                                         *)
(* One invariant says what has been read so far: seen is what the finished *)
(* statements and the begun one look like when they are written back.  The *)
(* other follows the parser with a machine that every sentence gets        *)
(* through.                                                                *)
(***************************************************************************)
EXTENDS ProcessorProps, StorageProofs, FiniteSetTheorems

----------------------------------------------------------------------------
(***************************************************************************)
(* The types of what the parser builds.                                    *)
(***************************************************************************)
TokenWords  == {t.text : t \in {u \in Tokens : u.kind = "word"}}
TokenValues == {ValueOf(t) : t \in {u \in Tokens : IsValue(u)}}

ParsedStatement ==
  [kind : {"none", "INSERT", "SELECT"}, schema : TokenWords \cup {NoName},
   table : TokenWords \cup {NoName}, cols : Seq(TokenWords), all : BOOLEAN,
   vals : Seq(TokenValues)]

ParserTypes ==
  /\ place \in Places
  /\ tok \in Tokens \cup {End}
  /\ seen \in Seq(Tokens)
  /\ stmt \in ParsedStatement
  /\ script \in Seq(ParsedStatement)

----------------------------------------------------------------------------
(***************************************************************************)
(* What the begun statement holds at each place of the grammar.            *)
(***************************************************************************)
KindInPlace ==
  /\ place \in {"unread", "statement", "parsed"} => stmt = NoStatement
  /\ place \in {"into", "columns", "column", "columnNext", "values", "open", "value",
                "valueNext", "counted"} => stmt.kind = "INSERT"
  /\ place \in {"selected", "name", "nameNext", "from"} => stmt.kind = "SELECT"
  /\ place \in {"table", "dot", "member", "end"} => stmt.kind \in {"INSERT", "SELECT"}

NameInPlace ==
  /\ place \in {"into", "selected", "name", "nameNext", "from", "table", "dot", "member"} =>
       stmt.schema = NoName
  /\ place \in {"dot", "member"} => stmt.table # NoName

ListsInPlace ==
  /\ IsInjective(stmt.cols)
  /\ place \in {"into", "columns", "selected"} => stmt.cols = <<>>
  /\ place \in {"into", "columns", "column", "columnNext", "values", "open"} => stmt.vals = <<>>
  /\ place \in {"table", "dot", "member"} /\ stmt.kind = "INSERT" => stmt.cols = <<>> /\ stmt.vals = <<>>
  /\ place \in {"columnNext", "nameNext"} => stmt.cols # <<>>
  /\ place \in {"valueNext", "counted"} => stmt.vals # <<>>
  /\ place = "end" /\ stmt.kind = "INSERT" => stmt.vals # <<>> /\ Len(stmt.cols) \in {0, Len(stmt.vals)}
  /\ place \in {"selected", "name", "nameNext"} => ~stmt.all
  /\ place \in {"from", "table", "dot", "member", "end"} /\ stmt.kind = "SELECT" =>
       (stmt.all <=> stmt.cols = <<>>)

\* No list outgrows its bound: a full one is not offered a comma.
ListsFit ==
  /\ Len(stmt.cols) <= MaxList /\ Len(stmt.vals) <= MaxList
  /\ place \in {"column", "name"} => Len(stmt.cols) < MaxList
  /\ place \in {"columnNext", "nameNext"} /\ tok = Mark(",") => Len(stmt.cols) < MaxList
  /\ place = "value" => Len(stmt.vals) < MaxList
  /\ place = "valueNext" /\ tok = Mark(",") => Len(stmt.vals) < MaxList

InPlace ==
  /\ ParserTypes
  /\ KindInPlace
  /\ NameInPlace
  /\ ListsInPlace
  /\ ListsFit
  /\ StatementsWellFormed

----------------------------------------------------------------------------
(***************************************************************************)
(* What has been read.                                                     *)
(***************************************************************************)
CommaMark     == Mark(",")
SemicolonMark == Mark(";")

\* A list that goes on.
GoingOn(items) == IF items = <<>> THEN <<>> ELSE List(items) \o <<CommaMark>>

Selected(st) ==
  <<Keyword("SELECT")>> \o (IF st.all THEN <<Mark("*")>> ELSE List(WordList(st.cols)))

Opening(st) ==
  IF st.kind = "INSERT" THEN <<Keyword("INSERT"), Keyword("INTO")>>
                        ELSE Selected(st) \o <<Keyword("FROM")>>

Columns(st) == IF st.cols = <<>> THEN <<>> ELSE Parenthesized(WordList(st.cols))

LiteralList(vals) == [i \in DOMAIN vals |-> WriteLiteral(vals[i])]

Valued(st) == Opening(st) \o Target(st) \o Columns(st) \o <<Keyword("VALUES")>>

\* A statement, written back as far as it has been read at a place.
ReadAs(there, st) ==
  CASE there \in {"unread", "statement", "parsed"} -> <<>>
    [] there = "into"       -> <<Keyword("INSERT")>>
    [] there = "selected"   -> <<Keyword("SELECT")>>
    [] there = "name"       -> <<Keyword("SELECT")>> \o GoingOn(WordList(st.cols))
    [] there = "nameNext"   -> <<Keyword("SELECT")>> \o List(WordList(st.cols))
    [] there = "from"       -> Selected(st)
    [] there = "table"      -> Opening(st)
    [] there = "dot"        -> Opening(st) \o <<Word(st.table)>>
    [] there = "member"     -> Opening(st) \o <<Word(st.table), Mark(".")>>
    [] there = "columns"    -> Opening(st) \o Target(st)
    [] there = "column"     -> Opening(st) \o Target(st)
                                 \o (<<Mark("(")>> \o GoingOn(WordList(st.cols)))
    [] there = "columnNext" -> Opening(st) \o Target(st)
                                 \o (<<Mark("(")>> \o List(WordList(st.cols)))
    [] there = "values"     -> Opening(st) \o Target(st) \o Columns(st)
    [] there = "open"       -> Valued(st)
    [] there = "value"      -> Valued(st) \o (<<Mark("(")>> \o GoingOn(LiteralList(st.vals)))
    [] there = "valueNext"  -> Valued(st) \o (<<Mark("(")>> \o List(LiteralList(st.vals)))
    [] there = "counted"    -> Valued(st) \o Parenthesized(LiteralList(st.vals))
    [] there = "end"        -> IF st.kind = "INSERT"
                               THEN Valued(st) \o Parenthesized(LiteralList(st.vals))
                               ELSE Opening(st) \o Target(st)
    [] there = "failed"     -> <<>>

\* The begun statement, and those that are finished.
Begun == ReadAs(place, stmt)

WrittenAll(sts) == FlattenSeq([k \in DOMAIN sts |-> Written(sts[k])])

Finished == WrittenAll(script)

Matches(ts, ws) == Len(ts) = Len(ws) /\ \A i \in DOMAIN ts : Spells(ts[i], ws[i])

ReadSoFar ==
  /\ place # "failed" => Matches(seen, Finished \o Begun)
  /\ place = "parsed" => tok = End

\* The program around the parser.
ProgramInStep ==
  /\ outcome \in [{Main} -> {"running", "ok", "failed"}]
  /\ outcome[Main] # "running" => place \in {"unread", "parsed", "failed"}
  /\ outcome[Main] = "ok" => place = "parsed"
  /\ outcome[Main] = "running" => tables = orig /\ shown[Main] = <<>>
  /\ tables # orig \/ shown[Main] # <<>> => place = "parsed"

----------------------------------------------------------------------------
(***************************************************************************)
(* The tokens.                                                             *)
(***************************************************************************)
Tokened == tok \in Tokens \cup {End}

LEMMA IdentifierToken ==
  ASSUME Tokened, IsIdentifier
  PROVE  /\ tok \in Tokens /\ tok = Word(tok.text)
         /\ tok.text \in TokenWords /\ tok.text # NoName
  BY WordsHaveNames DEF Tokened, IsIdentifier, End, TokenWords

LEMMA KeywordToken ==
  ASSUME Tokened, NEW k, Is(k)
  PROVE  tok \in Tokens /\ Spells(tok, Keyword(k))
  BY DEF Tokened, Is, End, Spells, Keyword

LEMMA MarkToken ==
  ASSUME Tokened, NEW ch, tok = Mark(ch)
  PROVE  tok \in Tokens /\ Spells(tok, Mark(ch))
  BY DEF Tokened, End, Spells, Mark

LEMMA ValueToken ==
  ASSUME Tokened, IsValue(tok)
  PROVE  tok \in Tokens /\ ValueOf(tok) \in TokenValues
  BY DEF Tokened, IsValue, End, TokenValues

\* The next token, which is no comma after a full list.
LEMMA ConsumeTypes ==
  ASSUME Consume, tok \in Tokens, seen \in Seq(Tokens)
  PROVE  /\ seen' \in Seq(Tokens)
         /\ tok' \in Tokens \cup {End}
         /\ tok' = Mark(",") => ~Full
<1>1. End # Mark(",")
  <2>1. End.kind # Mark(",").kind
    BY DEF End, Mark
  <2> QED
    BY <2>1
<1>2. seen' \in Seq(Tokens) /\ tok' \in Offered
  BY DEF Consume
<1>3. CASE Offered = {End}
  BY <1>1, <1>2, <1>3
<1>4. CASE Offered = {t \in Tokens \cup {End} :
                       /\ t = Mark(",") => ~Full
                       /\ place' \in NamePlaces /\ t.kind = "word" => t.text \in NameWords}
  BY <1>2, <1>4
<1> QED
  BY <1>3, <1>4 DEF Offered

----------------------------------------------------------------------------
(***************************************************************************)
(* Every action leaves the statement as the next place has it.             *)
(***************************************************************************)
LEMMA NewNameInjective ==
  ASSUME NEW X, NEW s \in Seq(X), NEW x \in X, IsInjective(s), x \notin ToSet(s)
  PROVE  IsInjective(Append(s, x))
<1>1. DOMAIN s = 1 .. Len(s) /\ DOMAIN Append(s, x) = 1 .. (Len(s) + 1) /\ Len(s) \in Nat
  <2>1. Append(s, x) \in Seq(X) /\ Len(Append(s, x)) = Len(s) + 1
    OBVIOUS
  <2> QED
    BY <2>1, LenProperties
<1>2. \A i \in 1 .. Len(s) : Append(s, x)[i] = s[i] /\ s[i] # x
  BY <1>1 DEF ToSet
<1>3. Append(s, x)[Len(s) + 1] = x
  OBVIOUS
<1> SUFFICES ASSUME NEW i \in DOMAIN Append(s, x), NEW j \in DOMAIN Append(s, x),
                    Append(s, x)[i] = Append(s, x)[j]
             PROVE  i = j
  BY DEF IsInjective
<1>4. CASE i = Len(s) + 1 \/ j = Len(s) + 1
  BY <1>1, <1>2, <1>3, <1>4
<1>5. CASE i \in 1 .. Len(s) /\ j \in 1 .. Len(s)
  BY <1>1, <1>2, <1>5 DEF IsInjective
<1> QED
  BY <1>1, <1>4, <1>5

LEMMA FailInPlace ==
  ASSUME InPlace, Fail
  PROVE  InPlace'
<1>1. place' = "failed" /\ UNCHANGED <<tok, seen, stmt, script>>
  BY DEF Fail, GoTo
<1> QED
  BY <1>1 DEF InPlace, ParserTypes, KindInPlace, NameInPlace, ListsInPlace, ListsFit,
              StatementsWellFormed, Places

\* The parser goes on with the same statement.
LEMMA MoveInPlace ==
  ASSUME InPlace, UNCHANGED <<stmt, script>>, place' \in Places,
         (Consume /\ tok \in Tokens) \/ Stay,
         KindInPlace', NameInPlace', ListsInPlace',
         place' \in {"column", "name"} => Len(stmt.cols) < MaxList,
         place' = "value" => Len(stmt.vals) < MaxList,
         Stay => place' \notin {"columnNext", "nameNext", "valueNext"}
  PROVE  InPlace'
<1>1. ParserTypes' /\ StatementsWellFormed'
  BY ConsumeTypes DEF InPlace, ParserTypes, Stay, StatementsWellFormed
<1>2. ListsFit'
  <2>1. Len(stmt.cols) \in Nat /\ Len(stmt.vals) \in Nat /\ MaxList \in Nat
    BY ParserBounds, LenProperties DEF InPlace, ParserTypes, ParsedStatement
  <2>2. CASE Stay
    BY <2>2 DEF InPlace, ListsFit
  <2>3. CASE Consume /\ tok \in Tokens
    <3>1. tok' = Mark(",") => ~Full
      BY <2>3, ConsumeTypes DEF InPlace, ParserTypes
    <3>2. Len(stmt.cols) <= MaxList /\ Len(stmt.vals) <= MaxList /\ stmt' = stmt
      BY DEF InPlace, ListsFit
    <3>3. ~Full => /\ place' \in {"columnNext", "nameNext"} => Len(stmt.cols) < MaxList
                   /\ place' = "valueNext" => Len(stmt.vals) < MaxList
      BY <2>1, <3>2 DEF Full
    <3> HIDE DEF Full
    <3> QED
      BY <3>1, <3>2, <3>3 DEF ListsFit
  <2> QED
    BY <2>2, <2>3
<1> QED
  BY <1>1, <1>2 DEF InPlace

\* A token that must be there, and the end of a list.
LEMMA ExpectedInPlace ==
  ASSUME InPlace, Into \/ From \/ Values \/ Open
  PROVE  InPlace'
<1> USE DEF Places, KindInPlace, NameInPlace, ListsInPlace
<1>1. CASE Fail
  BY <1>1, FailInPlace
<1>2. Tokened /\ MaxList \in Nat \ {0}
  BY ParserBounds DEF InPlace, ParserTypes, Tokened
<1>3. CASE Into /\ ~Fail
  <2>1. /\ place = "into" /\ place' = "table" /\ UNCHANGED <<stmt, script>>
        /\ Consume /\ tok \in Tokens
    BY <1>2, <1>3, KeywordToken DEF Into, Expect, GoTo
  <2>2. KindInPlace' /\ NameInPlace' /\ ListsInPlace'
    BY <2>1 DEF InPlace
  <2> QED
    BY <2>1, <2>2, MoveInPlace
<1>4. CASE From /\ ~Fail
  <2>1. /\ place = "from" /\ place' = "table" /\ UNCHANGED <<stmt, script>>
        /\ Consume /\ tok \in Tokens
    BY <1>2, <1>4, KeywordToken DEF From, Expect, GoTo
  <2>2. KindInPlace' /\ NameInPlace' /\ ListsInPlace'
    BY <2>1 DEF InPlace
  <2> QED
    BY <2>1, <2>2, MoveInPlace
<1>5. CASE Values /\ ~Fail
  <2>1. /\ place = "values" /\ place' = "open" /\ UNCHANGED <<stmt, script>>
        /\ Consume /\ tok \in Tokens
    BY <1>2, <1>5, KeywordToken DEF Values, Expect, GoTo
  <2>2. KindInPlace' /\ NameInPlace' /\ ListsInPlace'
    BY <2>1 DEF InPlace
  <2> QED
    BY <2>1, <2>2, MoveInPlace
<1>6. CASE Open /\ ~Fail
  <2>1. /\ place = "open" /\ place' = "value" /\ UNCHANGED <<stmt, script>>
        /\ Consume /\ tok \in Tokens
    BY <1>2, <1>6, MarkToken DEF Open, Expect, GoTo
  <2>2. KindInPlace' /\ NameInPlace' /\ ListsInPlace'
    BY <2>1 DEF InPlace
  <2>3. Len(stmt.vals) < MaxList
    BY <1>2, <2>1 DEF InPlace
  <2> QED
    BY <2>1, <2>2, <2>3, MoveInPlace
<1> QED
  BY <1>1, <1>3, <1>4, <1>5, <1>6

LEMMA GoingOnInPlace ==
  ASSUME InPlace, ParseColumnNext \/ ParseValueNext \/ ParseSelectNext
  PROVE  InPlace'
<1> USE DEF Places, KindInPlace, NameInPlace, ListsInPlace
<1>1. CASE Fail
  BY <1>1, FailInPlace
<1>2. Tokened
  BY DEF InPlace, ParserTypes, Tokened
<1>3. CASE ParseColumnNext /\ ~Fail
  <2>1. /\ place = "columnNext" /\ UNCHANGED <<stmt, script>> /\ Consume /\ tok \in Tokens
        /\ (place' = "column" /\ tok = Mark(",")) \/ place' = "values"
    BY <1>2, <1>3, MarkToken DEF ParseColumnNext, ParseNext, GoTo
  <2>2. KindInPlace' /\ NameInPlace' /\ ListsInPlace'
    BY <2>1 DEF InPlace
  <2>3. place' = "column" => Len(stmt.cols) < MaxList
    BY <2>1 DEF InPlace, ListsFit
  <2> QED
    BY <2>1, <2>2, <2>3, MoveInPlace
<1>4. CASE ParseValueNext /\ ~Fail
  <2>1. /\ place = "valueNext" /\ UNCHANGED <<stmt, script>> /\ Consume /\ tok \in Tokens
        /\ (place' = "value" /\ tok = Mark(",")) \/ place' = "counted"
    BY <1>2, <1>4, MarkToken DEF ParseValueNext, ParseNext, GoTo
  <2>2. KindInPlace' /\ NameInPlace' /\ ListsInPlace'
    BY <2>1 DEF InPlace
  <2>3. place' = "value" => Len(stmt.vals) < MaxList
    BY <2>1 DEF InPlace, ListsFit
  <2> QED
    BY <2>1, <2>2, <2>3, MoveInPlace
<1>5. CASE ParseSelectNext
  <2>1. /\ place = "nameNext" /\ UNCHANGED <<stmt, script>>
        /\ \/ place' = "name" /\ tok = Mark(",") /\ Consume /\ tok \in Tokens
           \/ place' = "from" /\ Stay
    BY <1>2, <1>5, MarkToken DEF ParseSelectNext, GoTo
  <2>2. KindInPlace' /\ NameInPlace' /\ ListsInPlace'
    BY <2>1 DEF InPlace
  <2>3. place' = "name" => Len(stmt.cols) < MaxList
    BY <2>1 DEF InPlace, ListsFit
  <2> QED
    BY <2>1, <2>2, <2>3, MoveInPlace
<1> QED
  BY <1>1, <1>3, <1>4, <1>5

\* An optional part that is there or not.
LEMMA OptionInPlace ==
  ASSUME InPlace, ParseDot \/ ParseColumnList \/ CheckCounts
  PROVE  InPlace'
<1> USE DEF Places, KindInPlace, NameInPlace, ListsInPlace
<1>1. CASE Fail
  BY <1>1, FailInPlace
<1>2. Tokened /\ MaxList \in Nat \ {0}
  BY ParserBounds DEF InPlace, ParserTypes, Tokened
<1>3. CASE ParseDot
  <2>1. /\ place = "dot" /\ UNCHANGED <<stmt, script>>
        /\ \/ place' = "member" /\ Consume /\ tok \in Tokens
           \/ place' = AfterName /\ Stay
    BY <1>2, <1>3, MarkToken DEF ParseDot, GoTo
  <2>2. stmt.kind \in {"INSERT", "SELECT"}
    BY <2>1 DEF InPlace
  <2>3. \/ place' = "member"
        \/ place' = "columns" /\ stmt.kind = "INSERT"
        \/ place' = "end" /\ stmt.kind = "SELECT"
    BY <2>1, <2>2 DEF AfterName
  <2>4. KindInPlace' /\ NameInPlace' /\ ListsInPlace'
    BY <2>1, <2>2, <2>3 DEF InPlace
  <2> QED
    BY <2>1, <2>3, <2>4, MoveInPlace
<1>4. CASE ParseColumnList
  <2>1. /\ place = "columns" /\ UNCHANGED <<stmt, script>>
        /\ \/ place' = "column" /\ Consume /\ tok \in Tokens
           \/ place' = "values" /\ Stay
    BY <1>2, <1>4, MarkToken DEF ParseColumnList, GoTo
  <2>2. KindInPlace' /\ NameInPlace' /\ ListsInPlace'
    BY <2>1 DEF InPlace
  <2>3. Len(stmt.cols) < MaxList
    BY <1>2, <2>1 DEF InPlace
  <2> QED
    BY <2>1, <2>2, <2>3, MoveInPlace
<1>5. CASE CheckCounts /\ ~Fail
  <2>1. /\ place = "counted" /\ UNCHANGED <<stmt, script>> /\ place' = "end" /\ Stay
        /\ stmt.cols = <<>> \/ Len(stmt.vals) = Len(stmt.cols)
    BY <1>5 DEF CheckCounts, GoTo
  <2>2. KindInPlace' /\ NameInPlace' /\ ListsInPlace'
    BY <2>1 DEF InPlace
  <2> QED
    BY <2>1, <2>2, MoveInPlace
<1> QED
  BY <1>1, <1>3, <1>4, <1>5

\* The parser takes a token into the statement.
LEMMA TakeInPlace ==
  ASSUME InPlace, Consume, tok \in Tokens, UNCHANGED script, place' \in Places,
         stmt' \in ParsedStatement, KindInPlace', NameInPlace', ListsInPlace',
         Len(stmt'.cols) <= MaxList, Len(stmt'.vals) <= MaxList,
         place' \notin {"column", "name", "value"}
  PROVE  InPlace'
<1>1. ParserTypes' /\ StatementsWellFormed'
  BY ConsumeTypes DEF InPlace, ParserTypes, StatementsWellFormed
<1>2. ListsFit'
  <2>1. Len(stmt'.cols) \in Nat /\ Len(stmt'.vals) \in Nat /\ MaxList \in Nat
    BY ParserBounds, LenProperties DEF ParsedStatement
  <2>2. tok' = Mark(",") => ~Full
    BY ConsumeTypes DEF InPlace, ParserTypes
  <2>3. ~Full => /\ place' \in {"columnNext", "nameNext"} => Len(stmt'.cols) < MaxList
                 /\ place' = "valueNext" => Len(stmt'.vals) < MaxList
    BY <2>1 DEF Full
  <2> HIDE DEF Full
  <2> QED
    BY <2>2, <2>3 DEF ListsFit
<1> QED
  BY <1>1, <1>2 DEF InPlace

LEMMA ParseStatementInPlace ==
  ASSUME InPlace, ParseStatement
  PROVE  InPlace'
<1> USE DEF Places, KindInPlace, NameInPlace, ListsInPlace
<1>1. CASE Fail
  BY <1>1, FailInPlace
<1>2. Tokened /\ place = "statement" /\ stmt = NoStatement /\ stmt \in ParsedStatement
  BY DEF InPlace, ParserTypes, Tokened, ParseStatement
<1>3. CASE place' = "parsed" /\ UNCHANGED <<tok, seen, stmt, script>>
  <2>1. KindInPlace' /\ NameInPlace' /\ ListsInPlace'
    BY <1>2, <1>3 DEF InPlace
  <2> QED
    BY <1>3, <2>1, MoveInPlace DEF Stay
<1>4. ASSUME NEW k \in {"INSERT", "SELECT"}, Is(k), Consume, UNCHANGED script,
             stmt' = [NoStatement EXCEPT !.kind = k],
             place' = IF k = "INSERT" THEN "into" ELSE "selected"
      PROVE  InPlace'
  <2>1. tok \in Tokens
    BY <1>2, <1>4, KeywordToken
  <2>2. stmt' \in ParsedStatement
    BY <1>2, <1>4 DEF ParsedStatement
  <2>3. /\ stmt'.kind = k /\ stmt'.schema = NoName /\ stmt'.cols = <<>> /\ stmt'.vals = <<>>
        /\ ~stmt'.all
    BY <1>4 DEF NoStatement
  <2>4. KindInPlace' /\ NameInPlace'
    BY <1>4, <2>3
  <2>5. ListsInPlace'
    BY <1>4, <2>3 DEF IsInjective
  <2>6. Len(stmt'.cols) <= MaxList /\ Len(stmt'.vals) <= MaxList
    BY <2>3, ParserBounds
  <2> QED
    BY <1>4, <2>1, <2>2, <2>4, <2>5, <2>6, TakeInPlace
<1> QED
  BY <1>1, <1>3, <1>4 DEF ParseStatement, GoTo

LEMMA ParseTableInPlace ==
  ASSUME InPlace, ParseTable
  PROVE  InPlace'
<1> USE DEF Places, KindInPlace, NameInPlace, ListsInPlace
<1>1. CASE Fail
  BY <1>1, FailInPlace
<1>2. CASE ~Fail
  <2>1. /\ place = "table" /\ place' = "dot" /\ stmt' = [stmt EXCEPT !.table = tok.text]
        /\ UNCHANGED script /\ Consume /\ IsIdentifier /\ Tokened /\ stmt \in ParsedStatement
    BY <1>2 DEF ParseTable, GoTo, InPlace, ParserTypes, Tokened
  <2>2. tok \in Tokens /\ tok.text \in TokenWords /\ tok.text # NoName
    BY <2>1, IdentifierToken
  <2>3. /\ stmt' \in ParsedStatement /\ stmt'.table = tok.text /\ stmt'.kind = stmt.kind
        /\ stmt'.schema = stmt.schema /\ stmt'.cols = stmt.cols /\ stmt'.all = stmt.all
        /\ stmt'.vals = stmt.vals
    BY <2>1, <2>2 DEF ParsedStatement
  <2>4. KindInPlace' /\ NameInPlace' /\ ListsInPlace'
    BY <2>1, <2>2, <2>3 DEF InPlace
  <2>5. Len(stmt'.cols) <= MaxList /\ Len(stmt'.vals) <= MaxList
    BY <2>3 DEF InPlace, ListsFit
  <2> QED
    BY <2>1, <2>2, <2>3, <2>4, <2>5, TakeInPlace
<1> QED
  BY <1>1, <1>2

LEMMA ParseMemberInPlace ==
  ASSUME InPlace, ParseMember
  PROVE  InPlace'
<1> USE DEF Places, KindInPlace, NameInPlace, ListsInPlace
<1>1. CASE Fail
  BY <1>1, FailInPlace
<1>2. CASE ~Fail
  <2>1. /\ place = "member" /\ place' = AfterName
        /\ stmt' = [stmt EXCEPT !.schema = stmt.table, !.table = tok.text]
        /\ UNCHANGED script /\ Consume /\ IsIdentifier /\ Tokened /\ stmt \in ParsedStatement
    BY <1>2 DEF ParseMember, GoTo, InPlace, ParserTypes, Tokened
  <2>2. tok \in Tokens /\ tok.text \in TokenWords
    BY <2>1, IdentifierToken
  <2>3. /\ stmt' \in ParsedStatement /\ stmt'.kind = stmt.kind
        /\ stmt'.cols = stmt.cols /\ stmt'.all = stmt.all /\ stmt'.vals = stmt.vals
    BY <2>1, <2>2 DEF ParsedStatement
  <2>4. \/ place' = "columns" /\ stmt.kind = "INSERT"
        \/ place' = "end" /\ stmt.kind = "SELECT"
    BY <2>1 DEF InPlace, AfterName
  <2>5. KindInPlace' /\ NameInPlace' /\ ListsInPlace'
    BY <2>1, <2>3, <2>4 DEF InPlace
  <2>6. Len(stmt'.cols) <= MaxList /\ Len(stmt'.vals) <= MaxList
    BY <2>3 DEF InPlace, ListsFit
  <2> QED
    BY <2>1, <2>2, <2>3, <2>4, <2>5, <2>6, TakeInPlace
<1> QED
  BY <1>1, <1>2

LEMMA ParseNameInPlace ==
  ASSUME InPlace, ParseColumn \/ ParseSelectName
  PROVE  InPlace'
<1> USE DEF Places, KindInPlace, NameInPlace, ListsInPlace
<1>1. CASE Fail
  BY <1>1, FailInPlace
<1>2. CASE ~Fail
  <2>1. /\ \/ place = "column" /\ place' = "columnNext"
           \/ place = "name" /\ place' = "nameNext"
        /\ stmt' = [stmt EXCEPT !.cols = Append(@, tok.text)]
        /\ UNCHANGED script /\ Consume /\ IsIdentifier /\ tok.text \notin ToSet(stmt.cols)
        /\ Tokened /\ stmt \in ParsedStatement
    BY <1>2 DEF ParseColumn, ParseSelectName, ParseName, NewName, GoTo, InPlace, ParserTypes, Tokened
  <2>2. tok \in Tokens /\ tok.text \in TokenWords
    BY <2>1, IdentifierToken
  <2>3. /\ stmt' \in ParsedStatement /\ stmt'.kind = stmt.kind /\ stmt'.schema = stmt.schema
        /\ stmt'.cols = Append(stmt.cols, tok.text) /\ stmt'.all = stmt.all
        /\ stmt'.vals = stmt.vals /\ stmt.cols \in Seq(TokenWords)
    <3>1. stmt.cols \in Seq(TokenWords)
      BY <2>1 DEF ParsedStatement
    <3>2. Append(stmt.cols, tok.text) \in Seq(TokenWords)
      BY <2>2, <3>1, AppendProperties
    <3> QED
      BY <2>1, <3>1, <3>2 DEF ParsedStatement
  <2>4. /\ IsInjective(stmt'.cols) /\ stmt'.cols # <<>>
        /\ Len(stmt'.cols) = Len(stmt.cols) + 1 /\ Len(stmt.cols) \in Nat
    <3>1. IsInjective(stmt.cols)
      BY DEF InPlace
    <3>2. IsInjective(Append(stmt.cols, tok.text))
      BY <2>1, <2>2, <2>3, <3>1, NewNameInjective
    <3> QED
      BY <2>2, <2>3, <3>2, AppendProperties, LenProperties
  <2>5. KindInPlace' /\ NameInPlace'
    BY <2>1, <2>3 DEF InPlace
  <2>6. ListsInPlace'
    BY <2>1, <2>3, <2>4 DEF InPlace
  <2>7. Len(stmt'.cols) <= MaxList /\ Len(stmt'.vals) <= MaxList
    <3>1. Len(stmt.cols) < MaxList /\ Len(stmt.vals) <= MaxList /\ MaxList \in Nat
      BY <2>1, ParserBounds DEF InPlace, ListsFit
    <3> QED
      BY <2>3, <2>4, <3>1
  <2> QED
    BY <2>1, <2>2, <2>3, <2>5, <2>6, <2>7, TakeInPlace
<1> QED
  BY <1>1, <1>2

LEMMA ParseValueInPlace ==
  ASSUME InPlace, ParseValue
  PROVE  InPlace'
<1> USE DEF Places, KindInPlace, NameInPlace, ListsInPlace
<1>1. CASE Fail
  BY <1>1, FailInPlace
<1>2. CASE ~Fail
  <2>1. /\ place = "value" /\ place' = "valueNext"
        /\ stmt' = [stmt EXCEPT !.vals = Append(@, ValueOf(tok))]
        /\ UNCHANGED script /\ Consume /\ IsValue(tok) /\ Tokened /\ stmt \in ParsedStatement
    BY <1>2 DEF ParseValue, GoTo, InPlace, ParserTypes, Tokened
  <2>2. tok \in Tokens /\ ValueOf(tok) \in TokenValues
    BY <2>1, ValueToken
  <2>3. /\ stmt' \in ParsedStatement /\ stmt'.kind = stmt.kind /\ stmt'.schema = stmt.schema
        /\ stmt'.cols = stmt.cols /\ stmt'.all = stmt.all
        /\ stmt'.vals = Append(stmt.vals, ValueOf(tok)) /\ stmt.vals \in Seq(TokenValues)
    <3>1. stmt.vals \in Seq(TokenValues)
      BY <2>1 DEF ParsedStatement
    <3>2. Append(stmt.vals, ValueOf(tok)) \in Seq(TokenValues)
      BY <2>2, <3>1, AppendProperties
    <3> QED
      BY <2>1, <3>1, <3>2 DEF ParsedStatement
  <2>4. /\ stmt'.vals # <<>>
        /\ Len(stmt'.vals) = Len(stmt.vals) + 1 /\ Len(stmt.vals) \in Nat
    BY <2>2, <2>3, AppendProperties, LenProperties
  <2>5. KindInPlace' /\ NameInPlace' /\ ListsInPlace'
    BY <2>1, <2>3, <2>4 DEF InPlace
  <2>6. Len(stmt'.cols) <= MaxList /\ Len(stmt'.vals) <= MaxList
    BY <2>1, <2>3, <2>4, ParserBounds DEF InPlace, ListsFit
  <2> QED
    BY <2>1, <2>2, <2>3, <2>5, <2>6, TakeInPlace
<1> QED
  BY <1>1, <1>2

LEMMA ParseSelectColumnsInPlace ==
  ASSUME InPlace, ParseSelectColumns
  PROVE  InPlace'
<1> USE DEF Places, KindInPlace, NameInPlace, ListsInPlace
<1>1. /\ place = "selected" /\ Tokened /\ stmt \in ParsedStatement /\ stmt.kind = "SELECT"
      /\ stmt.cols = <<>> /\ MaxList \in Nat \ {0}
  BY ParserBounds DEF ParseSelectColumns, InPlace, ParserTypes, Tokened
<1>2. CASE tok = Mark("*")
  <2>1. /\ place' = "from" /\ stmt' = [stmt EXCEPT !.all = TRUE] /\ UNCHANGED script /\ Consume
    BY <1>2 DEF ParseSelectColumns, GoTo
  <2>2. tok \in Tokens
    BY <1>1, <1>2, MarkToken
  <2>3. /\ stmt' \in ParsedStatement /\ stmt'.kind = stmt.kind /\ stmt'.schema = stmt.schema
        /\ stmt'.cols = stmt.cols /\ stmt'.all /\ stmt'.vals = stmt.vals
    BY <1>1, <2>1 DEF ParsedStatement
  <2>4. KindInPlace' /\ NameInPlace' /\ ListsInPlace'
    BY <1>1, <2>1, <2>3 DEF InPlace
  <2>5. Len(stmt'.cols) <= MaxList /\ Len(stmt'.vals) <= MaxList
    BY <2>3 DEF InPlace, ListsFit
  <2> QED
    BY <2>1, <2>2, <2>3, <2>4, <2>5, TakeInPlace
<1>3. CASE tok # Mark("*")
  <2>1. place' = "name" /\ Stay /\ UNCHANGED <<stmt, script>>
    BY <1>3 DEF ParseSelectColumns, GoTo
  <2>2. KindInPlace' /\ NameInPlace' /\ ListsInPlace'
    BY <1>1, <2>1 DEF InPlace
  <2>3. Len(stmt.cols) < MaxList
    BY <1>1
  <2> QED
    BY <2>1, <2>2, <2>3, MoveInPlace
<1> QED
  BY <1>2, <1>3

\* The statement that has ended is well formed.
LEMMA EndStatementInPlace ==
  ASSUME InPlace, EndStatement
  PROVE  InPlace'
<1> USE DEF Places, KindInPlace, NameInPlace, ListsInPlace
<1>1. CASE Fail
  BY <1>1, FailInPlace
<1>2. CASE ~Fail
  <2>1. /\ place = "end" /\ place' = "statement" /\ tok = Mark(";")
        /\ script' = Append(script, stmt) /\ stmt' = NoStatement /\ Consume
        /\ Tokened /\ stmt \in ParsedStatement /\ script \in Seq(ParsedStatement)
        /\ seen \in Seq(Tokens)
    BY <1>2 DEF EndStatement, GoTo, InPlace, ParserTypes, Tokened
  <2>2. tok \in Tokens
    BY <2>1, MarkToken
  <2>3. WellFormed(stmt)
    BY <2>1 DEF InPlace, WellFormed
  <2>4. StatementsWellFormed'
    <3>1. ToSet(script') = ToSet(script) \cup {stmt}
      <4>1. DOMAIN script = 1 .. Len(script) /\ Len(script) \in Nat
        BY <2>1, LenProperties
      <4>2. /\ DOMAIN script' = 1 .. (Len(script) + 1)
            /\ \A k \in 1 .. Len(script) : script'[k] = script[k]
            /\ script'[Len(script) + 1] = stmt
        <5>1. script \in Seq(ParsedStatement) /\ stmt \in ParsedStatement
          BY <2>1
        <5>2. /\ Append(script, stmt) \in Seq(ParsedStatement)
              /\ Len(Append(script, stmt)) = Len(script) + 1
              /\ Append(script, stmt)[Len(script) + 1] = stmt
              /\ \A k \in 1 .. Len(script) : Append(script, stmt)[k] = script[k]
          BY <5>1, AppendProperties
        <5>3. DOMAIN Append(script, stmt) = 1 .. Len(Append(script, stmt))
          BY <5>2, LenProperties
        <5> QED
          BY <2>1, <5>2, <5>3
      <4> QED
        BY <4>1, <4>2 DEF ToSet
    <3> QED
      BY <2>3, <3>1 DEF InPlace, StatementsWellFormed
  <2>5. NoStatement \in ParsedStatement /\ NoStatement.cols = <<>> /\ NoStatement.vals = <<>>
    BY DEF ParsedStatement, NoStatement
  <2>6. ParserTypes'
    BY <2>1, <2>2, <2>5, ConsumeTypes, AppendProperties DEF ParserTypes
  <2>7. KindInPlace' /\ NameInPlace'
    BY <2>1
  <2>8. stmt'.cols = <<>> /\ stmt'.vals = <<>> /\ stmt'.all = FALSE /\ place' = "statement"
    BY <2>1, <2>5 DEF NoStatement
  <2>9. ListsInPlace'
    <3>1. IsInjective(<<>>)
      BY DEF IsInjective
    <3> QED
      BY <2>8, <3>1
  <2>10. ListsFit'
    <3>1. Len(<<>>) <= MaxList
      BY ParserBounds
    <3> QED
      BY <2>8, <3>1 DEF ListsFit
  <2> QED
    BY <2>4, <2>6, <2>7, <2>9, <2>10 DEF InPlace
<1> QED
  BY <1>1, <1>2

LEMMA ParserInPlace ==
  ASSUME InPlace, ParserNext
  PROVE  InPlace'
  BY ExpectedInPlace, GoingOnInPlace, OptionInPlace, ParseStatementInPlace, ParseTableInPlace,
     ParseMemberInPlace, ParseNameInPlace, ParseValueInPlace, ParseSelectColumnsInPlace,
     EndStatementInPlace DEF ParserNext

----------------------------------------------------------------------------
(***************************************************************************)
(* The program around the parser.                                          *)
(***************************************************************************)
LEMMA ProgramBegins ==
  ASSUME ProgramInit
  PROVE  InPlace /\ ProgramInStep
<1>1. /\ place = "unread" /\ tok = End /\ seen = <<>> /\ stmt = NoStatement /\ script = <<>>
      /\ outcome = [p \in {Main} |-> "running"] /\ tables = orig /\ shown[Main] = <<>>
  BY DEF ProgramInit
<1>2. NoStatement \in ParsedStatement /\ NoStatement.cols = <<>> /\ NoStatement.vals = <<>>
  BY DEF ParsedStatement, NoStatement
<1>3. ParserTypes
  BY <1>1, <1>2 DEF ParserTypes, Places
<1>4. KindInPlace /\ NameInPlace
  BY <1>1 DEF KindInPlace, NameInPlace
<1>5. ListsInPlace
  <2>1. IsInjective(<<>>)
    BY DEF IsInjective
  <2> QED
    BY <1>1, <1>2, <2>1 DEF ListsInPlace
<1>6. ListsFit
  BY <1>1, <1>2, ParserBounds DEF ListsFit
<1>7. StatementsWellFormed
  BY <1>1 DEF StatementsWellFormed, ToSet
<1> QED
  BY <1>1, <1>3, <1>4, <1>5, <1>6, <1>7 DEF InPlace, ProgramInStep

LEMMA ReadInPlace ==
  ASSUME InPlace, ProgramInStep, ReadEntireFile
  PROVE  InPlace' /\ ProgramInStep'
<1>1. CASE /\ GoTo("statement") /\ tok' \in Tokens \cup {End}
           /\ UNCHANGED <<seen, stmt, script, evars>>
  <2>1. /\ place = "unread" /\ place' = "statement" /\ outcome[Main] = "running"
        /\ UNCHANGED <<seen, stmt, script, outcome, tables, shown, orig>> /\ tok' \in Tokens \cup {End}
    BY <1>1 DEF ReadEntireFile, Running, GoTo, evars
  <2>2. ParserTypes' /\ KindInPlace' /\ NameInPlace' /\ ListsInPlace' /\ ListsFit'
    BY <2>1 DEF InPlace, ParserTypes, KindInPlace, NameInPlace, ListsInPlace, ListsFit, Places
  <2> QED
    BY <2>1, <2>2 DEF InPlace, StatementsWellFormed, ProgramInStep
<1>2. CASE Exit /\ UNCHANGED pvars
  <2>1. /\ place = "unread" /\ outcome' = [outcome EXCEPT ![Main] = "failed"]
        /\ UNCHANGED <<place, tok, seen, stmt, script, tables, shown, orig>>
    BY <1>2 DEF ReadEntireFile, Exit, pvars
  <2>2. InPlace'
    BY <2>1 DEF InPlace, ParserTypes, KindInPlace, NameInPlace, ListsInPlace, ListsFit,
                StatementsWellFormed
  <2>3. outcome' \in [{Main} -> {"running", "ok", "failed"}] /\ outcome'[Main] = "failed"
    BY <2>1 DEF ProgramInStep
  <2> QED
    BY <2>1, <2>2, <2>3 DEF ProgramInStep
<1> QED
  BY <1>1, <1>2 DEF ReadEntireFile

\* The parser leaves the tables alone, and only a running program parses.
LEMMA ParseInPlace ==
  ASSUME InPlace, ProgramInStep, Parse
  PROVE  InPlace' /\ ProgramInStep'
<1>1. InPlace'
  BY ParserInPlace DEF Parse
<1>2. outcome[Main] = "running" /\ UNCHANGED <<outcome, tables, shown, orig>>
  BY DEF Parse, Running, evars
<1> QED
  BY <1>1, <1>2 DEF ProgramInStep

\* The end of the program, with the parser where it was.
LEMMA EndInPlace ==
  ASSUME InPlace, ProgramInStep, ReportParseError \/ Execute
  PROVE  InPlace' /\ ProgramInStep'
<1>1. UNCHANGED <<place, tok, seen, stmt, script, orig>>
  BY DEF ReportParseError, Execute, Exit, pvars
<1>2. InPlace'
  BY <1>1 DEF InPlace, ParserTypes, KindInPlace, NameInPlace, ListsInPlace, ListsFit,
              StatementsWellFormed
<1>3. \/ /\ outcome' = [outcome EXCEPT ![Main] = "failed"] /\ UNCHANGED <<tables, shown>>
         /\ outcome[Main] = "running" /\ place = "failed"
      \/ /\ \E result \in {"ok", "failed"} : outcome' = [outcome EXCEPT ![Main] = result]
         /\ place = "parsed"
  BY DEF ReportParseError, Execute, StopHalfway, Exit, Parsed, Running, Executor!Commit, Executor!Abort
<1>4. outcome \in [{Main} -> {"running", "ok", "failed"}]
  BY DEF ProgramInStep
<1>5. CASE /\ outcome' = [outcome EXCEPT ![Main] = "failed"] /\ UNCHANGED <<tables, shown>>
           /\ outcome[Main] = "running" /\ place = "failed"
  <2>1. outcome' \in [{Main} -> {"running", "ok", "failed"}] /\ outcome'[Main] = "failed"
    BY <1>4, <1>5
  <2> QED
    BY <1>1, <1>2, <1>5, <2>1 DEF ProgramInStep
<1>6. CASE /\ \E result \in {"ok", "failed"} : outcome' = [outcome EXCEPT ![Main] = result]
           /\ place = "parsed"
  <2>1. outcome' \in [{Main} -> {"running", "ok", "failed"}] /\ outcome'[Main] \in {"ok", "failed"}
    BY <1>4, <1>6
  <2> QED
    BY <1>1, <1>2, <1>6, <2>1 DEF ProgramInStep
<1> QED
  BY <1>3, <1>5, <1>6

LEMMA ProgramSteps ==
  ASSUME InPlace, ProgramInStep, [Next]_vars
  PROVE  InPlace' /\ ProgramInStep'
<1>1. CASE UNCHANGED vars
  BY <1>1 DEF vars, pvars, evars, InPlace, ParserTypes, KindInPlace, NameInPlace, ListsInPlace,
              ListsFit, StatementsWellFormed, ProgramInStep
<1> QED
  BY <1>1, ReadInPlace, ParseInPlace, EndInPlace DEF Next, Done

LEMMA ProgramSound == Spec => [](InPlace /\ ProgramInStep)
<1>1. ProgramInit => InPlace /\ ProgramInStep
  BY ProgramBegins
<1>2. InPlace /\ ProgramInStep /\ [Next]_vars => (InPlace /\ ProgramInStep)'
  BY ProgramSteps
<1> QED
  BY <1>1, <1>2, PTL DEF Spec

\* Whatever the file holds, every variable keeps its type: the lists keep
\* their bound, the statement that has begun is cleared before the next one,
\* and the program ends only where the parser has (parse_sql_script, main).
THEOREM ProgramTypes == Spec => []TypeOK
<1>1. InPlace /\ ProgramInStep => TypeOK
  <2> SUFFICES ASSUME InPlace, ProgramInStep PROVE TypeOK
    OBVIOUS
  <2>1. stmt.kind \in {"none", "INSERT", "SELECT"} /\ place \in Places /\ tok \in Tokens \cup {End}
    BY DEF InPlace, ParserTypes, ParsedStatement
  <2>2. outcome[Main] \in {"running", "ok", "failed"}
    BY DEF ProgramInStep
  <2> QED
    BY <2>1, <2>2 DEF TypeOK, InPlace, KindInPlace, ListsFit, ProgramInStep
<1> QED
  BY <1>1, ProgramSound, PTL

\* Whatever the file holds, the executor is handed no statement that names a
\* column twice, has a value too few or too many, or lists columns beside a
\* star (append_name, parse_insert, parse_select_columns).
THEOREM NoStatementIsMalformed == Spec => []StatementsWellFormed
<1>1. InPlace /\ ProgramInStep => StatementsWellFormed
  BY DEF InPlace
<1> QED
  BY <1>1, ProgramSound, PTL

----------------------------------------------------------------------------
(***************************************************************************)
(* Numbers: the digits that are read and those that are written.           *)
(***************************************************************************)
DigitChar == {Digit[d] : d \in DOMAIN Digit}
Numeral   == Seq(DigitChar) \ {<<>>}

LEMMA DigitsDiffer ==
  /\ DOMAIN Digit = 0 .. 9 /\ Digit[0] = "0"
  /\ \A d \in 0 .. 9 : Digit[d] \in DigitChar /\ DigitValue(Digit[d]) = d
  /\ \A ch \in DigitChar : DigitValue(ch) \in 0 .. 9 /\ Digit[DigitValue(ch)] = ch
<1>1. DOMAIN Digit = 0 .. 9
  BY DEF Digit
<1>2. /\ Digit[0] = "0" /\ Digit[1] = "1" /\ Digit[2] = "2" /\ Digit[3] = "3" /\ Digit[4] = "4"
      /\ Digit[5] = "5" /\ Digit[6] = "6" /\ Digit[7] = "7" /\ Digit[8] = "8" /\ Digit[9] = "9"
  BY DEF Digit
<1>3. \A d, e \in 0 .. 9 : Digit[d] = Digit[e] => d = e
  <2>1. \A d \in 0 .. 9 : \/ d = 0 \/ d = 1 \/ d = 2 \/ d = 3 \/ d = 4
                          \/ d = 5 \/ d = 6 \/ d = 7 \/ d = 8 \/ d = 9
    OBVIOUS
  <2> QED
    BY <1>2, <2>1
<1>4. ASSUME NEW d \in 0 .. 9
      PROVE  Digit[d] \in DigitChar /\ DigitValue(Digit[d]) = d
  BY <1>1, <1>3 DEF DigitChar, DigitValue
<1>5. ASSUME NEW ch \in DigitChar
      PROVE  DigitValue(ch) \in 0 .. 9 /\ Digit[DigitValue(ch)] = ch
  <2>1. PICK d \in 0 .. 9 : ch = Digit[d]
    BY <1>1 DEF DigitChar
  <2> QED
    BY <1>4, <2>1
<1> QED
  BY <1>1, <1>2, <1>4, <1>5

\* strtoll takes one digit after the other.
ReadStep(ds, h, k) == IF k = 0 THEN 0 ELSE 10 * h[k - 1] + DigitValue(ds[k])

ReadUpTo(ds) == CHOOSE h : h = [k \in 0 .. Len(ds) |-> ReadStep(ds, h, k)]

Decimal(ds) == ReadUpTo(ds)[Len(ds)]

LEMMA ValueIs ==
  ASSUME NEW t
  PROVE  Value(t) = IF t.sign = "-" THEN -Decimal(t.digits) ELSE Decimal(t.digits)
BY DEF Value, Decimal, ReadUpTo, ReadStep

LEMMA ReadSteps ==
  ASSUME NEW ds \in Seq(DigitChar)
  PROVE  /\ ReadUpTo(ds) \in [0 .. Len(ds) -> Nat]
         /\ ReadUpTo(ds)[0] = 0
         /\ \A k \in 1 .. Len(ds) : ReadUpTo(ds)[k] = 10 * ReadUpTo(ds)[k - 1] + DigitValue(ds[k])
<1> DEFINE n == Len(ds)
           Whole(h) == [k \in 0 .. n |-> ReadStep(ds, h, k)]
           B == [k \in 0 .. n |-> [h \in [0 .. (k - 1) -> Nat] |-> ReadStep(ds, h, k)]]
<1>1. n \in Nat
  OBVIOUS
<1>2. ASSUME NEW k \in 0 .. n, NEW h \in [0 .. (k - 1) -> Nat]
      PROVE  B[k][h] = ReadStep(ds, h, k) /\ B[k][h] \in Nat
  <2>1. B[k][h] = ReadStep(ds, h, k)
    OBVIOUS
  <2>2. k # 0 => h[k - 1] \in Nat /\ DigitValue(ds[k]) \in Nat
    <3>1. k # 0 => k - 1 \in 0 .. (k - 1) /\ ds[k] \in DigitChar
      BY <1>1
    <3>2. k # 0 => DigitValue(ds[k]) \in 0 .. 9
      BY <3>1, DigitsDiffer
    <3>3. k # 0 => h[k - 1] \in Nat
      BY <3>1
    <3> QED
      BY <3>2, <3>3
  <2>3. ReadStep(ds, h, k) \in Nat
    BY <2>2 DEF ReadStep
  <2> HIDE DEF B
  <2> QED
    BY <2>1, <2>3
<1> HIDE DEF B
<1>3. PICK h \in [0 .. n -> Nat] : \A k \in 0 .. n : h[k] = B[k][Before(h, k)]
  <2>1. Upward(B, n, Nat)
    BY <1>2 DEF Upward
  <2> HIDE DEF n
  <2> QED
    BY <1>1, <2>1, UpwardRecursion
<1>4. ASSUME NEW k \in 0 .. n
      PROVE  h[k] = ReadStep(ds, h, k)
  <2>1. Before(h, k) \in [0 .. (k - 1) -> Nat]
    BY <1>1 DEF Before
  <2>2. h[k] = ReadStep(ds, Before(h, k), k)
    BY <1>2, <1>3, <2>1
  <2>3. k # 0 => Before(h, k)[k - 1] = h[k - 1]
    BY <1>1 DEF Before
  <2> QED
    BY <2>2, <2>3 DEF ReadStep
<1>5. h = Whole(h)
  BY <1>4
<1>6. ReadUpTo(ds) = Whole(ReadUpTo(ds))
  <2> HIDE DEF Whole
  <2>1. \E g : g = Whole(g)
    BY <1>5
  <2>2. ReadUpTo(ds) = CHOOSE g : g = Whole(g)
    BY DEF ReadUpTo, Whole
  <2> QED
    BY <2>1, <2>2
<1> DEFINE r == ReadUpTo(ds)
<1> HIDE DEF r
<1>7. \A k \in 0 .. n : r[k] = ReadStep(ds, r, k)
  BY <1>6 DEF r
<1>8. DOMAIN r = 0 .. n /\ r = [k \in 0 .. n |-> r[k]]
  BY <1>6 DEF r
<1>9. r[0] = 0 /\ \A k \in 1 .. n : r[k] = 10 * r[k - 1] + DigitValue(ds[k])
  BY <1>1, <1>7 DEF ReadStep
<1>10. \A k \in 0 .. n : r[k] \in Nat
  <2> DEFINE S == {k \in Nat : k <= n => r[k] \in Nat}
  <2>1. 0 \in S
    BY <1>9
  <2>2. ASSUME NEW k \in Nat, k \in S
        PROVE  k + 1 \in S
    <3> SUFFICES ASSUME k + 1 <= n PROVE r[k + 1] \in Nat
      OBVIOUS
    <3>1. k + 1 \in 1 .. n /\ (k + 1) - 1 = k /\ r[k] \in Nat
      BY <1>1, <2>2
    <3>2. DigitValue(ds[k + 1]) \in Nat
      BY <3>1, DigitsDiffer
    <3>3. r[k + 1] = 10 * r[k] + DigitValue(ds[k + 1])
      BY <1>9, <3>1
    <3> QED
      BY <3>1, <3>2, <3>3
  <2> HIDE DEF S
  <2>3. Nat \subseteq S
    BY <2>1, <2>2, NatSetInduction
  <2> QED
    BY <1>1, <2>3 DEF S
<1>11. r \in [0 .. n -> Nat]
  BY <1>8, <1>10
<1> QED
  BY <1>9, <1>11 DEF r

LEMMA DecimalSteps ==
  /\ Decimal(<<>>) = 0
  /\ \A ds \in Seq(DigitChar) : Decimal(ds) \in Nat
  /\ \A ds \in Seq(DigitChar), ch \in DigitChar :
       Decimal(Append(ds, ch)) = 10 * Decimal(ds) + DigitValue(ch)
<1>1. Decimal(<<>>) = 0
  <2>1. <<>> \in Seq(DigitChar) /\ Len(<<>>) = 0
    OBVIOUS
  <2> QED
    BY <2>1, ReadSteps DEF Decimal
<1>2. ASSUME NEW ds \in Seq(DigitChar)
      PROVE  Decimal(ds) \in Nat
  <2>1. ReadUpTo(ds) \in [0 .. Len(ds) -> Nat] /\ Len(ds) \in 0 .. Len(ds)
    BY ReadSteps
  <2> QED
    BY <2>1 DEF Decimal
<1>3. ASSUME NEW ds \in Seq(DigitChar), NEW ch \in DigitChar
      PROVE  Decimal(Append(ds, ch)) = 10 * Decimal(ds) + DigitValue(ch)
  <2> DEFINE es == Append(ds, ch)
             n == Len(ds)
             g == ReadUpTo(ds)
             h == ReadUpTo(es)
             S == {k \in Nat : k <= n => h[k] = g[k]}
  <2>1. es \in Seq(DigitChar) /\ Len(es) = n + 1 /\ n \in Nat /\ es[n + 1] = ch
        /\ \A k \in 1 .. n : es[k] = ds[k]
    BY AppendProperties
  <2> HIDE DEF es
  <2>2. g[0] = 0 /\ \A k \in 1 .. n : g[k] = 10 * g[k - 1] + DigitValue(ds[k])
    BY ReadSteps
  <2>3. h[0] = 0 /\ \A k \in 1 .. (n + 1) : h[k] = 10 * h[k - 1] + DigitValue(es[k])
    BY <2>1, ReadSteps
  <2> HIDE DEF g, h, n
  <2>4. 0 \in S
    BY <2>2, <2>3
  <2>5. ASSUME NEW k \in Nat, k \in S
        PROVE  k + 1 \in S
    <3> SUFFICES ASSUME k + 1 <= n PROVE h[k + 1] = g[k + 1]
      OBVIOUS
    <3>1. k + 1 \in 1 .. n /\ k + 1 \in 1 .. (n + 1) /\ (k + 1) - 1 = k /\ h[k] = g[k]
      BY <2>1, <2>5
    <3>2. h[k + 1] = 10 * h[k] + DigitValue(es[k + 1]) /\ g[k + 1] = 10 * g[k] + DigitValue(ds[k + 1])
      BY <2>2, <2>3, <3>1
    <3>3. es[k + 1] = ds[k + 1]
      BY <2>1, <3>1
    <3> QED
      BY <3>1, <3>2, <3>3
  <2>6. n \in S
    <3> HIDE DEF S
    <3> QED
      BY <2>1, <2>4, <2>5, NatSetInduction
  <2>7. h[n] = g[n]
    BY <2>1, <2>6
  <2>8. h[n + 1] = 10 * h[n] + DigitValue(ch)
    <3>1. n + 1 \in 1 .. (n + 1) /\ (n + 1) - 1 = n
      BY <2>1
    <3> QED
      BY <2>1, <2>3, <3>1
  <2> QED
    BY <2>1, <2>7, <2>8 DEF Decimal, es, g, h, n
<1> QED
  BY <1>1, <1>2, <1>3

\* write_signed_integer divides the magnitude by ten until nothing is left.
DigitsStep(h, m) == (IF m < 10 THEN <<>> ELSE h[m \div 10]) \o <<Digit[m % 10]>>

DigitsUpTo(n) == CHOOSE h : h = [m \in 0 .. n |-> DigitsStep(h, m)]

LEMMA DigitsUpToSteps ==
  ASSUME NEW n \in Nat
  PROVE  /\ DigitsUpTo(n) \in [0 .. n -> Numeral]
         /\ \A m \in 0 .. n : DigitsUpTo(n)[m] = DigitsStep(DigitsUpTo(n), m)
<1> DEFINE Whole(h) == [m \in 0 .. n |-> DigitsStep(h, m)]
           B == [m \in 0 .. n |-> [h \in [0 .. (m - 1) -> Numeral] |-> DigitsStep(h, m)]]
<1>1. \A m \in Nat : Digit[m % 10] \in DigitChar
  <2>1. \A m \in Nat : m % 10 \in 0 .. 9
    OBVIOUS
  <2> QED
    BY <2>1, DigitsDiffer
<1>2. \A m \in Nat : m >= 10 => m \div 10 \in 0 .. (m - 1)
  OBVIOUS
<1>3. ASSUME NEW m \in Nat, NEW h, m >= 10 => h[m \div 10] \in Numeral
      PROVE  DigitsStep(h, m) \in Numeral
  <2> DEFINE higher == IF m < 10 THEN <<>> ELSE h[m \div 10]
             lowest == <<Digit[m % 10]>>
  <2>1. lowest \in Seq(DigitChar) /\ Len(lowest) = 1
    BY <1>1
  <2>2. higher \in Seq(DigitChar)
    BY <1>3 DEF Numeral
  <2> HIDE DEF higher, lowest
  <2>3. higher \o lowest \in Seq(DigitChar) /\ Len(higher \o lowest) # 0
    BY <2>1, <2>2, ConcatProperties
  <2>4. higher \o lowest \in Numeral
    BY <2>3 DEF Numeral
  <2> QED
    BY <2>4 DEF higher, lowest, DigitsStep
<1>4. ASSUME NEW m \in 0 .. n, NEW h \in [0 .. (m - 1) -> Numeral]
      PROVE  B[m][h] = DigitsStep(h, m) /\ B[m][h] \in Numeral
  <2>1. B[m][h] = DigitsStep(h, m)
    OBVIOUS
  <2>2. m \in Nat /\ (m >= 10 => h[m \div 10] \in Numeral)
    BY <1>2
  <2> HIDE DEF B
  <2> QED
    BY <1>3, <2>1, <2>2
<1> HIDE DEF B
<1>5. PICK h \in [0 .. n -> Numeral] : \A m \in 0 .. n : h[m] = B[m][Before(h, m)]
  <2>1. Upward(B, n, Numeral)
    BY <1>4 DEF Upward
  <2> QED
    BY <2>1, UpwardRecursion
<1>6. ASSUME NEW m \in 0 .. n
      PROVE  h[m] = DigitsStep(h, m)
  <2>1. Before(h, m) \in [0 .. (m - 1) -> Numeral]
    BY DEF Before
  <2>2. h[m] = DigitsStep(Before(h, m), m)
    BY <1>4, <1>5, <2>1
  <2>3. m >= 10 => Before(h, m)[m \div 10] = h[m \div 10]
    BY <1>2 DEF Before
  <2>4. CASE m < 10
    <3>1. DigitsStep(Before(h, m), m) = DigitsStep(h, m)
      BY <2>4 DEF DigitsStep
    <3> QED
      BY <2>2, <3>1
  <2>5. CASE ~(m < 10)
    <3>1. Before(h, m)[m \div 10] = h[m \div 10]
      BY <2>3, <2>5
    <3>2. DigitsStep(Before(h, m), m) = DigitsStep(h, m)
      BY <2>5, <3>1 DEF DigitsStep
    <3> QED
      BY <2>2, <3>2
  <2> QED
    BY <2>4, <2>5
<1>7. h = Whole(h)
  BY <1>6
<1>8. DigitsUpTo(n) = Whole(DigitsUpTo(n))
  <2> HIDE DEF Whole
  <2>1. DigitsUpTo(n) = CHOOSE g : g = Whole(g)
    BY DEF DigitsUpTo, Whole
  <2> QED
    BY <1>7, <2>1
<1> DEFINE r == DigitsUpTo(n)
<1> HIDE DEF r
<1>9. \A m \in 0 .. n : r[m] = DigitsStep(r, m)
  BY <1>8 DEF r
<1>10. DOMAIN r = 0 .. n /\ r = [m \in 0 .. n |-> r[m]]
  BY <1>8 DEF r
<1> DEFINE S == {k \in Nat : \A m \in 0 .. k : m <= n => r[m] \in Numeral}
<1>11. 0 \in S
  <2>1. 0 \in 0 .. n /\ ~(0 >= 10)
    OBVIOUS
  <2>2. r[0] \in Numeral
    BY <1>3, <1>9, <2>1
  <2> QED
    BY <2>2
<1>12. ASSUME NEW k \in Nat, k \in S
       PROVE  k + 1 \in S
  <2>1. ASSUME k + 1 <= n PROVE r[k + 1] \in Numeral
    <3>1. k + 1 >= 10 => r[(k + 1) \div 10] \in Numeral
      <4>1. k + 1 >= 10 => (k + 1) \div 10 \in 0 .. k
        BY <1>2
      <4> QED
        BY <1>12, <2>1, <4>1
    <3>2. DigitsStep(r, k + 1) \in Numeral
      BY <1>3, <3>1
    <3> QED
      BY <1>9, <2>1, <3>2
  <2> QED
    BY <1>12, <2>1
<1>13. n \in S
  <2> HIDE DEF S
  <2> QED
    BY <1>11, <1>12, NatSetInduction
<1>14. r \in [0 .. n -> Numeral]
  BY <1>10, <1>13
<1> QED
  BY <1>9, <1>14 DEF r

\* How far the table of digits goes makes no difference to what it holds.
LEMMA DigitsUpToAny ==
  ASSUME NEW n \in Nat, NEW k \in 0 .. n
  PROVE  DigitsUpTo(n)[k] = Digits(k)
<1> DEFINE g == DigitsUpTo(n)
           h == DigitsUpTo(k)
           S == {j \in Nat : \A m \in 0 .. j : m <= k => g[m] = h[m]}
<1>1. \A m \in 0 .. n : g[m] = DigitsStep(g, m)
  BY DigitsUpToSteps
<1>2. \A m \in 0 .. k : h[m] = DigitsStep(h, m)
  BY DigitsUpToSteps
<1>3. Digits(k) = h[k]
  BY DEF Digits, DigitsUpTo, DigitsStep
<1> HIDE DEF g, h
<1>4. \A m \in Nat : m >= 10 => m \div 10 \in 0 .. (m - 1)
  OBVIOUS
<1>5. 0 \in S
  <2>1. g[0] = DigitsStep(g, 0) /\ h[0] = DigitsStep(h, 0)
    BY <1>1, <1>2
  <2>2. DigitsStep(g, 0) = DigitsStep(h, 0)
    BY DEF DigitsStep
  <2> QED
    BY <2>1, <2>2
<1>6. ASSUME NEW j \in Nat, j \in S
      PROVE  j + 1 \in S
  <2>1. ASSUME j + 1 <= k PROVE g[j + 1] = h[j + 1]
    <3>1. g[j + 1] = DigitsStep(g, j + 1) /\ h[j + 1] = DigitsStep(h, j + 1)
      BY <1>1, <1>2, <2>1
    <3>2. j + 1 >= 10 => g[(j + 1) \div 10] = h[(j + 1) \div 10]
      <4>1. j + 1 >= 10 => (j + 1) \div 10 \in 0 .. j
        BY <1>4
      <4> QED
        BY <1>6, <2>1, <4>1
    <3>3. DigitsStep(g, j + 1) = DigitsStep(h, j + 1)
      <4>1. CASE j + 1 < 10
        BY <4>1 DEF DigitsStep
      <4>2. CASE ~(j + 1 < 10)
        <5>1. g[(j + 1) \div 10] = h[(j + 1) \div 10]
          BY <3>2, <4>2
        <5> QED
          BY <4>2, <5>1 DEF DigitsStep
      <4> QED
        BY <4>1, <4>2
    <3> QED
      BY <3>1, <3>3
  <2> QED
    BY <1>6, <2>1
<1>7. k \in S
  <2> HIDE DEF S
  <2> QED
    BY <1>5, <1>6, NatSetInduction
<1>8. g[k] = h[k]
  BY <1>7
<1> QED
  BY <1>3, <1>8 DEF g

LEMMA DigitsSteps ==
  /\ \A n \in Nat : Digits(n) \in Numeral
  /\ \A n \in 0 .. 9 : Digits(n) = <<Digit[n]>>
  /\ \A n \in Nat \ {0}, d \in 0 .. 9 : Digits(10 * n + d) = Append(Digits(n), Digit[d])
<1>1. ASSUME NEW n \in Nat
      PROVE  Digits(n) \in Numeral /\ Digits(n) = DigitsStep(DigitsUpTo(n), n)
  <2>1. n \in 0 .. n
    OBVIOUS
  <2>2. Digits(n) = DigitsUpTo(n)[n]
    BY <2>1, DigitsUpToAny
  <2> QED
    BY <2>1, <2>2, DigitsUpToSteps
<1>2. ASSUME NEW n \in 0 .. 9
      PROVE  Digits(n) = <<Digit[n]>>
  <2>1. n < 10 /\ n % 10 = n
    OBVIOUS
  <2>2. DigitsStep(DigitsUpTo(n), n) = <<>> \o <<Digit[n]>>
    BY <2>1 DEF DigitsStep
  <2>3. <<>> \o <<Digit[n]>> = <<Digit[n]>>
    OBVIOUS
  <2> QED
    BY <1>1, <2>2, <2>3
<1>3. ASSUME NEW n \in Nat \ {0}, NEW d \in 0 .. 9
      PROVE  Digits(10 * n + d) = Append(Digits(n), Digit[d])
  <2> DEFINE m == 10 * n + d
  <2>1. m \in Nat /\ ~(m < 10) /\ m \div 10 = n /\ m % 10 = d /\ n \in 0 .. m
    OBVIOUS
  <2> HIDE DEF m
  <2>2. DigitsUpTo(m)[n] = Digits(n)
    BY <2>1, DigitsUpToAny
  <2>3. Digits(m) = DigitsUpTo(m)[n] \o <<Digit[d]>>
    BY <1>1, <2>1 DEF DigitsStep
  <2>4. Digits(n) \in Seq(DigitChar) /\ Digit[d] \in DigitChar
    BY <1>1, DigitsDiffer DEF Numeral
  <2>5. Digits(n) \o <<Digit[d]>> = Append(Digits(n), Digit[d])
    BY <2>4, AppendIsConcat
  <2> QED
    BY <2>2, <2>3, <2>5 DEF m
<1> QED
  BY <1>1, <1>2, <1>3

\* The digits from the first that is not a zero, or else the last zero.
Stripped(ds) ==
  LET zeros == {k \in 0 .. (Len(ds) - 1) : \A i \in 1 .. k : ds[i] = "0"}
  IN  SubSeq(ds, 1 + Max(zeros), Len(ds))

StrippedAt(ds, k) ==
  /\ k \in 0 .. (Len(ds) - 1)
  /\ \A i \in 1 .. k : ds[i] = "0"
  /\ k = Len(ds) - 1 \/ ds[k + 1] # "0"

LEMMA StrippedIs ==
  ASSUME NEW ds \in Seq(DigitChar), NEW k, StrippedAt(ds, k)
  PROVE  Stripped(ds) = SubSeq(ds, k + 1, Len(ds))
<1> DEFINE zeros == {j \in 0 .. (Len(ds) - 1) : \A i \in 1 .. j : ds[i] = "0"}
           Above(m) == m \in zeros /\ \A j \in zeros : m >= j
<1>1. Len(ds) \in Nat /\ k \in Nat /\ zeros \subseteq Nat
  BY DEF StrippedAt
<1>2. k \in zeros
  BY DEF StrippedAt
<1>3. ASSUME NEW j \in zeros
      PROVE  k >= j
  <2> SUFFICES ASSUME j > k PROVE FALSE
    BY <1>1
  <2>1. k + 1 \in 1 .. j /\ k # Len(ds) - 1
    BY <1>1
  <2>2. ds[k + 1] = "0"
    BY <2>1
  <2> QED
    BY <2>1, <2>2 DEF StrippedAt
<1>4. Max(zeros) = CHOOSE m \in zeros : \A j \in zeros : m >= j
  BY DEF Max
<1>5. Stripped(ds) = SubSeq(ds, 1 + Max(zeros), Len(ds))
  BY DEF Stripped
<1> HIDE DEF zeros
<1>6. Max(zeros) \in zeros /\ \A j \in zeros : Max(zeros) >= j
  BY <1>2, <1>3, <1>4
<1>7. Max(zeros) = k
  <2>1. Max(zeros) \in Nat /\ Max(zeros) >= k /\ k >= Max(zeros)
    BY <1>1, <1>2, <1>3, <1>6
  <2> QED
    BY <1>1, <2>1
<1>8. 1 + Max(zeros) = k + 1
  BY <1>1, <1>7
<1> QED
  BY <1>5, <1>8

\* Written with the digits of its value, a numeral loses its leading zeros.
Renders(ds, k) ==
  /\ StrippedAt(ds, k)
  /\ Digits(Decimal(ds)) = SubSeq(ds, k + 1, Len(ds))
  /\ Decimal(ds) = 0 <=> ds[k + 1] = "0"

LEMMA OneDigit ==
  ASSUME NEW es \in Seq(DigitChar), NEW n \in Nat, Len(es) = n + 1
  PROVE  SubSeq(es, n + 1, n + 1) = <<es[n + 1]>>
<1> DEFINE w == SubSeq(es, n + 1, n + 1)
<1>1. w \in Seq(DigitChar) /\ Len(w) = 1 /\ w[1] = es[n + 1]
  <2>1. \A i \in (n + 1) .. (n + 1) : es[i] \in DigitChar
    OBVIOUS
  <2>2. (n + 1) - (n + 1) + 1 = 1 /\ (n + 1) + 1 - 1 = n + 1 /\ 1 \in 1 .. 1
    OBVIOUS
  <2> QED
    BY <2>1, <2>2, SubSeqProperties
<1> HIDE DEF w
<1>2. w = <<w[1]>>
  BY <1>1
<1> QED
  BY <1>1, <1>2 DEF w

LEMMA NumeralsRender ==
  ASSUME NEW ds \in Numeral
  PROVE  \E k : Renders(ds, k)
<1> DEFINE P == {es \in Seq(DigitChar) : es = <<>> \/ \E k : Renders(es, k)}
<1>1. <<>> \in P
  OBVIOUS
<1>2. ASSUME NEW es \in Seq(DigitChar), NEW e \in DigitChar, es \in P
      PROVE  Append(es, e) \in P
  <2> DEFINE n == Len(es)
             fs == Append(es, e)
             d == DigitValue(e)
             v == Decimal(es)
  <2>1. /\ fs \in Seq(DigitChar) /\ n \in Nat /\ Len(fs) = n + 1 /\ fs[n + 1] = e
        /\ \A i \in 1 .. n : fs[i] = es[i]
    BY AppendProperties
  <2>2. d \in 0 .. 9 /\ Digit[d] = e /\ Digits(d) = <<e>>
    BY DigitsDiffer, DigitsSteps
  <2>3. d = 0 <=> e = "0"
    <3>1. DigitValue(Digit[0]) = 0 /\ Digit[0] = "0"
      BY DigitsDiffer
    <3> QED
      BY <2>2, <3>1
  <2>4. v \in Nat /\ Decimal(fs) = 10 * v + d
    BY DecimalSteps
  <2> HIDE DEF fs, d, v, n
  <2>5. CASE v = 0 /\ \A i \in 1 .. n : es[i] = "0"
    <3>1. Decimal(fs) = d
      BY <2>2, <2>4, <2>5
    <3>2. StrippedAt(fs, n)
      BY <2>1, <2>5 DEF StrippedAt
    <3>3. SubSeq(fs, n + 1, n + 1) = <<e>>
      BY <2>1, OneDigit
    <3>4. Renders(fs, n)
      BY <2>1, <2>2, <2>3, <3>1, <3>2, <3>3 DEF Renders
    <3> QED
      BY <2>1, <3>4 DEF fs
  <2>6. CASE ~(v = 0 /\ \A i \in 1 .. n : es[i] = "0")
    <3>1. es # <<>>
      BY <2>6, DecimalSteps DEF v, n
    <3>2. PICK k : Renders(es, k)
      BY <1>2, <3>1
    <3>3. k \in 0 .. (n - 1) /\ \A i \in 1 .. k : es[i] = "0"
      BY <3>2 DEF Renders, StrippedAt, n
    <3>4. v # 0 /\ es[k + 1] # "0"
      <4> SUFFICES ASSUME es[k + 1] = "0" PROVE FALSE
        BY <3>2 DEF Renders, v
      <4>1. v = 0 /\ k = n - 1
        BY <3>2 DEF Renders, StrippedAt, v, n
      <4>2. \A i \in 1 .. n : i \in 1 .. k \/ i = k + 1
        BY <2>1, <4>1
      <4>3. \A i \in 1 .. n : es[i] = "0"
        BY <3>3, <4>2
      <4> QED
        BY <2>6, <4>1, <4>3
    <3>5. k + 1 \in 1 .. n /\ fs[k + 1] = es[k + 1] /\ \A i \in 1 .. k : fs[i] = es[i]
      BY <2>1, <3>3
    <3>6. StrippedAt(fs, k)
      BY <2>1, <3>3, <3>4, <3>5 DEF StrippedAt
    <3>7. Digits(10 * v + d) = Append(Digits(v), e)
      <4>1. v \in Nat \ {0}
        BY <2>4, <3>4
      <4> QED
        BY <2>2, <4>1, DigitsSteps
    <3>8. Digits(v) = SubSeq(es, k + 1, n)
      BY <3>2 DEF Renders, v, n
    <3>9. SubSeq(fs, k + 1, n + 1) = Append(SubSeq(es, k + 1, n), e)
      <4> DEFINE a == SubSeq(fs, k + 1, n + 1)
                 b == SubSeq(es, k + 1, n)
      <4>1. \A i \in (k + 1) .. (n + 1) : fs[i] \in DigitChar
        BY <2>1, <3>3
      <4>2. \A i \in (k + 1) .. n : es[i] \in DigitChar
        BY <2>1, <3>3 DEF n
      <4>3. /\ a \in Seq(DigitChar) /\ Len(a) = n + 1 - k
            /\ \A i \in 1 .. (n + 1 - k) : a[i] = fs[k + i]
        <5>1. k + 1 \in Nat /\ n + 1 \in Nat /\ k + 1 <= n + 1 + 1 /\ (n + 1) - (k + 1) + 1 = n + 1 - k
              /\ \A i \in 1 .. (n + 1 - k) : (k + 1) + i - 1 = k + i
          BY <2>1, <3>3
        <5> QED
          BY <4>1, <5>1, SubSeqProperties
      <4>4. /\ b \in Seq(DigitChar) /\ Len(b) = n - k
            /\ \A i \in 1 .. (n - k) : b[i] = es[k + i]
        <5>1. k + 1 \in Nat /\ n \in Nat /\ k + 1 <= n + 1 /\ n - (k + 1) + 1 = n - k
              /\ \A i \in 1 .. (n - k) : (k + 1) + i - 1 = k + i
          BY <2>1, <3>3
        <5> QED
          BY <4>2, <5>1, SubSeqProperties
      <4> HIDE DEF a, b
      <4>5. /\ Append(b, e) \in Seq(DigitChar) /\ Len(Append(b, e)) = n - k + 1
            /\ Append(b, e)[n - k + 1] = e
            /\ \A i \in 1 .. (n - k) : Append(b, e)[i] = b[i]
        BY <4>4, AppendProperties
      <4>6. ASSUME NEW i \in 1 .. (n + 1 - k)
            PROVE  a[i] = Append(b, e)[i]
        <5>1. CASE i = n + 1 - k
          <6>1. k + i = n + 1 /\ i = n - k + 1
            BY <2>1, <3>3, <5>1
          <6> QED
            BY <2>1, <4>3, <4>5, <6>1
        <5>2. CASE i # n + 1 - k
          <6>1. i \in 1 .. (n - k) /\ k + i \in 1 .. n
            BY <2>1, <3>3, <5>2
          <6> QED
            BY <2>1, <4>3, <4>4, <4>5, <6>1
        <5> QED
          BY <5>1, <5>2
      <4>7. n + 1 - k = n - k + 1
        BY <2>1, <3>3
      <4>8. a = Append(b, e)
        BY <4>3, <4>5, <4>6, <4>7, SeqEqual
      <4> QED
        BY <4>8 DEF a, b
    <3>10. Decimal(fs) # 0
      BY <2>2, <2>4, <3>4
    <3>11. Digits(Decimal(fs)) = SubSeq(fs, k + 1, Len(fs))
      BY <2>1, <2>4, <3>7, <3>8, <3>9
    <3>12. Renders(fs, k)
      BY <3>4, <3>5, <3>6, <3>10, <3>11 DEF Renders
    <3> QED
      BY <2>1, <3>12 DEF fs
  <2> QED
    BY <2>5, <2>6
<1>3. \A es \in Seq(DigitChar) : es \in P
  <2> HIDE DEF P
  <2> QED
    BY <1>1, <1>2, LongerAndLonger
<1> QED
  BY <1>3 DEF Numeral

LEMMA StrippedDigits ==
  ASSUME NEW ds \in Numeral
  PROVE  /\ Stripped(ds) = Digits(Decimal(ds))
         /\ Decimal(ds) = 0 <=> Stripped(ds) = <<"0">>
<1>1. ds \in Seq(DigitChar) /\ Len(ds) \in Nat
  BY DEF Numeral
<1>2. PICK k : Renders(ds, k)
  BY NumeralsRender
<1>3. Stripped(ds) = SubSeq(ds, k + 1, Len(ds))
  BY <1>1, <1>2, StrippedIs DEF Renders
<1>4. Stripped(ds) = Digits(Decimal(ds))
  BY <1>2, <1>3 DEF Renders
<1>5. ASSUME Decimal(ds) = 0
      PROVE  Stripped(ds) = <<"0">>
  BY <1>4, <1>5, DigitsDiffer, DigitsSteps
<1>6. ASSUME Stripped(ds) = <<"0">>
      PROVE  Decimal(ds) = 0
  <2>1. k \in 0 .. (Len(ds) - 1)
    BY <1>2 DEF Renders, StrippedAt
  <2>2. SubSeq(ds, k + 1, Len(ds))[1] = ds[k + 1]
    <3>1. \A i \in (k + 1) .. Len(ds) : ds[i] \in DigitChar
      BY <1>1, <2>1
    <3>2. k + 1 \in Nat /\ k + 1 <= Len(ds) + 1 /\ 1 \in 1 .. (Len(ds) - (k + 1) + 1)
          /\ (k + 1) + 1 - 1 = k + 1
      BY <1>1, <2>1
    <3> QED
      BY <1>1, <3>1, <3>2, SubSeqProperties
  <2>3. ds[k + 1] = "0"
    <3>1. Stripped(ds)[1] = "0"
      BY <1>6
    <3> QED
      BY <1>3, <2>2, <3>1
  <2> QED
    BY <1>2, <2>3 DEF Renders
<1> QED
  BY <1>4, <1>5, <1>6

\* write_signed_integer takes the magnitude as it is, of the smallest integer too.
LEMMA MagnitudeIs ==
  ASSUME NEW n \in Nat, n <= LongMax + 1
  PROVE  /\ Magnitude(-n, LongMax) = n
         /\ n <= LongMax => Magnitude(n, LongMax) = n
<1>1. LongMax \in Nat
  BY ParserBounds
<1> DEFINE m == LongMax
<1> HIDE DEF m
<1>2. m \in Nat /\ m = LongMax
  BY <1>1 DEF m
<1>3. n % (2 * m + 2) = n
  <2> DEFINE w == 2 * m + 2
  <2>1. w \in Nat \ {0} /\ n < w
    BY <1>2
  <2> HIDE DEF w
  <2>2. n % w = n
    BY <2>1
  <2> QED
    BY <2>2 DEF w
<1>4. Magnitude(-n, m) = n
  <2>1. CASE -n = -m - 1
    <3>1. n = m + 1
      BY <1>2, <2>1
    <3> QED
      BY <1>3, <2>1, <3>1 DEF Magnitude
  <2>2. CASE -n # -m - 1 /\ -n < 0
    <3>1. -(-n) = n
      OBVIOUS
    <3> QED
      BY <1>3, <2>2, <3>1 DEF Magnitude
  <2>3. CASE -n # -m - 1 /\ ~(-n < 0)
    <3>1. -n = n
      BY <2>3
    <3> QED
      BY <1>3, <2>3, <3>1 DEF Magnitude
  <2> QED
    BY <2>1, <2>2, <2>3
<1>5. Magnitude(n, m) = n
  <2>1. n # -m - 1 /\ ~(n < 0)
    BY <1>2
  <2> QED
    BY <1>3, <2>1 DEF Magnitude
<1> QED
  BY <1>2, <1>4, <1>5

IsNumber(t) == t.sign \in {"", "+", "-"} /\ t.digits \in Numeral

LEMMA NumbersReadBack ==
  ASSUME NEW t, IsNumber(t), InRange(t)
  PROVE  Shortest(t) = WriteInteger(Value(t), LongMax)
<1> DEFINE n == Decimal(t.digits)
           sign == IF t.sign = "-" /\ Stripped(t.digits) # <<"0">> THEN <<"-">> ELSE <<>>
<1>1. Shortest(t) = sign \o Stripped(t.digits)
  BY DEF Shortest, Stripped
<1>2. n \in Nat /\ LongMax \in Nat
  BY DecimalSteps, ParserBounds DEF Numeral, IsNumber
<1>3. Stripped(t.digits) = Digits(n) /\ (n = 0 <=> Stripped(t.digits) = <<"0">>)
  BY StrippedDigits DEF IsNumber
<1>4. Value(t) = IF t.sign = "-" THEN -n ELSE n
  BY ValueIs
<1> HIDE DEF n
<1>5. CASE t.sign = "-"
  <2>1. Value(t) = -n /\ n <= LongMax + 1
    BY <1>2, <1>4, <1>5 DEF InRange
  <2>2. Magnitude(-n, LongMax) = n
    BY <1>2, <2>1, MagnitudeIs
  <2>3. -n < 0 <=> n # 0
    BY <1>2
  <2>4. WriteInteger(-n, LongMax) = (IF n # 0 THEN <<"-">> ELSE <<>>) \o Digits(n)
    BY <2>2, <2>3 DEF WriteInteger
  <2> QED
    BY <1>1, <1>3, <1>5, <2>1, <2>4
<1>6. CASE t.sign # "-"
  <2>1. Value(t) = n /\ n <= LongMax /\ n <= LongMax + 1
    BY <1>2, <1>4, <1>6 DEF InRange
  <2>2. Magnitude(n, LongMax) = n
    BY <1>2, <2>1, MagnitudeIs
  <2>3. ~(n < 0)
    BY <1>2
  <2>4. WriteInteger(n, LongMax) = <<>> \o Digits(n)
    BY <2>2, <2>3 DEF WriteInteger
  <2> QED
    BY <1>1, <1>3, <1>6, <2>1, <2>4
<1> QED
  BY <1>5, <1>6

----------------------------------------------------------------------------
(***************************************************************************)
(* Texts: what parse_string_value copies and what is written for it.       *)
(***************************************************************************)
Spelt(ch) == IF ch = Apostrophe THEN <<Apostrophe, Apostrophe>> ELSE <<ch>>

SpeltText(t) == FlattenSeq([i \in DOMAIN t |-> Spelt(t[i])])

LEMMA SpeltSteps ==
  ASSUME NEW X, Apostrophe \in X
  PROVE  /\ SpeltText(<<>>) = <<>>
         /\ \A t \in Seq(X) : SpeltText(t) \in Seq(X)
         /\ \A ch \in X : Spelt(ch) \in Seq(X)
         /\ \A ch \in X, t \in Seq(X) : SpeltText(<<ch>> \o t) = Spelt(ch) \o SpeltText(t)
<1> DEFINE spelt(t) == [i \in DOMAIN t |-> Spelt(t[i])]
<1>1. \A ch \in X : Spelt(ch) \in Seq(X)
  BY SmallSeqs DEF Spelt
<1>2. \A t : SpeltText(t) = FlattenSeq(spelt(t))
  BY DEF SpeltText
<1>3. ASSUME NEW t \in Seq(X)
      PROVE  /\ spelt(t) \in Seq(Seq(X)) /\ Len(spelt(t)) = Len(t)
             /\ \A i \in 1 .. Len(t) : spelt(t)[i] = Spelt(t[i])
  <2>1. Len(t) \in Nat /\ DOMAIN t = 1 .. Len(t) /\ \A i \in 1 .. Len(t) : t[i] \in X
    OBVIOUS
  <2>2. spelt(t) \in [1 .. Len(t) -> Seq(X)]
    BY <1>1, <2>1
  <2>3. \A i \in 1 .. Len(t) : spelt(t)[i] = Spelt(t[i])
    BY <2>1
  <2> HIDE DEF spelt
  <2> QED
    BY <2>1, <2>2, <2>3, FunctionIsSeq
<1>4. spelt(<<>>) = <<>>
  OBVIOUS
<1> HIDE DEF spelt
<1>5. \A t \in Seq(X) : SpeltText(t) \in Seq(X)
  BY <1>2, <1>3, FlattenType
<1>6. ASSUME NEW ch \in X, NEW t \in Seq(X)
      PROVE  SpeltText(<<ch>> \o t) = Spelt(ch) \o SpeltText(t)
  <2> DEFINE u == <<ch>> \o t
             w == <<Spelt(ch)>> \o spelt(t)
  <2>1. /\ u \in Seq(X) /\ Len(u) = 1 + Len(t) /\ Len(t) \in Nat /\ u[1] = ch
        /\ \A i \in 1 .. Len(t) : u[i + 1] = t[i]
    <3>1. <<ch>> \in Seq(X) /\ Len(<<ch>>) = 1 /\ <<ch>>[1] = ch
      OBVIOUS
    <3> HIDE DEF u
    <3>2. u = <<ch>> \o t
      BY DEF u
    <3>3. /\ u \in Seq(X) /\ Len(u) = Len(<<ch>>) + Len(t)
          /\ \A i \in 1 .. (Len(<<ch>>) + Len(t)) :
               u[i] = IF i <= Len(<<ch>>) THEN <<ch>>[i] ELSE t[i - Len(<<ch>>)]
      BY <3>1, <3>2, ConcatProperties
    <3>4. Len(t) \in Nat /\ 1 \in 1 .. (1 + Len(t))
          /\ \A i \in 1 .. Len(t) : i + 1 \in 1 .. (1 + Len(t)) /\ ~(i + 1 <= 1) /\ (i + 1) - 1 = i
      OBVIOUS
    <3> QED
      BY <3>1, <3>3, <3>4
  <2>2. <<Spelt(ch)>> \in Seq(Seq(X)) /\ Len(<<Spelt(ch)>>) = 1 /\ <<Spelt(ch)>>[1] = Spelt(ch)
    BY <1>1
  <2>3. /\ w \in Seq(Seq(X)) /\ Len(w) = 1 + Len(t) /\ w[1] = Spelt(ch)
        /\ \A i \in 1 .. Len(t) : w[i + 1] = Spelt(t[i])
    <3> DEFINE a == <<Spelt(ch)>>
               b == spelt(t)
    <3>1. a \in Seq(Seq(X)) /\ b \in Seq(Seq(X)) /\ Len(a) = 1 /\ Len(b) = Len(t) /\ a[1] = Spelt(ch)
          /\ \A i \in 1 .. Len(t) : b[i] = Spelt(t[i])
      BY <1>3, <2>2
    <3>2. w = a \o b
      OBVIOUS
    <3> HIDE DEF w, a, b
    <3>3. /\ w \in Seq(Seq(X)) /\ Len(w) = Len(a) + Len(b)
          /\ \A i \in 1 .. (Len(a) + Len(b)) : w[i] = IF i <= Len(a) THEN a[i] ELSE b[i - Len(a)]
      BY <3>1, <3>2, ConcatProperties, ZenonT(30)
    <3>4. Len(t) \in Nat /\ 1 \in 1 .. (1 + Len(t))
          /\ \A i \in 1 .. Len(t) : i + 1 \in 1 .. (1 + Len(t)) /\ ~(i + 1 <= 1) /\ (i + 1) - 1 = i
      OBVIOUS
    <3>5. w[1] = Spelt(ch)
      BY <3>1, <3>3, <3>4
    <3>6. ASSUME NEW i \in 1 .. Len(t)
          PROVE  w[i + 1] = Spelt(t[i])
      <4>1. w[i + 1] = b[i]
        BY <3>1, <3>3, <3>4
      <4> QED
        BY <3>1, <4>1
    <3> QED
      BY <3>1, <3>3, <3>5, <3>6
  <2> HIDE DEF u, w
  <2>4. spelt(u) \in Seq(Seq(X)) /\ Len(spelt(u)) = 1 + Len(t)
        /\ \A i \in 1 .. (1 + Len(t)) : spelt(u)[i] = Spelt(u[i])
    BY <1>3, <2>1
  <2>5. ASSUME NEW i \in 1 .. (1 + Len(t))
        PROVE  spelt(u)[i] = w[i]
    <3>1. CASE i = 1
      BY <2>1, <2>3, <2>4, <3>1
    <3>2. CASE i # 1
      <4>1. i - 1 \in 1 .. Len(t) /\ (i - 1) + 1 = i
        BY <2>1, <3>2
      <4>2. u[i] = t[i - 1] /\ w[i] = Spelt(t[i - 1])
        BY <2>1, <2>3, <4>1
      <4> QED
        BY <2>4, <4>2
    <3> QED
      BY <3>1, <3>2
  <2>6. spelt(u) = w
    BY <2>3, <2>4, <2>5, SeqEqual
  <2>7. FlattenSeq(w) = Spelt(ch) \o FlattenSeq(spelt(t))
    BY <1>1, <1>3, FlattenFirst DEF w
  <2> QED
    BY <1>2, <2>6, <2>7 DEF u
<1> QED
  BY <1>1, <1>2, <1>4, <1>5, <1>6, FlattenEmpty

\* A sequence is its first element and what follows, from any position.
LEMMA SubSeqFirst ==
  ASSUME NEW X, NEW c \in Seq(X), NEW j \in 1 .. Len(c)
  PROVE  /\ SubSeq(c, j, Len(c)) = <<c[j]>> \o SubSeq(c, j + 1, Len(c))
         /\ SubSeq(c, j + 1, Len(c)) \in Seq(X)
<1> DEFINE n == Len(c)
           a == SubSeq(c, j, n)
           b == SubSeq(c, j + 1, n)
           one == <<c[j]>>
<1>1. n \in Nat /\ j \in Nat /\ c[j] \in X /\ \A i \in j .. n : c[i] \in X
  OBVIOUS
<1>2. \A i \in (j + 1) .. n : c[i] \in X
  OBVIOUS
<1>3. /\ a \in Seq(X) /\ Len(a) = n - j + 1
      /\ \A i \in 1 .. (n - j + 1) : a[i] = c[j + i - 1]
  <2>1. j \in Int /\ n \in Int /\ j <= n
    OBVIOUS
  <2> QED
    BY <1>1, <2>1, SubSeqProperties
<1>4. /\ b \in Seq(X) /\ Len(b) = n - j
      /\ \A i \in 1 .. (n - j) : b[i] = c[j + i]
  <2>1. /\ j + 1 \in Int /\ n \in Int /\ n - (j + 1) + 1 = n - j
        /\ (IF j + 1 <= n THEN n - (j + 1) + 1 ELSE 0) = n - j
    BY <1>1
  <2>2. \A i \in 1 .. (n - j) : (j + 1) + i - 1 = j + i
    BY <1>1
  <2> HIDE DEF n
  <2>3. /\ b \in Seq(X) /\ Len(b) = IF j + 1 <= n THEN n - (j + 1) + 1 ELSE 0
        /\ \A i \in 1 .. (n - (j + 1) + 1) : b[i] = c[(j + 1) + i - 1]
    BY <1>2, <2>1, SubSeqProperties
  <2> HIDE DEF b
  <2> QED
    BY <2>1, <2>2, <2>3
<1>5. one \in Seq(X) /\ Len(one) = 1 /\ one[1] = c[j]
  BY <1>1
<1> DEFINE w == one \o b
<1>6. w = one \o b
  OBVIOUS
<1> HIDE DEF a, b, one, w
<1>7. /\ w \in Seq(X) /\ Len(w) = Len(one) + Len(b)
      /\ \A i \in 1 .. (Len(one) + Len(b)) : w[i] = IF i <= Len(one) THEN one[i] ELSE b[i - Len(one)]
  BY <1>4, <1>5, <1>6, ConcatProperties
<1>8. ASSUME NEW i \in 1 .. (n - j + 1)
      PROVE  a[i] = w[i]
  <2>1. CASE i = 1
    <3>1. 1 \in 1 .. (1 + (n - j)) /\ j + 1 - 1 = j
      BY <1>1
    <3> QED
      BY <1>3, <1>4, <1>5, <1>7, <2>1, <3>1
  <2>2. CASE i # 1
    <3>1. /\ i - 1 \in 1 .. (n - j) /\ ~(i <= 1) /\ i \in 1 .. (1 + (n - j))
          /\ j + (i - 1) = j + i - 1
      BY <1>1, <2>2
    <3>2. w[i] = b[i - 1]
      BY <1>4, <1>5, <1>7, <3>1
    <3> QED
      BY <1>3, <1>4, <3>1, <3>2
  <2> QED
    BY <2>1, <2>2
<1>9. Len(w) = n - j + 1
  BY <1>1, <1>4, <1>5, <1>7
<1>10. a = w
  BY <1>3, <1>7, <1>8, <1>9, SeqEqual
<1> QED
  BY <1>4, <1>10 DEF a, b, w, one

StringStep(c, h, j) ==
  IF j > Len(c) THEN [text |-> <<>>, closed |-> FALSE]
  ELSE IF c[j] # Apostrophe
       THEN LET rest == h[j + 1] IN [rest EXCEPT !.text = <<c[j]>> \o @]
  ELSE IF j < Len(c) /\ c[j + 1] = Apostrophe
       THEN LET rest == h[j + 2] IN [rest EXCEPT !.text = <<Apostrophe>> \o @]
  ELSE [text |-> <<>>, closed |-> TRUE]

StringBody(c) == CHOOSE h : h = [j \in 2 .. (Len(c) + 2) |-> StringStep(c, h, j)]

LEMMA StringFromIs ==
  ASSUME NEW c
  PROVE  StringFrom(c, 2) = StringBody(c)[2]
BY DEF StringFrom, StringBody, StringStep

StringRead(X) == [text : Seq(X), closed : BOOLEAN]

\* One character, or two apostrophes, before a text.
LEMMA StringStepType ==
  ASSUME NEW X, Apostrophe \in X, NEW c \in Seq(X), NEW j \in 1 .. (Len(c) + 2), NEW h,
         j <= Len(c) => h[j + 1] \in StringRead(X),
         j < Len(c) => h[j + 2] \in StringRead(X)
  PROVE  StringStep(c, h, j) \in StringRead(X)
<1>1. ASSUME NEW r \in StringRead(X), NEW ch \in X
      PROVE  [r EXCEPT !.text = <<ch>> \o @] \in StringRead(X)
  <2>1. <<ch>> \o r.text \in Seq(X)
    BY ConcatProperties DEF StringRead
  <2> DEFINE t == <<ch>> \o r.text
  <2>2. [r EXCEPT !.text = <<ch>> \o @] = [r EXCEPT !.text = t]
    OBVIOUS
  <2> HIDE DEF t
  <2>3. t \in Seq(X)
    BY <2>1 DEF t
  <2>4. [r EXCEPT !.text = t] \in StringRead(X)
    BY <2>3 DEF StringRead
  <2> QED
    BY <2>2, <2>4
<1>2. CASE j > Len(c)
  <2>1. <<>> \in Seq(X)
    OBVIOUS
  <2> QED
    BY <1>2, <2>1 DEF StringStep, StringRead
<1>3. CASE j <= Len(c) /\ c[j] # Apostrophe
  <2>1. ~(j > Len(c)) /\ c[j] \in X
    BY <1>3
  <2>2. StringStep(c, h, j) = [h[j + 1] EXCEPT !.text = <<c[j]>> \o @]
    BY <1>3, <2>1 DEF StringStep
  <2> QED
    BY <1>1, <1>3, <2>1, <2>2
<1>4. CASE j <= Len(c) /\ c[j] = Apostrophe /\ j < Len(c) /\ c[j + 1] = Apostrophe
  <2>1. ~(j > Len(c))
    BY <1>4
  <2>2. StringStep(c, h, j) = [h[j + 2] EXCEPT !.text = <<Apostrophe>> \o @]
    BY <1>4, <2>1 DEF StringStep
  <2> QED
    BY <1>1, <1>4, <2>2
<1>5. CASE j <= Len(c) /\ c[j] = Apostrophe /\ ~(j < Len(c) /\ c[j + 1] = Apostrophe)
  <2>1. ~(j > Len(c)) /\ <<>> \in Seq(X)
    BY <1>5
  <2> QED
    BY <1>5, <2>1 DEF StringStep, StringRead
<1>6. j > Len(c) \/ j <= Len(c)
  OBVIOUS
<1> QED
  BY <1>2, <1>3, <1>4, <1>5, <1>6

LEMMA StringSteps ==
  ASSUME NEW X, Apostrophe \in X, NEW c \in Seq(X)
  PROVE  \A j \in 2 .. (Len(c) + 2) :
           /\ StringBody(c)[j] \in StringRead(X)
           /\ StringBody(c)[j] = StringStep(c, StringBody(c), j)
<1> DEFINE n == Len(c) + 2
           Whole(h) == [j \in 2 .. n |-> StringStep(c, h, j)]
           B == [j \in 1 .. n |-> [h \in [(j + 1) .. n -> StringRead(X)] |-> StringStep(c, h, j)]]
<1>1. n \in Nat /\ n = Len(c) + 2 /\ Len(c) \in Nat
  OBVIOUS
<1>2. ASSUME NEW j \in 1 .. n, NEW h \in [(j + 1) .. n -> StringRead(X)]
      PROVE  B[j][h] = StringStep(c, h, j) /\ B[j][h] \in StringRead(X)
  <2>1. B[j][h] = StringStep(c, h, j)
    OBVIOUS
  <2> HIDE DEF B, n
  <2>2. /\ j <= Len(c) => h[j + 1] \in StringRead(X)
        /\ j < Len(c) => h[j + 2] \in StringRead(X)
    BY <1>1
  <2>3. j \in 1 .. (Len(c) + 2)
    BY <1>1
  <2> QED
    BY <2>1, <2>2, <2>3, StringStepType
<1> HIDE DEF B, n
<1>3. PICK g \in [1 .. n -> StringRead(X)] : \A j \in 1 .. n : g[j] = B[j][Following(g, j, n)]
  <2>1. Downward(B, n, StringRead(X))
    BY <1>2 DEF Downward
  <2> QED
    BY <1>1, <2>1, DownwardRecursion
\* Only the positions of the body itself and after it make a difference.
<1>4. ASSUME NEW j \in 1 .. n, NEW f, NEW h,
             j + 1 <= n => f[j + 1] = h[j + 1], j + 2 <= n => f[j + 2] = h[j + 2]
      PROVE  StringStep(c, f, j) = StringStep(c, h, j)
  <2>1. CASE j > Len(c)
    BY <2>1 DEF StringStep
  <2>2. CASE ~(j > Len(c)) /\ c[j] # Apostrophe
    <3>1. f[j + 1] = h[j + 1]
      BY <1>1, <1>4, <2>2
    <3> QED
      BY <2>2, <3>1 DEF StringStep
  <2>3. CASE ~(j > Len(c)) /\ c[j] = Apostrophe /\ j < Len(c) /\ c[j + 1] = Apostrophe
    <3>1. f[j + 2] = h[j + 2]
      BY <1>1, <1>4, <2>3
    <3> QED
      BY <2>3, <3>1 DEF StringStep
  <2>4. CASE ~(j > Len(c)) /\ c[j] = Apostrophe /\ ~(j < Len(c) /\ c[j + 1] = Apostrophe)
    BY <2>4 DEF StringStep
  <2> QED
    BY <2>1, <2>2, <2>3, <2>4
<1> DEFINE h == [j \in 2 .. n |-> g[j]]
<1>5. ASSUME NEW j \in 2 .. n
      PROVE  h[j] = StringStep(c, h, j)
  <2>1. j \in 1 .. n /\ h[j] = g[j]
    BY <1>1
  <2>2. Following(g, j, n) \in [(j + 1) .. n -> StringRead(X)]
    BY <1>1, <2>1 DEF Following
  <2>3. g[j] = StringStep(c, Following(g, j, n), j)
    BY <1>2, <1>3, <2>1, <2>2
  <2>4. /\ j + 1 <= n => Following(g, j, n)[j + 1] = h[j + 1]
        /\ j + 2 <= n => Following(g, j, n)[j + 2] = h[j + 2]
    <3>1. \A k \in (j + 1) .. n : Following(g, j, n)[k] = g[k] /\ h[k] = g[k]
      BY <1>1 DEF Following
    <3>2. /\ j + 1 <= n => j + 1 \in (j + 1) .. n
          /\ j + 2 <= n => j + 2 \in (j + 1) .. n
      BY <1>1
    <3> HIDE DEF h
    <3> QED
      BY <3>1, <3>2
  <2>5. StringStep(c, Following(g, j, n), j) = StringStep(c, h, j)
    <3> HIDE DEF h
    <3> QED
      BY <1>4, <2>1, <2>4
  <2> QED
    BY <2>1, <2>3, <2>5
<1>6. h = Whole(h)
  BY <1>5
<1>7. StringBody(c) = Whole(StringBody(c))
  <2>1. StringBody(c) = CHOOSE f : f = Whole(f)
    BY <1>1 DEF StringBody, Whole
  <2> HIDE DEF Whole, h
  <2> QED
    BY <1>6, <2>1
<1> DEFINE r == StringBody(c)
<1> HIDE DEF r, h
<1>8. \A j \in 2 .. n : r[j] = StringStep(c, r, j)
  BY <1>7 DEF r
<1> DEFINE P == {j \in 1 .. n : j >= 2 => r[j] \in StringRead(X)}
<1>9. ASSUME NEW j \in 1 .. n, \A k \in (j + 1) .. n : k \in P
      PROVE  j \in P
  <2> SUFFICES ASSUME j >= 2 PROVE r[j] \in StringRead(X)
    OBVIOUS
  <2>1. /\ j <= Len(c) => j + 1 \in (j + 1) .. n
        /\ j < Len(c) => j + 2 \in (j + 1) .. n
        /\ j \in 1 .. (Len(c) + 2) /\ j \in 2 .. n
    BY <1>1
  <2>2. \A k \in (j + 1) .. n : r[k] \in StringRead(X)
    BY <1>1, <1>9
  <2>3. /\ j <= Len(c) => r[j + 1] \in StringRead(X)
        /\ j < Len(c) => r[j + 2] \in StringRead(X)
    BY <2>1, <2>2
  <2>4. StringStep(c, r, j) \in StringRead(X)
    BY <2>1, <2>3, StringStepType
  <2> QED
    BY <1>8, <2>1, <2>4
<1>10. \A j \in 1 .. n : j \in P
  <2> HIDE DEF P
  <2> QED
    BY <1>1, <1>9, DownwardInduction
<1>11. \A j \in 2 .. n : r[j] \in StringRead(X)
  BY <1>10, <1>1
<1> QED
  BY <1>1, <1>8, <1>11 DEF r

\* The apostrophes behind the opening one, up to a position.
Apostrophes(c, j) == Cardinality({i \in 2 .. j : c[i] = Apostrophe})

LEMMA ApostrophesSteps ==
  ASSUME NEW c
  PROVE  /\ Apostrophes(c, 1) = 0
         /\ \A j \in Nat \ {0} :
              /\ Apostrophes(c, j) \in Nat
              /\ Apostrophes(c, j + 1) = IF c[j + 1] = Apostrophe THEN Apostrophes(c, j) + 1
                                                                  ELSE Apostrophes(c, j)
<1> DEFINE at(j) == {i \in 2 .. j : c[i] = Apostrophe}
<1>1. Apostrophes(c, 1) = 0
  <2>1. at(1) = {}
    OBVIOUS
  <2> QED
    BY <2>1, FS_EmptySet DEF Apostrophes
<1>2. ASSUME NEW j \in Nat \ {0}
      PROVE  /\ Apostrophes(c, j) \in Nat
             /\ Apostrophes(c, j + 1) = IF c[j + 1] = Apostrophe THEN Apostrophes(c, j) + 1
                                                                 ELSE Apostrophes(c, j)
  <2>1. IsFiniteSet(at(j)) /\ Cardinality(at(j)) \in Nat
    <3>1. IsFiniteSet(2 .. j) /\ at(j) \in SUBSET (2 .. j)
      BY FS_Interval
    <3> HIDE DEF at
    <3>2. IsFiniteSet(at(j))
      BY <3>1, FS_Subset
    <3> QED
      BY <3>2, FS_CardinalityType
  <2>2. Apostrophes(c, j) = Cardinality(at(j)) /\ Apostrophes(c, j + 1) = Cardinality(at(j + 1))
    BY DEF Apostrophes
  <2>3. CASE c[j + 1] = Apostrophe
    <3>1. at(j + 1) = at(j) \cup {j + 1} /\ j + 1 \notin at(j)
      BY <2>3
    <3> HIDE DEF at
    <3>2. Cardinality(at(j + 1)) = Cardinality(at(j)) + 1
      BY <2>1, <3>1, FS_AddElement
    <3> QED
      BY <2>1, <2>2, <2>3, <3>2
  <2>4. CASE c[j + 1] # Apostrophe
    <3>1. at(j + 1) = at(j)
      BY <2>4
    <3> HIDE DEF at
    <3> QED
      BY <2>1, <2>2, <2>4, <3>1
  <2> QED
    BY <2>3, <2>4
<1> QED
  BY <1>1, <1>2

\* What is left of the text at a position, if it is closed.
RestIsSpelt(c, j) ==
  Apostrophes(c, j - 1) % 2 = 0 /\ StringBody(c)[j].closed =>
    j <= Len(c) /\ SubSeq(c, j, Len(c)) = SpeltText(StringBody(c)[j].text) \o <<Apostrophe>>

\* Three sequences put together, grouped from the other end.
LEMMA Regrouped ==
  ASSUME NEW X, NEW s \in Seq(X), NEW t \in Seq(X), NEW u \in Seq(X)
  PROVE  s \o (t \o u) = (s \o t) \o u
<1>1. (s \o t) \o u = s \o (t \o u)
  BY ConcatAssociative
<1> QED
  BY <1>1

LEMMA RestsAreSpelt ==
  ASSUME NEW X, Apostrophe \in X, NEW c \in Seq(X), \A j \in 2 .. (Len(c) - 1) : ~Closes(c, j)
  PROVE  \A j \in 2 .. (Len(c) + 2) : RestIsSpelt(c, j)
<1> DEFINE n == Len(c)
           r == StringBody(c)
           P == {j \in 1 .. (n + 2) : j >= 2 => RestIsSpelt(c, j)}
<1>1. n \in Nat /\ n = Len(c)
  OBVIOUS
<1>2. \A j \in 2 .. (n + 2) : r[j] \in StringRead(X) /\ r[j] = StringStep(c, r, j)
  BY StringSteps
<1> HIDE DEF r, n
<1>3. \A x \in StringRead(X) : x.text \in Seq(X) /\ x.closed \in BOOLEAN
  BY DEF StringRead
<1>4. \A x \in StringRead(X) : \A w :
        [x EXCEPT !.text = w].text = w /\ [x EXCEPT !.text = w].closed = x.closed
  BY DEF StringRead
<1>5. <<Apostrophe>> \in Seq(X)
  BY SmallSeqs
<1>6. ASSUME NEW j \in 2 .. (n + 2), \A k \in (j + 1) .. (n + 2) : RestIsSpelt(c, k),
             Apostrophes(c, j - 1) % 2 = 0, r[j].closed
      PROVE  j <= n /\ SubSeq(c, j, n) = SpeltText(r[j].text) \o <<Apostrophe>>
  <2>1. j \in Nat /\ j - 1 \in Nat \ {0} /\ (j - 1) + 1 = j
        /\ j \in Nat \ {0} /\ (j + 1) - 1 = j /\ (j + 2) - 1 = j + 1 /\ (j + 1) + 1 = j + 2
    BY <1>1
  <2>2. /\ Apostrophes(c, j - 1) \in Nat /\ Apostrophes(c, j) \in Nat
        /\ Apostrophes(c, j) = IF c[j] = Apostrophe THEN Apostrophes(c, j - 1) + 1
                                                    ELSE Apostrophes(c, j - 1)
        /\ Apostrophes(c, j + 1) = IF c[j + 1] = Apostrophe THEN Apostrophes(c, j) + 1
                                                            ELSE Apostrophes(c, j)
    BY <2>1, ApostrophesSteps
  <2>3. j <= n
    <3> SUFFICES ASSUME j > n PROVE FALSE
      BY <1>1, <2>1
    <3>1. r[j] = [text |-> <<>>, closed |-> FALSE]
      BY <1>1, <1>2 DEF StringStep
    <3> QED
      BY <1>6, <3>1
  <2>4. j \in 1 .. Len(c) /\ c[j] \in X /\ ~(j > Len(c))
    BY <1>1, <2>1, <2>3
  <2>5. SubSeq(c, j, n) = <<c[j]>> \o SubSeq(c, j + 1, n) /\ SubSeq(c, j + 1, n) \in Seq(X)
    BY <1>1, <2>4, SubSeqFirst
  <2>6. CASE c[j] # Apostrophe
    <3>1. r[j] = [r[j + 1] EXCEPT !.text = <<c[j]>> \o @]
      BY <1>2, <2>4, <2>6 DEF StringStep
    <3>2. j + 1 \in 2 .. (n + 2) /\ j + 1 \in (j + 1) .. (n + 2)
      BY <1>1, <2>1, <2>3
    <3> DEFINE t == r[j + 1].text
    <3>3. t \in Seq(X) /\ r[j + 1] \in StringRead(X)
      BY <1>2, <1>3, <3>2
    <3>4. r[j].text = <<c[j]>> \o t /\ r[j].closed = r[j + 1].closed
      BY <1>4, <3>1, <3>3
    <3> HIDE DEF t
    <3>5. Apostrophes(c, (j + 1) - 1) % 2 = 0
      BY <1>6, <2>1, <2>2, <2>6
    <3>6. SubSeq(c, j + 1, n) = SpeltText(t) \o <<Apostrophe>>
      BY <1>1, <1>6, <3>2, <3>4, <3>5 DEF RestIsSpelt, r, t
    <3>7. SpeltText(t) \in Seq(X) /\ SpeltText(r[j].text) = <<c[j]>> \o SpeltText(t)
      BY <2>4, <2>6, <3>3, <3>4, SpeltSteps DEF Spelt
    <3>8. <<c[j]>> \o (SpeltText(t) \o <<Apostrophe>>) = (<<c[j]>> \o SpeltText(t)) \o <<Apostrophe>>
      BY <1>5, <2>4, <3>7, SmallSeqs, ConcatAssociative
    <3> QED
      BY <2>3, <2>5, <3>6, <3>7, <3>8
  <2>7. CASE c[j] = Apostrophe /\ j < n /\ c[j + 1] = Apostrophe
    <3>1. r[j] = [r[j + 2] EXCEPT !.text = <<Apostrophe>> \o @]
      BY <1>1, <1>2, <2>4, <2>7 DEF StringStep
    <3>2. j + 2 \in 2 .. (n + 2) /\ j + 2 \in (j + 1) .. (n + 2) /\ j + 1 \in 1 .. Len(c)
      BY <1>1, <2>1, <2>3, <2>7
    <3> DEFINE t == r[j + 2].text
    <3>3. t \in Seq(X) /\ r[j + 2] \in StringRead(X)
      BY <1>2, <1>3, <3>2
    <3>4. r[j].text = <<Apostrophe>> \o t /\ r[j].closed = r[j + 2].closed
      BY <1>4, <3>1, <3>3
    <3> HIDE DEF t
    <3>5. Apostrophes(c, (j + 2) - 1) % 2 = 0
      <4>1. Apostrophes(c, j + 1) = (Apostrophes(c, j - 1) + 1) + 1
        BY <2>2, <2>7
      <4>2. ((Apostrophes(c, j - 1) + 1) + 1) % 2 = 0
        BY <1>6, <2>2
      <4> QED
        BY <2>1, <4>1, <4>2
    <3>6. SubSeq(c, j + 2, n) = SpeltText(t) \o <<Apostrophe>>
      BY <1>1, <1>6, <3>2, <3>4, <3>5 DEF RestIsSpelt, r, t
    <3>7. /\ SpeltText(t) \in Seq(X)
          /\ SpeltText(r[j].text) = <<Apostrophe, Apostrophe>> \o SpeltText(t)
      BY <2>4, <2>7, <3>3, <3>4, SpeltSteps DEF Spelt
    <3>8. SubSeq(c, j + 1, n) = <<Apostrophe>> \o SubSeq(c, j + 2, n)
      BY <1>1, <2>1, <2>7, <3>2, SubSeqFirst
    <3> DEFINE one == <<Apostrophe>>
               u == SpeltText(t)
    <3>9. one \in Seq(X) /\ u \in Seq(X) /\ one \o one = <<Apostrophe, Apostrophe>>
          /\ <<Apostrophe, Apostrophe>> \in Seq(X)
      BY <1>5, <3>7, OneAndOne, SmallSeqs
    <3>10. SubSeq(c, j, n) = one \o (one \o (u \o one))
      BY <2>5, <2>7, <3>6, <3>8
    <3>11. SpeltText(r[j].text) = (one \o one) \o u
      BY <3>7, <3>9
    <3> HIDE DEF one, u
    <3>12. one \o (one \o (u \o one)) = ((one \o one) \o u) \o one
      <4>1. u \o one \in Seq(X) /\ one \o one \in Seq(X)
        BY <3>9, ConcatProperties
      <4>2. one \o (one \o (u \o one)) = (one \o one) \o (u \o one)
        <5> DEFINE v == u \o one
        <5>1. v \in Seq(X)
          BY <4>1
        <5> HIDE DEF v
        <5>2. one \in Seq(X)
          BY <3>9
        <5>3. one \o (one \o v) = (one \o one) \o v
          BY <5>1, <5>2, Regrouped
        <5> QED
          BY <5>3 DEF v
      <4>3. (one \o one) \o (u \o one) = ((one \o one) \o u) \o one
        <5> DEFINE w == one \o one
        <5>1. w \in Seq(X) /\ one \in Seq(X) /\ u \in Seq(X)
          BY <3>9, <4>1
        <5> HIDE DEF w
        <5>2. w \o (u \o one) = (w \o u) \o one
          BY <5>1, Regrouped, SMTT(30)
        <5> QED
          BY <5>2 DEF w
      <4> QED
        BY <4>2, <4>3
    <3>13. SubSeq(c, j, n) = SpeltText(r[j].text) \o one
      BY <3>10, <3>11, <3>12
    <3> QED
      BY <2>3, <3>13 DEF one
  <2>8. CASE c[j] = Apostrophe /\ ~(j < n /\ c[j + 1] = Apostrophe)
    <3>1. r[j] = [text |-> <<>>, closed |-> TRUE]
      BY <1>1, <1>2, <2>4, <2>8 DEF StringStep
    <3>2. j = n
      <4> SUFFICES ASSUME j < n PROVE FALSE
        BY <1>1, <2>1, <2>3
      <4>1. Apostrophes(c, j) % 2 = 1
        BY <1>6, <2>2, <2>8
      <4>2. Closes(c, j)
        BY <1>1, <2>8, <4>1 DEF Closes, Apostrophes
      <4>3. j \in 2 .. (Len(c) - 1)
        BY <1>1
      <4> QED
        BY <4>2, <4>3
    <3>3. SubSeq(c, j + 1, n) = <<>>
      <4>1. j + 1 \in Int /\ n \in Int /\ n < j + 1
        BY <1>1, <3>2
      <4> QED
        BY <4>1, SubSeqEmpty
    <3>4. <<Apostrophe>> \o <<>> = <<Apostrophe>> /\ <<>> \o <<Apostrophe>> = <<Apostrophe>>
      BY <1>5, ConcatEmptySeq
    <3>5. SpeltText(r[j].text) = <<>>
      BY <3>1, SpeltSteps
    <3> QED
      BY <2>3, <2>5, <2>8, <3>3, <3>4, <3>5
  <2> QED
    BY <2>6, <2>7, <2>8
<1>7. ASSUME NEW j \in 1 .. (n + 2), \A k \in (j + 1) .. (n + 2) : k \in P
      PROVE  j \in P
  <2> SUFFICES ASSUME j >= 2 PROVE RestIsSpelt(c, j)
    OBVIOUS
  <2>1. \A k \in (j + 1) .. (n + 2) : RestIsSpelt(c, k)
    BY <1>1, <1>7
  <2>2. j \in 2 .. (n + 2)
    BY <1>1
  <2>3. Apostrophes(c, j - 1) % 2 = 0 /\ r[j].closed =>
          j <= n /\ SubSeq(c, j, n) = SpeltText(r[j].text) \o <<Apostrophe>>
    BY <1>6, <2>1, <2>2
  <2> QED
    BY <2>3 DEF RestIsSpelt, r, n
<1>8. \A j \in 1 .. (n + 2) : j \in P
  <2>1. n + 2 \in Nat
    BY <1>1
  <2> HIDE DEF P
  <2> QED
    BY <1>7, <2>1, DownwardInduction
<1> QED
  BY <1>1, <1>8

LEMMA TextsReadBack ==
  ASSUME NEW X, NEW c \in Seq(X), c # <<>>, c[1] = Apostrophe,
         \A j \in 2 .. (Len(c) - 1) : ~Closes(c, j), StringFrom(c, 2).closed
  PROVE  c = <<Apostrophe>> \o SpeltText(StringFrom(c, 2).text) \o <<Apostrophe>>
<1>1. Len(c) \in Nat /\ Len(c) >= 1 /\ 1 \in 1 .. Len(c)
  <2>1. Len(c) \in Nat /\ Len(c) # 0
    BY EmptySeq
  <2> QED
    BY <2>1
<1>2. Apostrophe \in X
  BY <1>1
<1> DEFINE t == StringFrom(c, 2).text
<1>3. t = StringBody(c)[2].text /\ StringBody(c)[2].closed
  BY StringFromIs
<1>4. 2 \in 2 .. (Len(c) + 2)
  BY <1>1
<1>5. t \in Seq(X)
  BY <1>2, <1>3, <1>4, StringSteps DEF StringRead
<1> HIDE DEF t
<1>6. SubSeq(c, 2, Len(c)) = SpeltText(t) \o <<Apostrophe>>
  <2>1. Apostrophes(c, 2 - 1) % 2 = 0
    BY ApostrophesSteps
  <2>2. RestIsSpelt(c, 2)
    BY <1>2, <1>4, RestsAreSpelt
  <2> QED
    BY <1>3, <2>1, <2>2 DEF RestIsSpelt
<1>7. SubSeq(c, 1, Len(c)) = <<Apostrophe>> \o SubSeq(c, 2, Len(c))
  BY <1>1, SubSeqFirst
<1>8. SubSeq(c, 1, Len(c)) = c
  BY SubSeqFull
<1>9. <<Apostrophe>> \o (SpeltText(t) \o <<Apostrophe>>) = <<Apostrophe>> \o SpeltText(t) \o <<Apostrophe>>
  <2>1. SpeltText(t) \in Seq(X) /\ <<Apostrophe>> \in Seq(X)
    BY <1>2, <1>5, SpeltSteps, SmallSeqs
  <2> QED
    BY <2>1, ConcatAssociative
<1> QED
  BY <1>6, <1>7, <1>8, <1>9 DEF t

\* Every literal token that is a value is spelled as its value is written
\* back: an integer of any length loses its leading zeros and its plus sign
\* and keeps its value, down to the smallest one, and a text keeps every
\* apostrophe (parse_integer_value, parse_string_value).
THEOREM LiteralsAreReadBack == LiteralsReadBack
<1> SUFFICES ASSUME NEW t \in Tokens, IsValue(t)
             PROVE  Spells(t, WriteLiteral(ValueOf(t)))
  BY DEF LiteralsReadBack
<1>1. CASE t.kind = "int"
  <2>1. InRange(t)
    BY <1>1 DEF IsValue
  <2>2. IsNumber(t)
    BY <1>1, LiteralsAreTokens DEF IsNumber, Numeral, DigitChar
  <2>3. Shortest(t) = WriteInteger(Value(t), LongMax)
    BY <2>1, <2>2, NumbersReadBack
  <2>4. ValueOf(t) = [type |-> "INT", int |-> Value(t)]
    BY <1>1 DEF ValueOf
  <2>5. WriteLiteral(ValueOf(t)) = [kind |-> "int", chars |-> WriteInteger(Value(t), LongMax)]
    BY <2>4 DEF WriteLiteral
  <2> QED
    BY <1>1, <2>3, <2>5 DEF Spells
<1>2. CASE t.kind # "int"
  <2>1. t.kind = "string" /\ StringFrom(t.chars, 2).closed
    BY <1>2 DEF IsValue
  <2> DEFINE c == t.chars
             text == StringFrom(c, 2).text
             whole == <<Apostrophe>> \o SpeltText(text) \o <<Apostrophe>>
  <2>2. c \in Seq(ToSet(c)) /\ c # <<>> /\ c[1] = Apostrophe
        /\ \A j \in 2 .. (Len(c) - 1) : ~Closes(c, j)
    BY <2>1, LiteralsAreTokens
  <2>3. StringFrom(c, 2).closed
    BY <2>1
  <2>4. ValueOf(t) = [type |-> "STRING", text |-> text]
    BY <1>2 DEF ValueOf
  <2> HIDE DEF c
  <2>5. c = whole
    BY <2>2, <2>3, TextsReadBack
  <2> HIDE DEF text
  <2>6. WriteLiteral(ValueOf(t)) = [kind |-> "string", chars |-> whole]
    BY <2>4 DEF WriteLiteral, SpeltText, Spelt
  <2> QED
    BY <2>1, <2>5, <2>6 DEF Spells, c
<1> QED
  BY <1>1, <1>2

----------------------------------------------------------------------------
(***************************************************************************)
(* What a statement is written back with, and the lists in it.             *)
(***************************************************************************)
Symbols ==
  {Keyword(k) : k \in Keywords}
  \cup {Mark(ch) : ch \in {"(", ")", ".", "*"}} \cup {CommaMark, SemicolonMark}
  \cup {Word(w) : w \in TokenWords \cup {NoName}}
  \cup {WriteLiteral(v) : v \in TokenValues}

LEMMA SymbolsAre ==
  /\ \A k \in Keywords : Keyword(k) \in Symbols
  /\ \A ch \in {"(", ")", ".", "*"} : Mark(ch) \in Symbols
  /\ CommaMark \in Symbols /\ SemicolonMark \in Symbols
  /\ \A w \in TokenWords \cup {NoName} : Word(w) \in Symbols
  /\ \A v \in TokenValues : WriteLiteral(v) \in Symbols
  BY DEF Symbols

\* One more item of a list.
LEMMA ListAppend ==
  ASSUME NEW X, CommaMark \in X, NEW items \in Seq(X)
  PROVE  /\ List(items) \in Seq(X) /\ GoingOn(items) \in Seq(X)
         /\ \A x \in X : List(Append(items, x)) = GoingOn(items) \o <<x>>
<1> DEFINE Item(its, i) == IF i = 1 THEN <<its[i]>> ELSE <<CommaMark, its[i]>>
           Items(its) == [i \in DOMAIN its |-> Item(its, i)]
<1>1. \A its : List(its) = FlattenSeq(Items(its))
  BY DEF List, CommaMark
<1>2. /\ DOMAIN items = 1 .. Len(items) /\ Len(items) \in Nat
      /\ \A i \in 1 .. Len(items) : items[i] \in X
  BY LenProperties, ElementOfSeq
<1>3. Items(items) \in Seq(Seq(X)) /\ Len(Items(items)) = Len(items)
  <2>1. \A i \in 1 .. Len(items) : Item(items, i) \in Seq(X)
    BY <1>2
  <2> HIDE DEF Item
  <2>2. Items(items) \in [1 .. Len(items) -> Seq(X)]
    BY <1>2, <2>1
  <2> QED
    BY <1>2, <2>2, FunctionIsSeq
<1>4. List(items) \in Seq(X)
  BY <1>1, <1>3, FlattenType
<1>5. <<CommaMark>> \in Seq(X)
  OBVIOUS
<1>6. GoingOn(items) \in Seq(X)
  BY <1>4, <1>5, ConcatProperties, EmptySeq DEF GoingOn
<1>7. ASSUME NEW x \in X
      PROVE  List(Append(items, x)) = GoingOn(items) \o <<x>>
  <2> DEFINE more == Append(items, x)
             last == IF items = <<>> THEN <<x>> ELSE <<CommaMark, x>>
  <2>1. /\ more \in Seq(X) /\ Len(more) = Len(items) + 1 /\ more[Len(items) + 1] = x
        /\ \A i \in 1 .. Len(items) : more[i] = items[i]
    BY AppendProperties
  <2>2. DOMAIN more = 1 .. (Len(items) + 1)
    BY <2>1, LenProperties
  <2> HIDE DEF more
  <2>3. Item(more, Len(items) + 1) = last
    BY <1>2, <2>1, EmptySeq
  <2>4. \A i \in 1 .. Len(items) : Item(more, i) = Item(items, i)
    BY <2>1
  <2>5. last \in Seq(X) /\ <<x>> \in Seq(X)
    OBVIOUS
  <2>6. items # <<>> => last = <<CommaMark>> \o <<x>>
    OBVIOUS
  <2>7. items = <<>> => last = <<x>>
    OBVIOUS
  <2> HIDE DEF last
  <2>8. Items(more) = Append(Items(items), last)
    <3>1. \A i \in 1 .. (Len(items) + 1) : Item(more, i) \in Seq(X)
      <4>1. \A i \in 1 .. Len(items) : Item(items, i) \in Seq(X)
        BY <1>2
      <4> HIDE DEF Item
      <4> QED
        BY <1>2, <2>3, <2>4, <2>5, <4>1
    <3> HIDE DEF Item
    <3>2. Items(more) \in [1 .. (Len(items) + 1) -> Seq(X)]
      BY <2>2, <3>1
    <3>3. Items(more) \in Seq(Seq(X)) /\ Len(Items(more)) = Len(items) + 1
      <4>1. Len(items) + 1 \in Nat
        BY <1>2
      <4> HIDE DEF Items
      <4> QED
        BY <3>2, <4>1, FunctionIsSeq
    <3>4. /\ \A i \in 1 .. (Len(items) + 1) : Items(more)[i] = Item(more, i)
          /\ \A i \in 1 .. Len(items) : Items(items)[i] = Item(items, i)
      BY <1>2, <2>2
    <3> HIDE DEF Items
    <3>5. /\ Append(Items(items), last) \in Seq(Seq(X))
          /\ Len(Append(Items(items), last)) = Len(items) + 1
          /\ \A i \in 1 .. Len(items) : Append(Items(items), last)[i] = Items(items)[i]
          /\ Append(Items(items), last)[Len(items) + 1] = last
      BY <1>3, <2>5, AppendProperties
    <3>6. \A i \in 1 .. (Len(items) + 1) : Items(more)[i] = Append(Items(items), last)[i]
      BY <1>2, <2>3, <2>4, <3>4, <3>5
    <3> QED
      BY <3>3, <3>5, <3>6, SeqEqual
  <2> HIDE DEF Items
  <2>9. List(more) = List(items) \o last
    BY <1>1, <1>3, <2>5, <2>8, FlattenAppend
  <2>10. CASE items = <<>>
    <3>1. List(items) = <<>>
      <4>1. Len(Items(items)) = 0
        BY <1>3, <2>10
      <4>2. Items(items) = <<>>
        BY <1>3, <4>1, EmptySeq
      <4> QED
        BY <1>1, <4>2, FlattenEmpty
    <3> QED
      BY <2>7, <2>9, <2>10, <3>1 DEF GoingOn, more
  <2>11. CASE items # <<>>
    <3>1. (List(items) \o <<CommaMark>>) \o <<x>> = List(items) \o (<<CommaMark>> \o <<x>>)
      BY <1>4, <1>5, <2>5, ConcatAssociative
    <3> QED
      BY <2>6, <2>9, <2>11, <3>1 DEF GoingOn, more
  <2> QED
    BY <2>10, <2>11
<1> QED
  BY <1>4, <1>6, <1>7

LEMMA WordListAppend ==
  ASSUME NEW cols \in Seq(TokenWords)
  PROVE  /\ WordList(cols) \in Seq(Symbols) /\ Len(WordList(cols)) = Len(cols)
         /\ \A w \in TokenWords : WordList(Append(cols, w)) = Append(WordList(cols), Word(w))
<1>1. /\ DOMAIN cols = 1 .. Len(cols) /\ Len(cols) \in Nat
      /\ \A i \in 1 .. Len(cols) : cols[i] \in TokenWords
  BY LenProperties, ElementOfSeq
<1>2. WordList(cols) \in [1 .. Len(cols) -> Symbols]
  BY <1>1, SymbolsAre DEF WordList
<1>3. WordList(cols) \in Seq(Symbols) /\ Len(WordList(cols)) = Len(cols)
  BY <1>1, <1>2, FunctionIsSeq
<1>4. ASSUME NEW w \in TokenWords
      PROVE  WordList(Append(cols, w)) = Append(WordList(cols), Word(w))
  <2> DEFINE more == Append(cols, w)
  <2>1. /\ more \in Seq(TokenWords) /\ Len(more) = Len(cols) + 1 /\ more[Len(cols) + 1] = w
        /\ \A i \in 1 .. Len(cols) : more[i] = cols[i]
    BY AppendProperties
  <2>2. DOMAIN more = 1 .. (Len(cols) + 1) /\ \A i \in 1 .. (Len(cols) + 1) : more[i] \in TokenWords
    BY <2>1, LenProperties, ElementOfSeq
  <2> HIDE DEF more
  <2>3. WordList(more) \in [1 .. (Len(cols) + 1) -> Symbols]
    BY <2>2, SymbolsAre DEF WordList
  <2>4. WordList(more) \in Seq(Symbols) /\ Len(WordList(more)) = Len(cols) + 1
    <3>1. Len(cols) + 1 \in Nat
      BY <1>1
    <3> QED
      BY <2>3, <3>1, FunctionIsSeq
  <2>5. Word(w) \in Symbols
    BY SymbolsAre
  <2>6. /\ Append(WordList(cols), Word(w)) \in Seq(Symbols)
        /\ Len(Append(WordList(cols), Word(w))) = Len(cols) + 1
        /\ \A i \in 1 .. Len(cols) : Append(WordList(cols), Word(w))[i] = WordList(cols)[i]
        /\ Append(WordList(cols), Word(w))[Len(cols) + 1] = Word(w)
    BY <1>3, <2>5, AppendProperties
  <2>7. /\ \A i \in 1 .. (Len(cols) + 1) : WordList(more)[i] = Word(more[i])
        /\ \A i \in 1 .. Len(cols) : WordList(cols)[i] = Word(cols[i])
    BY <1>1, <2>2 DEF WordList
  <2>8. \A i \in 1 .. (Len(cols) + 1) : WordList(more)[i] = Append(WordList(cols), Word(w))[i]
    BY <1>1, <2>1, <2>6, <2>7
  <2>9. WordList(more) = Append(WordList(cols), Word(w))
    BY <2>4, <2>6, <2>8, SeqEqual
  <2> QED
    BY <2>9 DEF more
<1> QED
  BY <1>3, <1>4

LEMMA LiteralListAppend ==
  ASSUME NEW vals \in Seq(TokenValues)
  PROVE  /\ LiteralList(vals) \in Seq(Symbols) /\ Len(LiteralList(vals)) = Len(vals)
         /\ \A v \in TokenValues :
              LiteralList(Append(vals, v)) = Append(LiteralList(vals), WriteLiteral(v))
<1>1. /\ DOMAIN vals = 1 .. Len(vals) /\ Len(vals) \in Nat
      /\ \A i \in 1 .. Len(vals) : vals[i] \in TokenValues
  BY LenProperties, ElementOfSeq
<1>2. LiteralList(vals) \in [1 .. Len(vals) -> Symbols]
  BY <1>1, SymbolsAre DEF LiteralList
<1>3. LiteralList(vals) \in Seq(Symbols) /\ Len(LiteralList(vals)) = Len(vals)
  BY <1>1, <1>2, FunctionIsSeq
<1>4. ASSUME NEW v \in TokenValues
      PROVE  LiteralList(Append(vals, v)) = Append(LiteralList(vals), WriteLiteral(v))
  <2> DEFINE more == Append(vals, v)
  <2>1. /\ more \in Seq(TokenValues) /\ Len(more) = Len(vals) + 1 /\ more[Len(vals) + 1] = v
        /\ \A i \in 1 .. Len(vals) : more[i] = vals[i]
    BY AppendProperties
  <2>2. DOMAIN more = 1 .. (Len(vals) + 1) /\ \A i \in 1 .. (Len(vals) + 1) : more[i] \in TokenValues
    BY <2>1, LenProperties, ElementOfSeq
  <2> HIDE DEF more
  <2>3. LiteralList(more) \in [1 .. (Len(vals) + 1) -> Symbols]
    BY <2>2, SymbolsAre DEF LiteralList
  <2>4. LiteralList(more) \in Seq(Symbols) /\ Len(LiteralList(more)) = Len(vals) + 1
    <3>1. Len(vals) + 1 \in Nat
      BY <1>1
    <3> QED
      BY <2>3, <3>1, FunctionIsSeq
  <2>5. WriteLiteral(v) \in Symbols
    BY SymbolsAre
  <2>6. /\ Append(LiteralList(vals), WriteLiteral(v)) \in Seq(Symbols)
        /\ Len(Append(LiteralList(vals), WriteLiteral(v))) = Len(vals) + 1
        /\ \A i \in 1 .. Len(vals) : Append(LiteralList(vals), WriteLiteral(v))[i] = LiteralList(vals)[i]
        /\ Append(LiteralList(vals), WriteLiteral(v))[Len(vals) + 1] = WriteLiteral(v)
    BY <1>3, <2>5, AppendProperties
  <2>7. /\ \A i \in 1 .. (Len(vals) + 1) : LiteralList(more)[i] = WriteLiteral(more[i])
        /\ \A i \in 1 .. Len(vals) : LiteralList(vals)[i] = WriteLiteral(vals[i])
    BY <1>1, <2>2 DEF LiteralList
  <2>8. \A i \in 1 .. (Len(vals) + 1) : LiteralList(more)[i] = Append(LiteralList(vals), WriteLiteral(v))[i]
    BY <1>1, <2>1, <2>6, <2>7
  <2>9. LiteralList(more) = Append(LiteralList(vals), WriteLiteral(v))
    BY <2>4, <2>6, <2>8, SeqEqual
  <2> QED
    BY <2>9 DEF more
<1> QED
  BY <1>3, <1>4

----------------------------------------------------------------------------
(***************************************************************************)
(* The parts of a statement that is written back.                          *)
(***************************************************************************)
LEMMA SymbolSeqs ==
  /\ <<>> \in Seq(Symbols)
  /\ \A s, t \in Seq(Symbols) : s \o t \in Seq(Symbols)
  /\ \A a \in Symbols : <<a>> \in Seq(Symbols)
  /\ \A a, b \in Symbols : <<a, b>> \in Seq(Symbols)
  BY ConcatProperties, SmallSeqs, EmptySeq

LEMMA PartTypes ==
  ASSUME NEW st \in ParsedStatement
  PROVE  /\ WordList(st.cols) \in Seq(Symbols) /\ LiteralList(st.vals) \in Seq(Symbols)
         /\ List(WordList(st.cols)) \in Seq(Symbols) /\ GoingOn(WordList(st.cols)) \in Seq(Symbols)
         /\ List(LiteralList(st.vals)) \in Seq(Symbols) /\ GoingOn(LiteralList(st.vals)) \in Seq(Symbols)
         /\ Selected(st) \in Seq(Symbols) /\ Opening(st) \in Seq(Symbols)
         /\ Target(st) \in Seq(Symbols) /\ Columns(st) \in Seq(Symbols) /\ Valued(st) \in Seq(Symbols)
         /\ Parenthesized(LiteralList(st.vals)) \in Seq(Symbols)
<1>1. /\ st.cols \in Seq(TokenWords) /\ st.vals \in Seq(TokenValues)
      /\ st.schema \in TokenWords \cup {NoName} /\ st.table \in TokenWords \cup {NoName}
  BY DEF ParsedStatement
<1>2. WordList(st.cols) \in Seq(Symbols) /\ LiteralList(st.vals) \in Seq(Symbols)
  BY <1>1, WordListAppend, LiteralListAppend
<1>3. CommaMark \in Symbols
  BY SymbolsAre
<1>4. /\ List(WordList(st.cols)) \in Seq(Symbols) /\ GoingOn(WordList(st.cols)) \in Seq(Symbols)
  BY <1>2, <1>3, ListAppend
<1>5. List(LiteralList(st.vals)) \in Seq(Symbols) /\ GoingOn(LiteralList(st.vals)) \in Seq(Symbols)
  BY <1>2, <1>3, ListAppend
<1>6. /\ Keyword("INSERT") \in Symbols /\ Keyword("INTO") \in Symbols /\ Keyword("VALUES") \in Symbols
      /\ Keyword("SELECT") \in Symbols /\ Keyword("FROM") \in Symbols
  BY SymbolsAre DEF Keywords
<1>7. Mark("(") \in Symbols /\ Mark(")") \in Symbols /\ Mark(".") \in Symbols /\ Mark("*") \in Symbols
  BY SymbolsAre
<1>8. Word(st.schema) \in Symbols /\ Word(st.table) \in Symbols
  BY <1>1, SymbolsAre
<1>9. Selected(st) \in Seq(Symbols)
  BY <1>4, <1>6, <1>7, SymbolSeqs DEF Selected
<1>10. Opening(st) \in Seq(Symbols)
  BY <1>6, <1>9, SymbolSeqs DEF Opening
<1>11. Target(st) \in Seq(Symbols)
  <2>1. <<Word(st.schema), Mark("."), Word(st.table)>>
          = <<Word(st.schema), Mark(".")>> \o <<Word(st.table)>>
    OBVIOUS
  <2>2. <<Word(st.schema), Mark("."), Word(st.table)>> \in Seq(Symbols)
    BY <1>7, <1>8, <2>1, SymbolSeqs
  <2> QED
    BY <1>8, <2>2, SymbolSeqs DEF Target
<1>12. \A items : List(items) \in Seq(Symbols) => Parenthesized(items) \in Seq(Symbols)
  BY <1>7, SymbolSeqs DEF Parenthesized
<1>13. Columns(st) \in Seq(Symbols)
  BY <1>4, <1>12, SymbolSeqs DEF Columns
<1>14. Valued(st) \in Seq(Symbols)
  BY <1>6, <1>10, <1>11, <1>13, SymbolSeqs DEF Valued
<1> QED
  BY <1>2, <1>4, <1>5, <1>9, <1>10, <1>11, <1>12, <1>13, <1>14

\* What has been read, place by place.
LEMMA ReadAsAt ==
  ASSUME NEW st
  PROVE  /\ \A there \in {"unread", "statement", "parsed", "failed"} : ReadAs(there, st) = <<>>
         /\ ReadAs("into", st) = <<Keyword("INSERT")>>
         /\ ReadAs("selected", st) = <<Keyword("SELECT")>>
         /\ ReadAs("name", st) = <<Keyword("SELECT")>> \o GoingOn(WordList(st.cols))
         /\ ReadAs("nameNext", st) = <<Keyword("SELECT")>> \o List(WordList(st.cols))
         /\ ReadAs("from", st) = Selected(st)
         /\ ReadAs("table", st) = Opening(st)
         /\ ReadAs("dot", st) = Opening(st) \o <<Word(st.table)>>
         /\ ReadAs("member", st) = Opening(st) \o <<Word(st.table), Mark(".")>>
         /\ ReadAs("columns", st) = Opening(st) \o Target(st)
         /\ ReadAs("column", st) = (Opening(st) \o Target(st)) \o (<<Mark("(")>> \o GoingOn(WordList(st.cols)))
         /\ ReadAs("columnNext", st) = (Opening(st) \o Target(st)) \o (<<Mark("(")>> \o List(WordList(st.cols)))
         /\ ReadAs("values", st) = (Opening(st) \o Target(st)) \o Columns(st)
         /\ ReadAs("open", st) = Valued(st)
         /\ ReadAs("value", st) = Valued(st) \o (<<Mark("(")>> \o GoingOn(LiteralList(st.vals)))
         /\ ReadAs("valueNext", st) = Valued(st) \o (<<Mark("(")>> \o List(LiteralList(st.vals)))
         /\ ReadAs("counted", st) = Valued(st) \o Parenthesized(LiteralList(st.vals))
         /\ ReadAs("end", st) = IF st.kind = "INSERT"
                                THEN Valued(st) \o Parenthesized(LiteralList(st.vals))
                                ELSE Opening(st) \o Target(st)
  BY DEF ReadAs

LEMMA ReadAsType ==
  ASSUME NEW st \in ParsedStatement, NEW there \in Places
  PROVE  ReadAs(there, st) \in Seq(Symbols)
<1>1. /\ Keyword("INSERT") \in Symbols /\ Keyword("SELECT") \in Symbols
      /\ Mark("(") \in Symbols /\ Mark(".") \in Symbols
  BY SymbolsAre DEF Keywords
<1>2. Word(st.table) \in Symbols
  BY SymbolsAre DEF ParsedStatement
<1>3. CASE there \in {"unread", "statement", "parsed", "failed", "into", "selected", "from", "table", "open"}
  BY <1>1, <1>3, PartTypes, ReadAsAt, SymbolSeqs, ZenonT(30)
<1>4. CASE there \in {"name", "nameNext"}
  <2>1. /\ <<Keyword("SELECT")>> \in Seq(Symbols)
        /\ GoingOn(WordList(st.cols)) \in Seq(Symbols) /\ List(WordList(st.cols)) \in Seq(Symbols)
    BY <1>1, PartTypes, SymbolSeqs
  <2>2. /\ <<Keyword("SELECT")>> \o GoingOn(WordList(st.cols)) \in Seq(Symbols)
        /\ <<Keyword("SELECT")>> \o List(WordList(st.cols)) \in Seq(Symbols)
    BY <2>1, SymbolSeqs
  <2> QED
    BY <1>4, <2>2, ReadAsAt
<1>5. CASE there \in {"dot", "member"}
  <2>1. /\ Opening(st) \in Seq(Symbols) /\ <<Word(st.table)>> \in Seq(Symbols)
        /\ <<Word(st.table), Mark(".")>> \in Seq(Symbols)
    BY <1>1, <1>2, PartTypes, SymbolSeqs
  <2>2. /\ Opening(st) \o <<Word(st.table)>> \in Seq(Symbols)
        /\ Opening(st) \o <<Word(st.table), Mark(".")>> \in Seq(Symbols)
    BY <2>1, SymbolSeqs
  <2> QED
    BY <1>5, <2>2, ReadAsAt
<1>6. CASE there \in {"columns", "column", "columnNext", "values"}
  <2>1. /\ Opening(st) \in Seq(Symbols) /\ Target(st) \in Seq(Symbols) /\ Columns(st) \in Seq(Symbols)
        /\ GoingOn(WordList(st.cols)) \in Seq(Symbols) /\ List(WordList(st.cols)) \in Seq(Symbols)
        /\ <<Mark("(")>> \in Seq(Symbols)
    BY <1>1, PartTypes, SymbolSeqs
  <2>2. /\ Opening(st) \o Target(st) \in Seq(Symbols)
        /\ <<Mark("(")>> \o GoingOn(WordList(st.cols)) \in Seq(Symbols)
        /\ <<Mark("(")>> \o List(WordList(st.cols)) \in Seq(Symbols)
    BY <2>1, SymbolSeqs
  <2>3. /\ (Opening(st) \o Target(st)) \o Columns(st) \in Seq(Symbols)
        /\ (Opening(st) \o Target(st)) \o (<<Mark("(")>> \o GoingOn(WordList(st.cols))) \in Seq(Symbols)
        /\ (Opening(st) \o Target(st)) \o (<<Mark("(")>> \o List(WordList(st.cols))) \in Seq(Symbols)
    BY <2>1, <2>2, SymbolSeqs
  <2> QED
    BY <1>6, <2>2, <2>3, ReadAsAt
<1>7. CASE there \in {"value", "valueNext", "counted", "end"}
  <2>1. /\ Opening(st) \in Seq(Symbols) /\ Target(st) \in Seq(Symbols) /\ Valued(st) \in Seq(Symbols)
        /\ GoingOn(LiteralList(st.vals)) \in Seq(Symbols) /\ List(LiteralList(st.vals)) \in Seq(Symbols)
        /\ Parenthesized(LiteralList(st.vals)) \in Seq(Symbols) /\ <<Mark("(")>> \in Seq(Symbols)
    BY <1>1, PartTypes, SymbolSeqs
  <2>2. /\ Opening(st) \o Target(st) \in Seq(Symbols)
        /\ Valued(st) \o Parenthesized(LiteralList(st.vals)) \in Seq(Symbols)
        /\ <<Mark("(")>> \o GoingOn(LiteralList(st.vals)) \in Seq(Symbols)
        /\ <<Mark("(")>> \o List(LiteralList(st.vals)) \in Seq(Symbols)
    BY <2>1, SymbolSeqs
  <2>3. /\ Valued(st) \o (<<Mark("(")>> \o GoingOn(LiteralList(st.vals))) \in Seq(Symbols)
        /\ Valued(st) \o (<<Mark("(")>> \o List(LiteralList(st.vals))) \in Seq(Symbols)
    BY <2>1, <2>2, SymbolSeqs
  <2> QED
    BY <1>7, <2>2, <2>3, ReadAsAt
<1> QED
  BY <1>3, <1>4, <1>5, <1>6, <1>7 DEF Places

\* A statement written back is what has been read of it at its end, and a semicolon.
LEMMA WrittenAtEnd ==
  ASSUME NEW st \in ParsedStatement
  PROVE  Written(st) = ReadAs("end", st) \o <<SemicolonMark>> /\ Written(st) \in Seq(Symbols)
<1>1. ASSUME st.kind = "INSERT"
      PROVE  Written(st) = ReadAs("end", st) \o <<SemicolonMark>>
  <2>1. ReadAs("end", st) = Valued(st) \o Parenthesized(LiteralList(st.vals))
    BY <1>1, ReadAsAt
  <2>2. Written(st) = (Valued(st) \o Parenthesized(LiteralList(st.vals))) \o <<SemicolonMark>>
    BY <1>1, ZenonT(30) DEF Written, Valued, Opening, Columns, LiteralList, SemicolonMark
  <2> QED
    BY <2>1, <2>2
<1>2. ASSUME st.kind # "INSERT"
      PROVE  Written(st) = ReadAs("end", st) \o <<SemicolonMark>>
  <2>1. ReadAs("end", st) = Opening(st) \o Target(st)
    BY <1>2, ReadAsAt
  <2>2. Written(st) = (Opening(st) \o Target(st)) \o <<SemicolonMark>>
    BY <1>2, ZenonT(30) DEF Written, Opening, Selected, SemicolonMark
  <2> QED
    BY <2>1, <2>2
<1>3. Written(st) = ReadAs("end", st) \o <<SemicolonMark>>
  BY <1>1, <1>2
<1>4. ReadAs("end", st) \in Seq(Symbols) /\ SemicolonMark \in Symbols
  BY ReadAsType, SymbolsAre DEF Places
<1> QED
  BY <1>3, <1>4, SymbolSeqs

----------------------------------------------------------------------------
(***************************************************************************)
(* Every token read is the next one of the statement written back.         *)
(***************************************************************************)
LEMMA SymbolAssoc ==
  \A s, t, u \in Seq(Symbols) : s \o (t \o u) = (s \o t) \o u
  BY ConcatAssociative

LEMMA SymbolEmpty ==
  \A s \in Seq(Symbols) : s \o <<>> = s /\ <<>> \o s = s
  BY ConcatEmptySeq

\* The name of the table.
LEMMA ReadNameNext ==
  ASSUME NEW st \in ParsedStatement, NEW st2 \in ParsedStatement
  PROVE  /\ st.kind = "INSERT" => ReadAs("table", st) = ReadAs("into", st) \o <<Keyword("INTO")>>
         /\ st.kind = "SELECT" => ReadAs("table", st) = ReadAs("from", st) \o <<Keyword("FROM")>>
         /\ Opening(st2) = Opening(st) =>
              ReadAs("dot", st2) = ReadAs("table", st) \o <<Word(st2.table)>>
         /\ ReadAs("member", st) = ReadAs("dot", st) \o <<Mark(".")>>
         /\ st.schema = NoName /\ st.kind = "INSERT" => ReadAs("columns", st) = ReadAs("dot", st)
         /\ st.schema = NoName /\ st.kind = "SELECT" => ReadAs("end", st) = ReadAs("dot", st)
         /\ Opening(st2) = Opening(st) /\ st2.schema = st.table /\ st.table # NoName =>
              /\ st2.kind = "INSERT" =>
                   ReadAs("columns", st2) = ReadAs("member", st) \o <<Word(st2.table)>>
              /\ st2.kind = "SELECT" =>
                   ReadAs("end", st2) = ReadAs("member", st) \o <<Word(st2.table)>>
<1>1. /\ Opening(st) \in Seq(Symbols) /\ Word(st.table) \in Symbols /\ Mark(".") \in Symbols
      /\ Word(st2.table) \in Symbols
  BY PartTypes, SymbolsAre DEF ParsedStatement
<1>2. st.kind = "INSERT" => ReadAs("table", st) = ReadAs("into", st) \o <<Keyword("INTO")>>
  <2>1. \A a : <<a, Keyword("INTO")>> = <<a>> \o <<Keyword("INTO")>>
    OBVIOUS
  <2> QED
    BY <2>1, ReadAsAt DEF Opening
<1>3. st.kind = "SELECT" => ReadAs("table", st) = ReadAs("from", st) \o <<Keyword("FROM")>>
  BY ReadAsAt DEF Opening
<1>4. Opening(st2) = Opening(st) => ReadAs("dot", st2) = ReadAs("table", st) \o <<Word(st2.table)>>
  BY ReadAsAt
<1>5. \A w : <<w, Mark(".")>> = <<w>> \o <<Mark(".")>>
  OBVIOUS
<1>6. ReadAs("member", st) = ReadAs("dot", st) \o <<Mark(".")>>
  <2>1. <<Word(st.table)>> \in Seq(Symbols) /\ <<Mark(".")>> \in Seq(Symbols)
    BY <1>1, SymbolSeqs
  <2>2. Opening(st) \o (<<Word(st.table)>> \o <<Mark(".")>>)
          = (Opening(st) \o <<Word(st.table)>>) \o <<Mark(".")>>
    BY <1>1, <2>1, SymbolAssoc
  <2> QED
    BY <1>5, <2>2, ReadAsAt
<1>7. /\ st.schema = NoName /\ st.kind = "INSERT" => ReadAs("columns", st) = ReadAs("dot", st)
      /\ st.schema = NoName /\ st.kind = "SELECT" => ReadAs("end", st) = ReadAs("dot", st)
  BY ReadAsAt DEF Target
<1>8. ASSUME Opening(st2) = Opening(st), st2.schema = st.table, st.table # NoName
      PROVE  Opening(st2) \o Target(st2) = ReadAs("member", st) \o <<Word(st2.table)>>
  <2>1. Target(st2) = <<Word(st.table), Mark("."), Word(st2.table)>>
    BY <1>8 DEF Target
  <2>2. <<Word(st.table), Mark("."), Word(st2.table)>> = <<Word(st.table), Mark(".")>> \o <<Word(st2.table)>>
    OBVIOUS
  <2>3. <<Word(st.table), Mark(".")>> \in Seq(Symbols) /\ <<Word(st2.table)>> \in Seq(Symbols)
    BY <1>1, SymbolSeqs
  <2>4. Opening(st) \o (<<Word(st.table), Mark(".")>> \o <<Word(st2.table)>>)
          = (Opening(st) \o <<Word(st.table), Mark(".")>>) \o <<Word(st2.table)>>
    BY <1>1, <2>3, SymbolAssoc
  <2> QED
    BY <1>8, <2>1, <2>2, <2>4, ReadAsAt
<1>9. /\ st2.kind = "INSERT" => ReadAs("columns", st2) = Opening(st2) \o Target(st2)
      /\ st2.kind = "SELECT" => ReadAs("end", st2) = Opening(st2) \o Target(st2)
  BY ReadAsAt
<1> QED
  BY <1>2, <1>3, <1>4, <1>6, <1>7, <1>8, <1>9

\* The column list of an INSERT.
LEMMA ReadColumnsNext ==
  ASSUME NEW st \in ParsedStatement, NEW st2 \in ParsedStatement
  PROVE  /\ st.cols = <<>> => /\ ReadAs("column", st) = ReadAs("columns", st) \o <<Mark("(")>>
                              /\ ReadAs("values", st) = ReadAs("columns", st)
         /\ \A w \in TokenWords :
              /\ Opening(st2) = Opening(st) /\ Target(st2) = Target(st)
              /\ st2.cols = Append(st.cols, w)
              => ReadAs("columnNext", st2) = ReadAs("column", st) \o <<Word(w)>>
         /\ st.cols # <<>> =>
              /\ ReadAs("column", st) = ReadAs("columnNext", st) \o <<CommaMark>>
              /\ ReadAs("values", st) = ReadAs("columnNext", st) \o <<Mark(")")>>
<1> DEFINE head == Opening(st) \o Target(st)
           words == WordList(st.cols)
<1>1. /\ st.cols \in Seq(TokenWords) /\ words \in Seq(Symbols) /\ Len(words) = Len(st.cols)
      /\ List(words) \in Seq(Symbols) /\ GoingOn(words) \in Seq(Symbols) /\ head \in Seq(Symbols)
  BY PartTypes, WordListAppend, SymbolSeqs DEF ParsedStatement
<1>2. <<Mark("(")>> \in Seq(Symbols) /\ <<Mark(")")>> \in Seq(Symbols) /\ <<CommaMark>> \in Seq(Symbols)
  BY SymbolsAre, SymbolSeqs
<1>3. st.cols = <<>> <=> words = <<>>
  BY <1>1, EmptySeq
<1>4. /\ ReadAs("columns", st) = head
      /\ ReadAs("column", st) = head \o (<<Mark("(")>> \o GoingOn(words))
      /\ ReadAs("columnNext", st) = head \o (<<Mark("(")>> \o List(words))
      /\ ReadAs("values", st) = head \o Columns(st)
  BY ReadAsAt
<1>5. Columns(st) = IF st.cols = <<>> THEN <<>> ELSE (<<Mark("(")>> \o List(words)) \o <<Mark(")")>>
  BY DEF Columns, Parenthesized
<1>6. Opening(st2) = Opening(st) /\ Target(st2) = Target(st) =>
        ReadAs("columnNext", st2) = head \o (<<Mark("(")>> \o List(WordList(st2.cols)))
  BY ReadAsAt
<1> HIDE DEF head, words
<1>7. ASSUME st.cols = <<>>
      PROVE  /\ ReadAs("column", st) = ReadAs("columns", st) \o <<Mark("(")>>
             /\ ReadAs("values", st) = ReadAs("columns", st)
  <2>1. GoingOn(words) = <<>>
    BY <1>3, <1>7 DEF GoingOn
  <2>2. <<Mark("(")>> \o GoingOn(words) = <<Mark("(")>> /\ head \o <<>> = head
    BY <1>1, <1>2, <2>1, SymbolEmpty
  <2> QED
    BY <1>4, <1>5, <1>7, <2>2
<1>8. ASSUME NEW w \in TokenWords, Opening(st2) = Opening(st), Target(st2) = Target(st),
             st2.cols = Append(st.cols, w)
      PROVE  ReadAs("columnNext", st2) = ReadAs("column", st) \o <<Word(w)>>
  <2>1. WordList(st2.cols) = Append(words, Word(w)) /\ Word(w) \in Symbols /\ CommaMark \in Symbols
    BY <1>1, <1>8, WordListAppend, SymbolsAre DEF words
  <2>2. List(WordList(st2.cols)) = GoingOn(words) \o <<Word(w)>>
    BY <1>1, <2>1, ListAppend
  <2>3. <<Word(w)>> \in Seq(Symbols) /\ <<Mark("(")>> \o GoingOn(words) \in Seq(Symbols)
    BY <1>1, <1>2, <2>1, SymbolSeqs
  <2>4. <<Mark("(")>> \o (GoingOn(words) \o <<Word(w)>>) = (<<Mark("(")>> \o GoingOn(words)) \o <<Word(w)>>
    BY <1>1, <1>2, <2>3, SymbolAssoc
  <2>5. head \o ((<<Mark("(")>> \o GoingOn(words)) \o <<Word(w)>>)
          = (head \o (<<Mark("(")>> \o GoingOn(words))) \o <<Word(w)>>
    BY <1>1, <2>3, SymbolAssoc
  <2> QED
    BY <1>4, <1>6, <1>8, <2>2, <2>4, <2>5
<1>9. ASSUME st.cols # <<>>
      PROVE  /\ ReadAs("column", st) = ReadAs("columnNext", st) \o <<CommaMark>>
             /\ ReadAs("values", st) = ReadAs("columnNext", st) \o <<Mark(")")>>
  <2>1. GoingOn(words) = List(words) \o <<CommaMark>>
    BY <1>3, <1>9 DEF GoingOn
  <2>2. <<Mark("(")>> \o List(words) \in Seq(Symbols)
    BY <1>1, <1>2, SymbolSeqs
  <2>3. <<Mark("(")>> \o (List(words) \o <<CommaMark>>) = (<<Mark("(")>> \o List(words)) \o <<CommaMark>>
    BY <1>1, <1>2, SymbolAssoc
  <2>4. head \o ((<<Mark("(")>> \o List(words)) \o <<CommaMark>>)
          = (head \o (<<Mark("(")>> \o List(words))) \o <<CommaMark>>
    BY <1>1, <1>2, <2>2, SymbolAssoc
  <2>5. head \o ((<<Mark("(")>> \o List(words)) \o <<Mark(")")>>)
          = (head \o (<<Mark("(")>> \o List(words))) \o <<Mark(")")>>
    BY <1>1, <1>2, <2>2, SymbolAssoc
  <2>6. ReadAs("column", st) = ReadAs("columnNext", st) \o <<CommaMark>>
    BY <1>4, <2>1, <2>3, <2>4
  <2>7. ReadAs("values", st) = ReadAs("columnNext", st) \o <<Mark(")")>>
    BY <1>4, <1>5, <1>9, <2>5
  <2> QED
    BY <2>6, <2>7
<1> QED
  BY <1>7, <1>8, <1>9

\* The values of an INSERT.
LEMMA ReadValuesNext ==
  ASSUME NEW st \in ParsedStatement, NEW st2 \in ParsedStatement
  PROVE  /\ ReadAs("open", st) = ReadAs("values", st) \o <<Keyword("VALUES")>>
         /\ st.vals = <<>> => ReadAs("value", st) = ReadAs("open", st) \o <<Mark("(")>>
         /\ \A v \in TokenValues :
              Valued(st2) = Valued(st) /\ st2.vals = Append(st.vals, v) =>
                ReadAs("valueNext", st2) = ReadAs("value", st) \o <<WriteLiteral(v)>>
         /\ st.vals # <<>> => ReadAs("value", st) = ReadAs("valueNext", st) \o <<CommaMark>>
         /\ ReadAs("counted", st) = ReadAs("valueNext", st) \o <<Mark(")")>>
         /\ st.kind = "INSERT" => ReadAs("end", st) = ReadAs("counted", st)
<1> DEFINE head == Valued(st)
           items == LiteralList(st.vals)
<1>1. /\ st.vals \in Seq(TokenValues) /\ items \in Seq(Symbols) /\ Len(items) = Len(st.vals)
      /\ List(items) \in Seq(Symbols) /\ GoingOn(items) \in Seq(Symbols) /\ head \in Seq(Symbols)
  BY PartTypes, LiteralListAppend DEF ParsedStatement
<1>2. <<Mark("(")>> \in Seq(Symbols) /\ <<Mark(")")>> \in Seq(Symbols) /\ <<CommaMark>> \in Seq(Symbols)
  BY SymbolsAre, SymbolSeqs
<1>3. st.vals = <<>> <=> items = <<>>
  BY <1>1, EmptySeq
<1>4. /\ ReadAs("open", st) = head
      /\ ReadAs("value", st) = head \o (<<Mark("(")>> \o GoingOn(items))
      /\ ReadAs("valueNext", st) = head \o (<<Mark("(")>> \o List(items))
      /\ ReadAs("counted", st) = head \o Parenthesized(items)
      /\ st.kind = "INSERT" => ReadAs("end", st) = head \o Parenthesized(items)
  BY ReadAsAt
<1>5. Parenthesized(items) = (<<Mark("(")>> \o List(items)) \o <<Mark(")")>>
  BY DEF Parenthesized
<1>6. Valued(st2) = Valued(st) =>
        ReadAs("valueNext", st2) = head \o (<<Mark("(")>> \o List(LiteralList(st2.vals)))
  BY ReadAsAt
<1>7. ReadAs("open", st) = ReadAs("values", st) \o <<Keyword("VALUES")>>
  BY ReadAsAt DEF Valued
<1> HIDE DEF head, items
<1>8. ASSUME st.vals = <<>>
      PROVE  ReadAs("value", st) = ReadAs("open", st) \o <<Mark("(")>>
  <2>1. GoingOn(items) = <<>>
    BY <1>3, <1>8 DEF GoingOn
  <2>2. <<Mark("(")>> \o GoingOn(items) = <<Mark("(")>>
    BY <1>2, <2>1, SymbolEmpty
  <2> QED
    BY <1>4, <2>2
<1>9. ASSUME NEW v \in TokenValues, Valued(st2) = Valued(st), st2.vals = Append(st.vals, v)
      PROVE  ReadAs("valueNext", st2) = ReadAs("value", st) \o <<WriteLiteral(v)>>
  <2>1. LiteralList(st2.vals) = Append(items, WriteLiteral(v))
    BY <1>1, <1>9, LiteralListAppend DEF items
  <2>2. WriteLiteral(v) \in Symbols /\ CommaMark \in Symbols
    BY SymbolsAre
  <2>3. List(LiteralList(st2.vals)) = GoingOn(items) \o <<WriteLiteral(v)>>
    BY <1>1, <2>1, <2>2, ListAppend
  <2>4. <<WriteLiteral(v)>> \in Seq(Symbols) /\ <<Mark("(")>> \o GoingOn(items) \in Seq(Symbols)
    BY <1>1, <1>2, <2>2, SymbolSeqs
  <2>5. <<Mark("(")>> \o (GoingOn(items) \o <<WriteLiteral(v)>>)
          = (<<Mark("(")>> \o GoingOn(items)) \o <<WriteLiteral(v)>>
    BY <1>1, <1>2, <2>4, SymbolAssoc
  <2>6. head \o ((<<Mark("(")>> \o GoingOn(items)) \o <<WriteLiteral(v)>>)
          = (head \o (<<Mark("(")>> \o GoingOn(items))) \o <<WriteLiteral(v)>>
    BY <1>1, <2>4, SymbolAssoc
  <2> QED
    BY <1>4, <1>6, <1>9, <2>3, <2>5, <2>6
<1>10. <<Mark("(")>> \o List(items) \in Seq(Symbols)
  BY <1>1, <1>2, SymbolSeqs
<1>11. ASSUME st.vals # <<>>
       PROVE  ReadAs("value", st) = ReadAs("valueNext", st) \o <<CommaMark>>
  <2>1. GoingOn(items) = List(items) \o <<CommaMark>>
    BY <1>3, <1>11 DEF GoingOn
  <2>2. <<Mark("(")>> \o (List(items) \o <<CommaMark>>) = (<<Mark("(")>> \o List(items)) \o <<CommaMark>>
    BY <1>1, <1>2, SymbolAssoc
  <2>3. head \o ((<<Mark("(")>> \o List(items)) \o <<CommaMark>>)
          = (head \o (<<Mark("(")>> \o List(items))) \o <<CommaMark>>
    BY <1>1, <1>2, <1>10, SymbolAssoc
  <2> QED
    BY <1>4, <2>1, <2>2, <2>3
<1>12. ReadAs("counted", st) = ReadAs("valueNext", st) \o <<Mark(")")>>
  <2>1. head \o ((<<Mark("(")>> \o List(items)) \o <<Mark(")")>>)
          = (head \o (<<Mark("(")>> \o List(items))) \o <<Mark(")")>>
    BY <1>1, <1>2, <1>10, SymbolAssoc
  <2> QED
    BY <1>4, <1>5, <2>1
<1>13. st.kind = "INSERT" => ReadAs("end", st) = ReadAs("counted", st)
  BY <1>4
<1> QED
  BY <1>7, <1>8, <1>9, <1>11, <1>12, <1>13

\* The columns of a SELECT.
LEMMA ReadSelectNext ==
  ASSUME NEW st \in ParsedStatement, NEW st2 \in ParsedStatement
  PROVE  /\ st2.all => ReadAs("from", st2) = ReadAs("selected", st) \o <<Mark("*")>>
         /\ st.cols = <<>> => ReadAs("name", st) = ReadAs("selected", st)
         /\ \A w \in TokenWords :
              st2.cols = Append(st.cols, w) =>
                ReadAs("nameNext", st2) = ReadAs("name", st) \o <<Word(w)>>
         /\ st.cols # <<>> => ReadAs("name", st) = ReadAs("nameNext", st) \o <<CommaMark>>
         /\ ~st.all => ReadAs("from", st) = ReadAs("nameNext", st)
<1> DEFINE head == <<Keyword("SELECT")>>
           words == WordList(st.cols)
<1>1. /\ st.cols \in Seq(TokenWords) /\ words \in Seq(Symbols) /\ Len(words) = Len(st.cols)
      /\ List(words) \in Seq(Symbols) /\ GoingOn(words) \in Seq(Symbols)
  BY PartTypes, WordListAppend DEF ParsedStatement
<1>2. head \in Seq(Symbols) /\ <<CommaMark>> \in Seq(Symbols)
  BY SymbolsAre, SymbolSeqs DEF Keywords
<1>3. st.cols = <<>> <=> words = <<>>
  BY <1>1, EmptySeq
<1>4. /\ ReadAs("selected", st) = head
      /\ ReadAs("name", st) = head \o GoingOn(words)
      /\ ReadAs("nameNext", st) = head \o List(words)
      /\ ~st.all => ReadAs("from", st) = head \o List(words)
      /\ st2.all => ReadAs("from", st2) = head \o <<Mark("*")>>
  BY ReadAsAt DEF Selected
<1>5. ReadAs("nameNext", st2) = head \o List(WordList(st2.cols))
  BY ReadAsAt
<1> HIDE DEF head, words
<1>6. ASSUME st.cols = <<>>
      PROVE  ReadAs("name", st) = ReadAs("selected", st)
  <2>1. GoingOn(words) = <<>>
    BY <1>3, <1>6 DEF GoingOn
  <2> QED
    BY <1>2, <1>4, <2>1, SymbolEmpty
<1>7. ASSUME NEW w \in TokenWords, st2.cols = Append(st.cols, w)
      PROVE  ReadAs("nameNext", st2) = ReadAs("name", st) \o <<Word(w)>>
  <2>1. WordList(st2.cols) = Append(words, Word(w)) /\ Word(w) \in Symbols /\ CommaMark \in Symbols
    BY <1>1, <1>7, WordListAppend, SymbolsAre DEF words
  <2>2. List(WordList(st2.cols)) = GoingOn(words) \o <<Word(w)>>
    BY <1>1, <2>1, ListAppend
  <2>3. <<Word(w)>> \in Seq(Symbols)
    BY <2>1, SymbolSeqs
  <2>4. head \o (GoingOn(words) \o <<Word(w)>>) = (head \o GoingOn(words)) \o <<Word(w)>>
    BY <1>1, <1>2, <2>3, SymbolAssoc
  <2> QED
    BY <1>4, <1>5, <2>2, <2>4
<1>8. ASSUME st.cols # <<>>
      PROVE  ReadAs("name", st) = ReadAs("nameNext", st) \o <<CommaMark>>
  <2>1. GoingOn(words) = List(words) \o <<CommaMark>>
    BY <1>3, <1>8 DEF GoingOn
  <2>2. head \o (List(words) \o <<CommaMark>>) = (head \o List(words)) \o <<CommaMark>>
    BY <1>1, <1>2, SymbolAssoc
  <2> QED
    BY <1>4, <2>1, <2>2
<1> QED
  BY <1>4, <1>6, <1>7, <1>8

----------------------------------------------------------------------------
(***************************************************************************)
(* What has been read is what is written back, token by token.             *)
(***************************************************************************)
LEMMA MatchOne ==
  ASSUME NEW T, NEW S, NEW ts \in Seq(T), NEW ws \in Seq(S), NEW t \in T, NEW w \in S,
         Matches(ts, ws), Spells(t, w)
  PROVE  Matches(Append(ts, t), ws \o <<w>>)
<1>1. /\ Append(ts, t) \in Seq(T) /\ Len(Append(ts, t)) = Len(ts) + 1
      /\ \A i \in 1 .. Len(ts) : Append(ts, t)[i] = ts[i]
      /\ Append(ts, t)[Len(ts) + 1] = t
  BY AppendProperties
<1>2. /\ Append(ws, w) \in Seq(S) /\ Len(Append(ws, w)) = Len(ws) + 1
      /\ \A i \in 1 .. Len(ws) : Append(ws, w)[i] = ws[i]
      /\ Append(ws, w)[Len(ws) + 1] = w
  BY AppendProperties
<1>3. ws \o <<w>> = Append(ws, w)
  BY AppendIsConcat
<1>4. DOMAIN Append(ts, t) = 1 .. (Len(ts) + 1) /\ DOMAIN ts = 1 .. Len(ts) /\ Len(ts) \in Nat
  BY <1>1, LenProperties
<1>5. Len(ts) = Len(ws) /\ \A i \in 1 .. Len(ts) : Spells(ts[i], ws[i])
  BY <1>4 DEF Matches
<1>6. ASSUME NEW i \in 1 .. (Len(ts) + 1)
      PROVE  Spells(Append(ts, t)[i], Append(ws, w)[i])
  <2>1. CASE i = Len(ts) + 1
    BY <1>1, <1>2, <1>5, <2>1
  <2>2. CASE i # Len(ts) + 1
    <3>1. i \in 1 .. Len(ts)
      BY <1>4, <2>2
    <3> QED
      BY <1>1, <1>2, <1>5, <3>1
  <2> QED
    BY <2>1, <2>2
<1> QED
  BY <1>1, <1>2, <1>3, <1>4, <1>5, <1>6 DEF Matches

LEMMA WrittenAllAppend ==
  ASSUME NEW sts \in Seq(ParsedStatement)
  PROVE  /\ WrittenAll(sts) \in Seq(Symbols)
         /\ \A st \in ParsedStatement : WrittenAll(Append(sts, st)) = WrittenAll(sts) \o Written(st)
<1> DEFINE W(s) == [k \in DOMAIN s |-> Written(s[k])]
<1>1. ASSUME NEW s \in Seq(ParsedStatement)
      PROVE  /\ W(s) \in Seq(Seq(Symbols)) /\ Len(W(s)) = Len(s) /\ Len(s) \in Nat
             /\ \A k \in 1 .. Len(s) : W(s)[k] = Written(s[k])
  <2>1. /\ DOMAIN s = 1 .. Len(s) /\ Len(s) \in Nat
        /\ \A k \in 1 .. Len(s) : s[k] \in ParsedStatement
    BY LenProperties, ElementOfSeq
  <2>2. W(s) \in [1 .. Len(s) -> Seq(Symbols)]
    BY <2>1, WrittenAtEnd
  <2>3. \A k \in 1 .. Len(s) : W(s)[k] = Written(s[k])
    BY <2>1
  <2> HIDE DEF W
  <2> QED
    BY <2>1, <2>2, <2>3, FunctionIsSeq
<1>2. \A s : WrittenAll(s) = FlattenSeq(W(s))
  BY DEF WrittenAll
<1> HIDE DEF W
<1>3. WrittenAll(sts) \in Seq(Symbols)
  BY <1>1, <1>2, FlattenType
<1>4. ASSUME NEW st \in ParsedStatement
      PROVE  WrittenAll(Append(sts, st)) = WrittenAll(sts) \o Written(st)
  <2> DEFINE more == Append(sts, st)
  <2>1. /\ more \in Seq(ParsedStatement) /\ Len(more) = Len(sts) + 1 /\ more[Len(sts) + 1] = st
        /\ \A k \in 1 .. Len(sts) : more[k] = sts[k]
    BY AppendProperties
  <2> HIDE DEF more
  <2>2. /\ W(more) \in Seq(Seq(Symbols)) /\ Len(W(more)) = Len(sts) + 1
        /\ \A k \in 1 .. (Len(sts) + 1) : W(more)[k] = Written(more[k])
    BY <1>1, <2>1
  <2>3. /\ W(sts) \in Seq(Seq(Symbols)) /\ Len(W(sts)) = Len(sts) /\ Len(sts) \in Nat
        /\ \A k \in 1 .. Len(sts) : W(sts)[k] = Written(sts[k])
    BY <1>1
  <2>4. Written(st) \in Seq(Symbols)
    BY WrittenAtEnd
  <2>5. /\ Append(W(sts), Written(st)) \in Seq(Seq(Symbols))
        /\ Len(Append(W(sts), Written(st))) = Len(W(sts)) + 1
        /\ \A k \in 1 .. Len(W(sts)) : Append(W(sts), Written(st))[k] = W(sts)[k]
        /\ Append(W(sts), Written(st))[Len(W(sts)) + 1] = Written(st)
    <3> DEFINE all == W(sts)
    <3>1. all \in Seq(Seq(Symbols))
      BY <2>3
    <3> HIDE DEF all
    <3>2. /\ Append(all, Written(st)) \in Seq(Seq(Symbols))
          /\ Len(Append(all, Written(st))) = Len(all) + 1
          /\ \A k \in 1 .. Len(all) : Append(all, Written(st))[k] = all[k]
          /\ Append(all, Written(st))[Len(all) + 1] = Written(st)
      BY <2>4, <3>1, AppendProperties
    <3> QED
      BY <3>2 DEF all
  <2>6. \A k \in 1 .. (Len(sts) + 1) : W(more)[k] = Append(W(sts), Written(st))[k]
    BY <2>1, <2>2, <2>3, <2>5
  <2>7. W(more) = Append(W(sts), Written(st))
    BY <2>2, <2>3, <2>5, <2>6, SeqEqual
  <2>8. FlattenSeq(W(more)) = FlattenSeq(W(sts)) \o Written(st)
    BY <2>3, <2>4, <2>7, FlattenAppend
  <2> QED
    BY <1>2, <2>8 DEF more
<1> QED
  BY <1>3, <1>4

LEMMA ReadType ==
  ASSUME InPlace
  PROVE  Finished \in Seq(Symbols) /\ Begun \in Seq(Symbols) /\ stmt \in ParsedStatement
  BY WrittenAllAppend, ReadAsType DEF Finished, Begun, InPlace, ParserTypes

\* A token that is the next one.
LEMMA ReadToken ==
  ASSUME InPlace, ReadSoFar, place # "failed", Consume, tok \in Tokens, UNCHANGED script,
         NEW w \in Symbols, Spells(tok, w), place' # "parsed",
         ReadAs(place', stmt') = ReadAs(place, stmt) \o <<w>>
  PROVE  ReadSoFar'
<1>1. Finished \in Seq(Symbols) /\ Begun \in Seq(Symbols) /\ Finished \o Begun \in Seq(Symbols)
  BY ReadType, SymbolSeqs
<1>2. Matches(seen, Finished \o Begun) /\ seen \in Seq(Tokens)
  BY DEF ReadSoFar, InPlace, ParserTypes
<1>3. Matches(Append(seen, tok), (Finished \o Begun) \o <<w>>)
  BY <1>1, <1>2, MatchOne
<1>4. <<w>> \in Seq(Symbols)
  BY SymbolSeqs
<1>5. Finished \o (Begun \o <<w>>) = (Finished \o Begun) \o <<w>>
  BY <1>1, <1>4, SymbolAssoc
<1>6. Finished' = Finished /\ Begun' = Begun \o <<w>> /\ seen' = Append(seen, tok)
  BY DEF Finished, Begun, Consume
<1> QED
  BY <1>3, <1>5, <1>6 DEF ReadSoFar

\* No token: the parser only looks where it is.
LEMMA ReadNothing ==
  ASSUME ReadSoFar, place # "failed", Stay, UNCHANGED script, place' # "parsed",
         ReadAs(place', stmt') = ReadAs(place, stmt)
  PROVE  ReadSoFar'
<1>1. Finished' = Finished /\ Begun' = Begun /\ seen' = seen
  BY DEF Finished, Begun, Stay
<1> QED
  BY <1>1 DEF ReadSoFar

LEMMA ReadFailed ==
  ASSUME Fail
  PROVE  ReadSoFar'
  BY DEF Fail, GoTo, ReadSoFar

LEMMA KeywordRead ==
  ASSUME InPlace, NEW k \in Keywords, Is(k)
  PROVE  tok \in Tokens /\ Keyword(k) \in Symbols /\ Spells(tok, Keyword(k))
  BY KeywordToken, SymbolsAre DEF InPlace, ParserTypes, Tokened

LEMMA MarkRead ==
  ASSUME InPlace, NEW ch \in {"(", ")", ".", "*"}, tok = Mark(ch)
  PROVE  tok \in Tokens /\ Mark(ch) \in Symbols /\ Spells(tok, Mark(ch))
  BY MarkToken, SymbolsAre DEF InPlace, ParserTypes, Tokened

LEMMA CommaRead ==
  ASSUME InPlace, tok = CommaMark
  PROVE  tok \in Tokens /\ CommaMark \in Symbols /\ Spells(tok, CommaMark)
  BY MarkToken, SymbolsAre DEF InPlace, ParserTypes, Tokened, CommaMark

LEMMA SemicolonRead ==
  ASSUME InPlace, tok = SemicolonMark
  PROVE  tok \in Tokens /\ SemicolonMark \in Symbols /\ Spells(tok, SemicolonMark)
  BY MarkToken, SymbolsAre DEF InPlace, ParserTypes, Tokened, SemicolonMark

LEMMA WordRead ==
  ASSUME InPlace, IsIdentifier
  PROVE  /\ tok \in Tokens /\ tok.text \in TokenWords /\ Word(tok.text) \in Symbols
         /\ Spells(tok, Word(tok.text))
<1>1. tok \in Tokens /\ tok = Word(tok.text) /\ tok.text \in TokenWords
  BY IdentifierToken DEF InPlace, ParserTypes, Tokened
<1>2. Word(tok.text).kind = "word"
  BY DEF Word
<1>3. Spells(tok, Word(tok.text))
  BY <1>1, <1>2 DEF Spells
<1> QED
  BY <1>1, <1>3, SymbolsAre

LEMMA ValueRead ==
  ASSUME InPlace, IsValue(tok)
  PROVE  /\ tok \in Tokens /\ ValueOf(tok) \in TokenValues
         /\ WriteLiteral(ValueOf(tok)) \in Symbols /\ Spells(tok, WriteLiteral(ValueOf(tok)))
  BY ValueToken, SymbolsAre, LiteralsAreReadBack DEF InPlace, ParserTypes, Tokened, LiteralsReadBack

LEMMA ExpectedRead ==
  ASSUME InPlace, ReadSoFar, Into \/ From \/ Values \/ Open
  PROVE  ReadSoFar'
<1>1. CASE Fail
  BY <1>1, ReadFailed
<1>2. stmt \in ParsedStatement
  BY ReadType
<1>3. CASE Into /\ ~Fail
  <2>1. place = "into" /\ place' = "table" /\ UNCHANGED <<stmt, script>> /\ Consume /\ Is("INTO")
    BY <1>3 DEF Into, Expect, GoTo
  <2>2. stmt.kind = "INSERT" /\ "INTO" \in Keywords
    BY <2>1 DEF InPlace, KindInPlace, Keywords
  <2>3. ReadAs(place', stmt') = ReadAs(place, stmt) \o <<Keyword("INTO")>>
    BY <1>2, <2>1, <2>2, ReadNameNext
  <2> QED
    BY <2>1, <2>2, <2>3, KeywordRead, ReadToken
<1>4. CASE From /\ ~Fail
  <2>1. place = "from" /\ place' = "table" /\ UNCHANGED <<stmt, script>> /\ Consume /\ Is("FROM")
    BY <1>4 DEF From, Expect, GoTo
  <2>2. stmt.kind = "SELECT" /\ "FROM" \in Keywords
    BY <2>1 DEF InPlace, KindInPlace, Keywords
  <2>3. ReadAs(place', stmt') = ReadAs(place, stmt) \o <<Keyword("FROM")>>
    BY <1>2, <2>1, <2>2, ReadNameNext
  <2> QED
    BY <2>1, <2>2, <2>3, KeywordRead, ReadToken
<1>5. CASE Values /\ ~Fail
  <2>1. place = "values" /\ place' = "open" /\ UNCHANGED <<stmt, script>> /\ Consume /\ Is("VALUES")
    BY <1>5 DEF Values, Expect, GoTo
  <2>2. "VALUES" \in Keywords
    BY DEF Keywords
  <2>3. ReadAs(place', stmt') = ReadAs(place, stmt) \o <<Keyword("VALUES")>>
    BY <1>2, <2>1, ReadValuesNext
  <2> QED
    BY <2>1, <2>2, <2>3, KeywordRead, ReadToken
<1>6. CASE Open /\ ~Fail
  <2>1. place = "open" /\ place' = "value" /\ UNCHANGED <<stmt, script>> /\ Consume /\ tok = Mark("(")
    BY <1>6 DEF Open, Expect, GoTo
  <2>2. stmt.vals = <<>>
    BY <2>1 DEF InPlace, ListsInPlace
  <2>3. ReadAs(place', stmt') = ReadAs(place, stmt) \o <<Mark("(")>>
    BY <1>2, <2>1, <2>2, ReadValuesNext
  <2>4. tok \in Tokens /\ Mark("(") \in Symbols /\ Spells(tok, Mark("("))
    BY <2>1, MarkRead
  <2> QED
    BY <2>1, <2>3, <2>4, ReadToken
<1> QED
  BY <1>1, <1>3, <1>4, <1>5, <1>6

LEMMA GoingOnRead ==
  ASSUME InPlace, ReadSoFar, ParseColumnNext \/ ParseValueNext \/ ParseSelectNext
  PROVE  ReadSoFar'
<1>1. CASE Fail
  BY <1>1, ReadFailed
<1>2. stmt \in ParsedStatement
  BY ReadType
<1>3. tok = CommaMark => tok \in Tokens /\ CommaMark \in Symbols /\ Spells(tok, CommaMark)
  BY CommaRead
<1>4. tok = Mark(")") => tok \in Tokens /\ Mark(")") \in Symbols /\ Spells(tok, Mark(")"))
  BY MarkRead
<1>5. CASE ParseColumnNext /\ ~Fail
  <2>1. /\ place = "columnNext" /\ UNCHANGED <<stmt, script>> /\ Consume
        /\ \/ place' = "column" /\ tok = CommaMark
           \/ place' = "values" /\ tok = Mark(")")
    BY <1>5 DEF ParseColumnNext, ParseNext, GoTo, CommaMark
  <2>2. stmt.cols # <<>>
    BY <2>1 DEF InPlace, ListsInPlace
  <2>3. /\ ReadAs("column", stmt) = ReadAs("columnNext", stmt) \o <<CommaMark>>
        /\ ReadAs("values", stmt) = ReadAs("columnNext", stmt) \o <<Mark(")")>>
    BY <1>2, <2>2, ReadColumnsNext
  <2>4. CASE place' = "column" /\ tok = CommaMark
    BY <1>3, <2>1, <2>3, <2>4, ReadToken
  <2>5. CASE place' = "values" /\ tok = Mark(")")
    BY <1>4, <2>1, <2>3, <2>5, ReadToken
  <2> QED
    BY <2>1, <2>4, <2>5
<1>6. CASE ParseValueNext /\ ~Fail
  <2>1. /\ place = "valueNext" /\ UNCHANGED <<stmt, script>> /\ Consume
        /\ \/ place' = "value" /\ tok = CommaMark
           \/ place' = "counted" /\ tok = Mark(")")
    BY <1>6 DEF ParseValueNext, ParseNext, GoTo, CommaMark
  <2>2. stmt.vals # <<>>
    BY <2>1 DEF InPlace, ListsInPlace
  <2>3. /\ ReadAs("value", stmt) = ReadAs("valueNext", stmt) \o <<CommaMark>>
        /\ ReadAs("counted", stmt) = ReadAs("valueNext", stmt) \o <<Mark(")")>>
    BY <1>2, <2>2, ReadValuesNext
  <2>4. CASE place' = "value" /\ tok = CommaMark
    BY <1>3, <2>1, <2>3, <2>4, ReadToken
  <2>5. CASE place' = "counted" /\ tok = Mark(")")
    BY <1>4, <2>1, <2>3, <2>5, ReadToken
  <2> QED
    BY <2>1, <2>4, <2>5
<1>7. CASE ParseSelectNext
  <2>1. /\ place = "nameNext" /\ UNCHANGED <<stmt, script>>
        /\ \/ place' = "name" /\ tok = CommaMark /\ Consume
           \/ place' = "from" /\ Stay
    BY <1>7 DEF ParseSelectNext, GoTo, CommaMark
  <2>2. stmt.cols # <<>> /\ ~stmt.all
    BY <2>1 DEF InPlace, ListsInPlace
  <2>3. /\ ReadAs("name", stmt) = ReadAs("nameNext", stmt) \o <<CommaMark>>
        /\ ReadAs("from", stmt) = ReadAs("nameNext", stmt)
    BY <1>2, <2>2, ReadSelectNext
  <2>4. CASE place' = "name" /\ tok = CommaMark /\ Consume
    BY <1>3, <2>1, <2>3, <2>4, ReadToken
  <2>5. CASE place' = "from" /\ Stay
    BY <2>1, <2>3, <2>5, ReadNothing
  <2> QED
    BY <2>1, <2>4, <2>5
<1> QED
  BY <1>1, <1>5, <1>6, <1>7

LEMMA OptionRead ==
  ASSUME InPlace, ReadSoFar, ParseDot \/ ParseColumnList \/ CheckCounts
  PROVE  ReadSoFar'
<1>1. CASE Fail
  BY <1>1, ReadFailed
<1>2. stmt \in ParsedStatement
  BY ReadType
<1>3. CASE ParseDot
  <2>1. /\ place = "dot" /\ UNCHANGED <<stmt, script>>
        /\ \/ place' = "member" /\ tok = Mark(".") /\ Consume
           \/ place' = AfterName /\ Stay
    BY <1>3 DEF ParseDot, GoTo
  <2>2. stmt.schema = NoName /\ stmt.kind \in {"INSERT", "SELECT"}
    BY <2>1 DEF InPlace, NameInPlace, KindInPlace
  <2>3. /\ ReadAs("member", stmt) = ReadAs("dot", stmt) \o <<Mark(".")>>
        /\ stmt.kind = "INSERT" => ReadAs("columns", stmt) = ReadAs("dot", stmt)
        /\ stmt.kind = "SELECT" => ReadAs("end", stmt) = ReadAs("dot", stmt)
    BY <1>2, <2>2, ReadNameNext
  <2>4. CASE place' = "member" /\ tok = Mark(".") /\ Consume
    <3>1. tok \in Tokens /\ Mark(".") \in Symbols /\ Spells(tok, Mark("."))
      BY <2>4, MarkRead
    <3> QED
      BY <2>1, <2>3, <2>4, <3>1, ReadToken
  <2>5. CASE place' = AfterName /\ Stay
    <3>1. \/ place' = "columns" /\ stmt.kind = "INSERT"
          \/ place' = "end" /\ stmt.kind = "SELECT"
      BY <2>2, <2>5 DEF AfterName
    <3> QED
      BY <2>1, <2>3, <2>5, <3>1, ReadNothing
  <2> QED
    BY <2>1, <2>4, <2>5
<1>4. CASE ParseColumnList
  <2>1. /\ place = "columns" /\ UNCHANGED <<stmt, script>>
        /\ \/ place' = "column" /\ tok = Mark("(") /\ Consume
           \/ place' = "values" /\ Stay
    BY <1>4 DEF ParseColumnList, GoTo
  <2>2. stmt.cols = <<>>
    BY <2>1 DEF InPlace, ListsInPlace
  <2>3. /\ ReadAs("column", stmt) = ReadAs("columns", stmt) \o <<Mark("(")>>
        /\ ReadAs("values", stmt) = ReadAs("columns", stmt)
    BY <1>2, <2>2, ReadColumnsNext
  <2>4. CASE place' = "column" /\ tok = Mark("(") /\ Consume
    <3>1. tok \in Tokens /\ Mark("(") \in Symbols /\ Spells(tok, Mark("("))
      BY <2>4, MarkRead
    <3> QED
      BY <2>1, <2>3, <2>4, <3>1, ReadToken
  <2>5. CASE place' = "values" /\ Stay
    BY <2>1, <2>3, <2>5, ReadNothing
  <2> QED
    BY <2>1, <2>4, <2>5
<1>5. CASE CheckCounts /\ ~Fail
  <2>1. /\ place = "counted" /\ UNCHANGED <<stmt, script>> /\ place' = "end" /\ Stay
    BY <1>5 DEF CheckCounts, GoTo
  <2>2. stmt.kind = "INSERT"
    BY <2>1 DEF InPlace, KindInPlace
  <2>3. ReadAs("end", stmt) = ReadAs("counted", stmt)
    BY <1>2, <2>2, ReadValuesNext
  <2> QED
    BY <2>1, <2>3, ReadNothing
<1> QED
  BY <1>1, <1>3, <1>4, <1>5

LEMMA StatementRead ==
  ASSUME InPlace, ReadSoFar, ParseStatement
  PROVE  ReadSoFar'
<1>1. CASE Fail
  BY <1>1, ReadFailed
<1>2. place = "statement"
  BY DEF ParseStatement
<1>3. CASE place' = "parsed" /\ tok = End /\ UNCHANGED <<tok, seen, stmt, script>>
  <2>1. ReadAs(place', stmt') = ReadAs(place, stmt)
    BY <1>2, <1>3, ReadAsAt
  <2>2. Finished' = Finished /\ Begun' = Begun /\ seen' = seen /\ tok' = End
    BY <1>3, <2>1 DEF Finished, Begun
  <2> QED
    BY <1>2, <2>2 DEF ReadSoFar
<1>4. ASSUME NEW k \in {"INSERT", "SELECT"}, Is(k), Consume, UNCHANGED script,
             place' = IF k = "INSERT" THEN "into" ELSE "selected"
      PROVE  ReadSoFar'
  <2>1. tok \in Tokens /\ Keyword(k) \in Symbols /\ Spells(tok, Keyword(k))
    BY <1>4, KeywordRead DEF Keywords
  <2>2. ReadAs(place', stmt') = <<Keyword(k)>> /\ ReadAs(place, stmt) = <<>>
    BY <1>2, <1>4, ReadAsAt
  <2>3. <<>> \o <<Keyword(k)>> = <<Keyword(k)>>
    BY <2>1, SymbolSeqs, SymbolEmpty
  <2>4. ReadAs(place', stmt') = ReadAs(place, stmt) \o <<Keyword(k)>>
    BY <2>2, <2>3
  <2> QED
    BY <1>2, <1>4, <2>1, <2>4, ReadToken
<1> QED
  BY <1>1, <1>3, <1>4 DEF ParseStatement, GoTo

\* Statements that begin with the same tokens.
LEMMA SameOpening ==
  ASSUME NEW st \in ParsedStatement, NEW st2 \in ParsedStatement,
         st2.kind = st.kind, st.kind = "INSERT" \/ (st2.cols = st.cols /\ st2.all = st.all)
  PROVE  Opening(st2) = Opening(st)
  BY DEF Opening, Selected

LEMMA TableRead ==
  ASSUME InPlace, InPlace', ReadSoFar, ParseTable \/ ParseMember
  PROVE  ReadSoFar'
<1>1. CASE Fail
  BY <1>1, ReadFailed
<1>2. stmt \in ParsedStatement /\ stmt' \in ParsedStatement
  BY DEF InPlace, ParserTypes
<1>3. CASE ParseTable /\ ~Fail
  <2>1. /\ place = "table" /\ place' = "dot" /\ stmt' = [stmt EXCEPT !.table = tok.text]
        /\ UNCHANGED script /\ Consume /\ IsIdentifier
    BY <1>3 DEF ParseTable, GoTo
  <2>2. /\ stmt'.table = tok.text /\ stmt'.kind = stmt.kind /\ stmt'.cols = stmt.cols
        /\ stmt'.all = stmt.all
    BY <1>2, <2>1 DEF ParsedStatement
  <2>3. Opening(stmt') = Opening(stmt)
    BY <1>2, <2>2, SameOpening
  <2>4. ReadAs(place', stmt') = ReadAs(place, stmt) \o <<Word(tok.text)>>
    BY <1>2, <2>1, <2>2, <2>3, ReadNameNext
  <2> QED
    BY <2>1, <2>4, WordRead, ReadToken
<1>4. CASE ParseMember /\ ~Fail
  <2>1. /\ place = "member" /\ place' = AfterName
        /\ stmt' = [stmt EXCEPT !.schema = stmt.table, !.table = tok.text]
        /\ UNCHANGED script /\ Consume /\ IsIdentifier
    BY <1>4 DEF ParseMember, GoTo
  <2>2. /\ stmt'.schema = stmt.table /\ stmt'.table = tok.text /\ stmt'.kind = stmt.kind
        /\ stmt'.cols = stmt.cols /\ stmt'.all = stmt.all
    BY <1>2, <2>1 DEF ParsedStatement
  <2>3. Opening(stmt') = Opening(stmt)
    BY <1>2, <2>2, SameOpening
  <2>4. stmt.table # NoName /\ stmt.kind \in {"INSERT", "SELECT"}
    BY <2>1 DEF InPlace, NameInPlace, KindInPlace
  <2>5. \/ place' = "columns" /\ stmt'.kind = "INSERT"
        \/ place' = "end" /\ stmt'.kind = "SELECT"
    BY <2>1, <2>2, <2>4 DEF AfterName
  <2>6. /\ stmt'.kind = "INSERT" =>
             ReadAs("columns", stmt') = ReadAs("member", stmt) \o <<Word(stmt'.table)>>
        /\ stmt'.kind = "SELECT" =>
             ReadAs("end", stmt') = ReadAs("member", stmt) \o <<Word(stmt'.table)>>
    BY <1>2, <2>2, <2>3, <2>4, ReadNameNext
  <2>7. ReadAs(place', stmt') = ReadAs(place, stmt) \o <<Word(tok.text)>>
    BY <2>1, <2>2, <2>5, <2>6
  <2> QED
    BY <2>1, <2>5, <2>7, WordRead, ReadToken
<1> QED
  BY <1>1, <1>3, <1>4

LEMMA NameRead ==
  ASSUME InPlace, InPlace', ReadSoFar, ParseColumn \/ ParseSelectName
  PROVE  ReadSoFar'
<1>1. CASE Fail
  BY <1>1, ReadFailed
<1>2. CASE ~Fail
  <2>1. /\ \/ place = "column" /\ place' = "columnNext"
           \/ place = "name" /\ place' = "nameNext"
        /\ stmt' = [stmt EXCEPT !.cols = Append(@, tok.text)]
        /\ UNCHANGED script /\ Consume /\ IsIdentifier
    BY <1>2 DEF ParseColumn, ParseSelectName, ParseName, NewName, GoTo
  <2>2. stmt \in ParsedStatement /\ stmt' \in ParsedStatement
    BY DEF InPlace, ParserTypes
  <2>3. /\ stmt'.cols = Append(stmt.cols, tok.text) /\ stmt'.kind = stmt.kind
        /\ stmt'.schema = stmt.schema /\ stmt'.table = stmt.table
    BY <2>1, <2>2 DEF ParsedStatement
  <2>4. tok.text \in TokenWords
    BY <2>1, WordRead
  <2>5. Target(stmt') = Target(stmt)
    BY <2>3 DEF Target
  <2>6. CASE place = "column" /\ place' = "columnNext"
    <3>1. stmt.kind = "INSERT"
      BY <2>6 DEF InPlace, KindInPlace
    <3>2. Opening(stmt') = Opening(stmt)
      BY <2>2, <2>3, <3>1, SameOpening
    <3>3. ReadAs(place', stmt') = ReadAs(place, stmt) \o <<Word(tok.text)>>
      BY <2>2, <2>3, <2>4, <2>5, <2>6, <3>2, ReadColumnsNext
    <3> QED
      BY <2>1, <2>6, <3>3, WordRead, ReadToken
  <2>7. CASE place = "name" /\ place' = "nameNext"
    <3>1. ReadAs(place', stmt') = ReadAs(place, stmt) \o <<Word(tok.text)>>
      BY <2>2, <2>3, <2>4, <2>7, ReadSelectNext
    <3> QED
      BY <2>1, <2>7, <3>1, WordRead, ReadToken
  <2> QED
    BY <2>1, <2>6, <2>7
<1> QED
  BY <1>1, <1>2

LEMMA LiteralRead ==
  ASSUME InPlace, InPlace', ReadSoFar, ParseValue
  PROVE  ReadSoFar'
<1>1. CASE Fail
  BY <1>1, ReadFailed
<1>2. CASE ~Fail
  <2>1. /\ place = "value" /\ place' = "valueNext"
        /\ stmt' = [stmt EXCEPT !.vals = Append(@, ValueOf(tok))]
        /\ UNCHANGED script /\ Consume /\ IsValue(tok)
    BY <1>2 DEF ParseValue, GoTo
  <2>2. stmt \in ParsedStatement /\ stmt' \in ParsedStatement
    BY DEF InPlace, ParserTypes
  <2>3. /\ stmt'.vals = Append(stmt.vals, ValueOf(tok)) /\ stmt'.kind = stmt.kind
        /\ stmt'.schema = stmt.schema /\ stmt'.table = stmt.table /\ stmt'.cols = stmt.cols
        /\ stmt'.all = stmt.all
    BY <2>1, <2>2 DEF ParsedStatement
  <2>4. /\ tok \in Tokens /\ ValueOf(tok) \in TokenValues
        /\ WriteLiteral(ValueOf(tok)) \in Symbols /\ Spells(tok, WriteLiteral(ValueOf(tok)))
    BY <2>1, ValueRead
  <2>5. Valued(stmt') = Valued(stmt)
    <3>1. Opening(stmt') = Opening(stmt) /\ Target(stmt') = Target(stmt) /\ Columns(stmt') = Columns(stmt)
      BY <2>2, <2>3, SameOpening DEF Target, Columns
    <3> QED
      BY <3>1 DEF Valued
  <2>6. ReadAs("valueNext", stmt') = ReadAs("value", stmt) \o <<WriteLiteral(ValueOf(tok))>>
    BY <2>2, <2>3, <2>4, <2>5, ReadValuesNext
  <2>7. ReadAs(place', stmt') = ReadAs(place, stmt) \o <<WriteLiteral(ValueOf(tok))>>
    BY <2>1, <2>6
  <2> QED
    BY <2>1, <2>4, <2>7, ReadToken
<1> QED
  BY <1>1, <1>2

LEMMA SelectColumnsRead ==
  ASSUME InPlace, InPlace', ReadSoFar, ParseSelectColumns
  PROVE  ReadSoFar'
<1>1. place = "selected" /\ stmt \in ParsedStatement /\ stmt' \in ParsedStatement
  BY DEF ParseSelectColumns, InPlace, ParserTypes
<1>2. CASE tok = Mark("*")
  <2>1. /\ place' = "from" /\ stmt' = [stmt EXCEPT !.all = TRUE] /\ UNCHANGED script /\ Consume
    BY <1>2 DEF ParseSelectColumns, GoTo
  <2>2. stmt'.all
    BY <1>1, <2>1 DEF ParsedStatement
  <2>3. ReadAs(place', stmt') = ReadAs(place, stmt) \o <<Mark("*")>>
    BY <1>1, <2>1, <2>2, ReadSelectNext
  <2>4. tok \in Tokens /\ Mark("*") \in Symbols /\ Spells(tok, Mark("*"))
    BY <1>2, MarkRead
  <2> QED
    BY <1>1, <2>1, <2>3, <2>4, ReadToken
<1>3. CASE tok # Mark("*")
  <2>1. place' = "name" /\ Stay /\ UNCHANGED <<stmt, script>>
    BY <1>3 DEF ParseSelectColumns, GoTo
  <2>2. stmt.cols = <<>>
    BY <1>1 DEF InPlace, ListsInPlace
  <2>3. ReadAs(place', stmt') = ReadAs(place, stmt)
    BY <1>1, <2>1, <2>2, ReadSelectNext
  <2> QED
    BY <1>1, <2>1, <2>3, ReadNothing
<1> QED
  BY <1>2, <1>3

LEMMA EndRead ==
  ASSUME InPlace, ReadSoFar, EndStatement
  PROVE  ReadSoFar'
<1>1. CASE Fail
  BY <1>1, ReadFailed
<1>2. CASE ~Fail
  <2>1. /\ place = "end" /\ place' = "statement" /\ tok = SemicolonMark
        /\ script' = Append(script, stmt) /\ Consume
    BY <1>2 DEF EndStatement, GoTo, SemicolonMark
  <2>2. /\ Finished \in Seq(Symbols) /\ Begun \in Seq(Symbols) /\ stmt \in ParsedStatement
        /\ script \in Seq(ParsedStatement) /\ seen \in Seq(Tokens)
    BY ReadType DEF InPlace, ParserTypes
  <2>3. tok \in Tokens /\ SemicolonMark \in Symbols /\ Spells(tok, SemicolonMark)
    BY <2>1, SemicolonRead
  <2>4. Finished \o Begun \in Seq(Symbols) /\ <<SemicolonMark>> \in Seq(Symbols)
    BY <2>2, <2>3, SymbolSeqs
  <2>5. Matches(seen, Finished \o Begun)
    BY <2>1 DEF ReadSoFar
  <2>6. Matches(Append(seen, tok), (Finished \o Begun) \o <<SemicolonMark>>)
    BY <2>2, <2>3, <2>4, <2>5, MatchOne
  <2>7. Written(stmt) = Begun \o <<SemicolonMark>>
    BY <2>1, <2>2, WrittenAtEnd DEF Begun
  <2>8. Finished' = Finished \o Written(stmt)
    BY <2>1, <2>2, WrittenAllAppend DEF Finished
  <2>9. Finished \o (Begun \o <<SemicolonMark>>) = (Finished \o Begun) \o <<SemicolonMark>>
    BY <2>2, <2>4, SymbolAssoc
  <2>10. Finished' = (Finished \o Begun) \o <<SemicolonMark>>
    BY <2>7, <2>8, <2>9
  <2>11. Begun' = <<>>
    BY <2>1, ReadAsAt DEF Begun
  <2>12. Finished' \o Begun' = Finished'
    <3>1. (Finished \o Begun) \o <<SemicolonMark>> \in Seq(Symbols)
      BY <2>4, SymbolSeqs
    <3> QED
      BY <2>10, <2>11, <3>1, SymbolEmpty
  <2>13. seen' = Append(seen, tok)
    BY <2>1 DEF Consume
  <2> QED
    BY <2>1, <2>6, <2>10, <2>12, <2>13 DEF ReadSoFar
<1> QED
  BY <1>1, <1>2

LEMMA ParserReads ==
  ASSUME InPlace, InPlace', ReadSoFar, ParserNext
  PROVE  ReadSoFar'
  BY StatementRead, ExpectedRead, GoingOnRead, OptionRead, TableRead, NameRead, LiteralRead,
     SelectColumnsRead, EndRead DEF ParserNext

LEMMA ProgramReads ==
  ASSUME InPlace, InPlace', ReadSoFar, [Next]_vars
  PROVE  ReadSoFar'
<1>1. CASE ReadEntireFile
  <2>1. CASE GoTo("statement") /\ UNCHANGED <<seen, stmt, script>>
    <3>1. place = "unread" /\ place' = "statement" /\ UNCHANGED <<seen, stmt, script>>
      BY <1>1, <2>1 DEF ReadEntireFile, GoTo
    <3>2. Begun' = Begun
      BY <3>1, ReadAsAt DEF Begun
    <3> QED
      BY <3>1, <3>2 DEF ReadSoFar, Finished
  <2>2. CASE UNCHANGED pvars
    BY <2>2 DEF pvars, ReadSoFar, Finished, Begun
  <2> QED
    BY <1>1, <2>1, <2>2 DEF ReadEntireFile
<1>2. CASE Parse
  BY <1>2, ParserReads DEF Parse
<1>3. CASE UNCHANGED pvars
  BY <1>3 DEF pvars, ReadSoFar, Finished, Begun
<1> QED
  BY <1>1, <1>2, <1>3 DEF Next, ReportParseError, Execute, Done, vars

LEMMA ReadingBegins ==
  ASSUME ProgramInit
  PROVE  ReadSoFar
<1>1. place = "unread" /\ seen = <<>> /\ script = <<>>
  BY DEF ProgramInit
<1>2. Begun = <<>>
  BY <1>1, ReadAsAt DEF Begun
<1>3. Finished = <<>>
  BY <1>1, FlattenEmpty DEF Finished, WrittenAll
<1>4. Finished \o Begun = <<>>
  BY <1>2, <1>3, SymbolSeqs, SymbolEmpty
<1> QED
  BY <1>1, <1>4 DEF ReadSoFar, Matches

LEMMA ReadingSound == Spec => [](InPlace /\ ProgramInStep /\ ReadSoFar)
<1>1. ProgramInit => ReadSoFar
  BY ReadingBegins
<1>2. InPlace /\ InPlace' /\ ReadSoFar /\ [Next]_vars => ReadSoFar'
  BY ProgramReads
<1> QED
  BY <1>1, <1>2, ProgramSound, PTL DEF Spec

\* What has been read when the parser has ended.
LEMMA FileIsRead ==
  ASSUME InPlace, ReadSoFar, place = "parsed"
  PROVE  tok = End /\ IsFile(seen, script)
<1>1. Begun = <<>>
  BY ReadAsAt DEF Begun
<1>2. Finished \o Begun = Finished
  BY <1>1, ReadType, SymbolEmpty
<1>3. Matches(seen, Finished)
  BY <1>2 DEF ReadSoFar
<1> QED
  BY <1>3 DEF ReadSoFar, Matches, Finished, WrittenAll, IsFile

\* Whatever tokens a file holds and however long it is, the script the parser
\* hands over is the file and nothing but the file: written back it has the
\* tokens that were read, up to the last (parse_sql_script).
THEOREM ScriptIsWholeFile == Spec => []ScriptIsTheFile
<1>1. InPlace /\ ProgramInStep /\ ReadSoFar => ScriptIsTheFile
  BY FileIsRead DEF ScriptIsTheFile
<1> QED
  BY <1>1, ReadingSound, PTL

\* Whatever the file holds, and whether its script succeeds, is undone or stops
\* half way, tables change and output is written only when all of the file has
\* been parsed, and by the script that is all of it (main).
THEOREM NothingBeforeTheWholeFile == Spec => []OnlyWholeFilesTakeEffect
<1>1. InPlace /\ ProgramInStep /\ ReadSoFar => OnlyWholeFilesTakeEffect
  BY FileIsRead DEF OnlyWholeFilesTakeEffect, ProgramInStep
<1> QED
  BY <1>1, ReadingSound, PTL

----------------------------------------------------------------------------
(***************************************************************************)
(* The parser as a machine over the tokens of one statement: from a state  *)
(* it can take a token or not.  The states are the places at which a token *)
(* is taken, with what later decisions depend on.                          *)
(***************************************************************************)
At(there, kind, cols, vals) == [at |-> there, kind |-> kind, cols |-> cols, vals |-> vals]

Go(s, there) == At(there, s.kind, s.cols, s.vals)

Start == At("statement", "none", <<>>, 0)

Says(t, keyword) == t.kind = "word" /\ t.text \in Spelling[keyword]
NewFor(s, t)     == t.kind = "word" /\ t.text \notin ToSet(s.cols)
Counted(s)       == s.cols = <<>> \/ s.vals = Len(s.cols)

Can(s, t) ==
  CASE s.at = "statement"  -> Says(t, "INSERT") \/ Says(t, "SELECT")
    [] s.at = "into"       -> Says(t, "INTO")
    [] s.at = "from"       -> Says(t, "FROM")
    [] s.at = "table"      -> t.kind = "word"
    [] s.at = "dot"        -> t = Mark(".") \/ (IF s.kind = "INSERT" THEN t = Mark("(") \/ Says(t, "VALUES")
                                                                     ELSE t = Mark(";"))
    [] s.at = "member"     -> t.kind = "word"
    [] s.at = "columns"    -> t = Mark("(") \/ Says(t, "VALUES")
    [] s.at = "column"     -> NewFor(s, t)
    [] s.at = "columnNext" -> t \in {Mark(","), Mark(")")}
    [] s.at = "values"     -> Says(t, "VALUES")
    [] s.at = "open"       -> t = Mark("(")
    [] s.at = "value"      -> IsValue(t)
    [] s.at = "valueNext"  -> t \in {Mark(","), Mark(")")}
    [] s.at = "counted"    -> Counted(s) /\ t = Mark(";")
    [] s.at = "end"        -> t = Mark(";")
    [] s.at = "selected"   -> t = Mark("*") \/ NewFor(s, t)
    [] s.at = "name"       -> NewFor(s, t)
    [] s.at = "nameNext"   -> t = Mark(",") \/ Says(t, "FROM")

Moved(s, t) ==
  CASE s.at = "statement"  -> IF Says(t, "INSERT") THEN At("into", "INSERT", <<>>, 0)
                                                   ELSE At("selected", "SELECT", <<>>, 0)
    [] s.at \in {"into", "from"} -> Go(s, "table")
    [] s.at = "table"      -> Go(s, "dot")
    [] s.at = "dot"        -> IF t = Mark(".") THEN Go(s, "member")
                              ELSE IF t = Mark("(") THEN Go(s, "column")
                              ELSE IF t = Mark(";") THEN Start ELSE Go(s, "open")
    [] s.at = "member"     -> Go(s, IF s.kind = "INSERT" THEN "columns" ELSE "end")
    [] s.at = "columns"    -> Go(s, IF t = Mark("(") THEN "column" ELSE "open")
    [] s.at = "column"     -> At("columnNext", s.kind, Append(s.cols, t.text), s.vals)
    [] s.at = "columnNext" -> Go(s, IF t = Mark(",") THEN "column" ELSE "values")
    [] s.at = "values"     -> Go(s, "open")
    [] s.at = "open"       -> Go(s, "value")
    [] s.at = "value"      -> At("valueNext", s.kind, s.cols, s.vals + 1)
    [] s.at = "valueNext"  -> Go(s, IF t = Mark(",") THEN "value" ELSE "counted")
    [] s.at \in {"counted", "end"} -> Start
    [] s.at = "selected"   -> IF t = Mark("*") THEN Go(s, "from")
                              ELSE At("nameNext", s.kind, Append(s.cols, t.text), s.vals)
    [] s.at = "name"       -> At("nameNext", s.kind, Append(s.cols, t.text), s.vals)
    [] s.at = "nameNext"   -> Go(s, IF t = Mark(",") THEN "name" ELSE "table")

Goes(s, t, s2) == s.at \in Places /\ Can(s, t) /\ s2 = Moved(s, t)

\* It gets through a sequence of tokens.
Route(c, s, f) == f[0] = s /\ \A i \in 1 .. Len(c) : Goes(f[i - 1], c[i], f[i])

Walk(c, s, s2) == \E f : Route(c, s, f) /\ f[Len(c)] = s2

LEMMA WalkNothing ==
  ASSUME NEW s
  PROVE  Walk(<<>>, s, s)
<1> DEFINE f == [i \in 0 .. 0 |-> s]
<1>1. f[0] = s /\ Len(<<>>) = 0
  OBVIOUS
<1> HIDE DEF f
<1>2. Route(<<>>, s, f) /\ f[Len(<<>>)] = s
  BY <1>1 DEF Route
<1> QED
  BY <1>2 DEF Walk

LEMMA WalkAgrees ==
  ASSUME NEW c, Len(c) \in Nat, NEW s, NEW f, NEW g, Route(c, s, f), Route(c, s, g)
  PROVE  \A i \in 0 .. Len(c) : f[i] = g[i]
<1> DEFINE S == {i \in Nat : i <= Len(c) => f[i] = g[i]}
<1>1. 0 \in S
  BY DEF Route
<1>2. ASSUME NEW i \in Nat, i \in S
      PROVE  i + 1 \in S
  <2> SUFFICES ASSUME i + 1 <= Len(c) PROVE f[i + 1] = g[i + 1]
    OBVIOUS
  <2>1. i + 1 \in 1 .. Len(c) /\ (i + 1) - 1 = i /\ f[i] = g[i]
    BY <1>2
  <2>2. Goes(f[i], c[i + 1], f[i + 1]) /\ Goes(g[i], c[i + 1], g[i + 1])
    BY <2>1 DEF Route
  <2> QED
    BY <2>1, <2>2 DEF Goes
<1>3. Nat \subseteq S
  <2> HIDE DEF S
  <2> QED
    BY <1>1, <1>2, NatSetInduction
<1> QED
  BY <1>3

\* There is one state to get to.
LEMMA WalkUnique ==
  ASSUME NEW c, Len(c) \in Nat, NEW s, NEW s1, NEW s2, Walk(c, s, s1), Walk(c, s, s2)
  PROVE  s1 = s2
<1>1. PICK f : Route(c, s, f) /\ f[Len(c)] = s1
  BY DEF Walk
<1>2. PICK g : Route(c, s, g) /\ g[Len(c)] = s2
  BY DEF Walk
<1>3. Len(c) \in 0 .. Len(c)
  OBVIOUS
<1> QED
  BY <1>1, <1>2, <1>3, WalkAgrees

LEMMA WalkConcat ==
  ASSUME NEW X, NEW a \in Seq(X), NEW b \in Seq(X), NEW s, NEW s1, NEW s2,
         Walk(a, s, s1), Walk(b, s1, s2)
  PROVE  Walk(a \o b, s, s2)
<1>1. PICK f : Route(a, s, f) /\ f[Len(a)] = s1
  BY DEF Walk
<1>2. PICK g : Route(b, s1, g) /\ g[Len(b)] = s2
  BY DEF Walk
<1> DEFINE n == Len(a)
           m == Len(b)
           c == a \o b
           h == [i \in 0 .. (n + m) |-> IF i <= n THEN f[i] ELSE g[i - n]]
<1>3. n \in Nat /\ m \in Nat
  OBVIOUS
<1>4. /\ Len(c) = n + m
      /\ \A i \in 1 .. (n + m) : c[i] = IF i <= n THEN a[i] ELSE b[i - n]
  BY ConcatProperties
<1>5. /\ \A i \in 0 .. n : h[i] = f[i]
      /\ \A i \in 0 .. m : h[n + i] = g[i]
  <2>1. \A i \in 0 .. n : h[i] = f[i]
    BY <1>3
  <2>2. ASSUME NEW i \in 0 .. m
        PROVE  h[n + i] = g[i]
    <3>1. CASE i = 0
      <4>1. n + i = n /\ n \in 0 .. n
        BY <1>3, <3>1
      <4>2. h[n + i] = f[n]
        BY <2>1, <4>1
      <4>3. f[n] = g[0]
        BY <1>1, <1>2 DEF Route
      <4> QED
        BY <3>1, <4>2, <4>3
    <3>2. CASE i # 0
      <4>1. n + i \in 0 .. (n + m) /\ ~(n + i <= n) /\ (n + i) - n = i
        BY <1>3, <3>2
      <4> QED
        BY <4>1
    <3> QED
      BY <3>1, <3>2
  <2> HIDE DEF h
  <2> QED
    BY <2>1, <2>2
<1> HIDE DEF h, c, n, m
<1>6. ASSUME NEW i \in 1 .. (n + m)
      PROVE  Goes(h[i - 1], c[i], h[i])
  <2>1. CASE i <= n
    <3>1. i \in 1 .. n /\ i - 1 \in 0 .. n /\ i \in 0 .. n
      BY <1>3, <2>1
    <3>2. Goes(f[i - 1], a[i], f[i])
      BY <1>1, <3>1 DEF Route, n
    <3>3. h[i - 1] = f[i - 1] /\ h[i] = f[i] /\ c[i] = a[i]
      BY <1>4, <1>5, <2>1, <3>1
    <3> QED
      BY <3>2, <3>3
  <2>2. CASE ~(i <= n)
    <3>1. /\ i - n \in 1 .. m /\ (i - n) - 1 \in 0 .. m /\ i - n \in 0 .. m
          /\ n + (i - n) = i /\ n + ((i - n) - 1) = i - 1
      BY <1>3, <2>2
    <3>2. Goes(g[(i - n) - 1], b[i - n], g[i - n])
      BY <1>2, <3>1 DEF Route, m
    <3>3. h[i - 1] = g[(i - n) - 1] /\ h[i] = g[i - n] /\ c[i] = b[i - n]
      BY <1>4, <1>5, <2>2, <3>1
    <3> QED
      BY <3>2, <3>3
  <2> QED
    BY <2>1, <2>2
<1>7. h[0] = s /\ h[n + m] = s2
  <2>1. 0 \in 0 .. n /\ m \in 0 .. m
    BY <1>3
  <2> QED
    BY <1>1, <1>2, <1>5, <2>1 DEF Route, m
<1>8. Route(c, s, h) /\ h[Len(c)] = s2
  BY <1>4, <1>6, <1>7 DEF Route
<1> QED
  BY <1>8 DEF Walk, c

LEMMA WalkOne ==
  ASSUME NEW s, NEW t, NEW s2, Goes(s, t, s2)
  PROVE  Walk(<<t>>, s, s2)
<1> DEFINE f == [i \in 0 .. 1 |-> IF i = 0 THEN s ELSE s2]
<1>1. f[0] = s /\ f[1] = s2 /\ Len(<<t>>) = 1 /\ <<t>>[1] = t
  OBVIOUS
<1> HIDE DEF f
<1>2. \A i \in 1 .. 1 : Goes(f[i - 1], <<t>>[i], f[i])
  <2>1. \A i \in 1 .. 1 : i = 1 /\ i - 1 = 0
    OBVIOUS
  <2> QED
    BY <1>1, <2>1
<1>3. Route(<<t>>, s, f) /\ f[Len(<<t>>)] = s2
  BY <1>1, <1>2 DEF Route
<1> QED
  BY <1>3 DEF Walk

\* And through every beginning of it.
LEMMA WalkPart ==
  ASSUME NEW c, NEW s, NEW s2, Walk(c, s, s2), Len(c) \in Nat,
         NEW b, Len(b) \in 0 .. Len(c), \A i \in 1 .. Len(b) : b[i] = c[i]
  PROVE  \E s1 : Walk(b, s, s1) /\ (Len(b) < Len(c) => Can(s1, c[Len(b) + 1]))
<1>1. PICK f : Route(c, s, f) /\ f[Len(c)] = s2
  BY DEF Walk
<1>2. \A i \in 1 .. Len(b) : i \in 1 .. Len(c)
  OBVIOUS
<1>3. Route(b, s, f)
  BY <1>1, <1>2 DEF Route
<1>4. Walk(b, s, f[Len(b)])
  BY <1>3 DEF Walk
<1>5. ASSUME Len(b) < Len(c)
      PROVE  Can(f[Len(b)], c[Len(b) + 1])
  <2>1. Len(b) + 1 \in 1 .. Len(c) /\ (Len(b) + 1) - 1 = Len(b)
    BY <1>5
  <2>2. Goes(f[Len(b)], c[Len(b) + 1], f[Len(b) + 1])
    BY <1>1, <2>1 DEF Route
  <2> QED
    BY <2>2 DEF Goes
<1> QED
  BY <1>4, <1>5

----------------------------------------------------------------------------
(***************************************************************************)
(* A beginning of a phrase is walked through if every form of its parts is. *)
(***************************************************************************)
Rests(r, part) ==
  LET forms == {f \in part : IsPrefix(f, r) \/ IsPrefix(r, f)}
  IN  {SubSeq(r, Len(f) + 1, Len(r)) : f \in forms} \cup ({r} \cap {<<>>})

LeftStep(ts, phrase, h, i) ==
  IF i = 0 THEN {ts} ELSE UNION {Rests(r, phrase[i]) : r \in h[i - 1]}

LeftOf(ts, phrase) == CHOOSE h : h = [i \in 0 .. Len(phrase) |-> LeftStep(ts, phrase, h, i)]

LEMMA BeginsIs ==
  ASSUME NEW ts, NEW phrase
  PROVE  Begins(ts, phrase) <=> <<>> \in LeftOf(ts, phrase)[Len(phrase)]
BY DEF Begins, LeftOf, LeftStep, Rests

LEMMA RestsType ==
  ASSUME NEW X, NEW r \in Seq(X), NEW part \in SUBSET Seq(X)
  PROVE  Rests(r, part) \in SUBSET Seq(X)
<1>1. ASSUME NEW f \in Seq(X)
      PROVE  SubSeq(r, Len(f) + 1, Len(r)) \in Seq(X)
  <2>1. Len(f) + 1 \in Int /\ Len(r) \in Int /\ \A i \in (Len(f) + 1) .. Len(r) : r[i] \in X
    OBVIOUS
  <2> QED
    BY <2>1, SubSeqProperties
<1> QED
  BY <1>1 DEF Rests

LEMMA LeftSteps ==
  ASSUME NEW X, NEW ts \in Seq(X), NEW phrase \in Seq(SUBSET Seq(X))
  PROVE  /\ LeftOf(ts, phrase)[0] = {ts}
         /\ \A i \in 1 .. Len(phrase) :
              LeftOf(ts, phrase)[i] = UNION {Rests(r, phrase[i]) : r \in LeftOf(ts, phrase)[i - 1]}
<1> DEFINE n == Len(phrase)
           V == SUBSET Seq(X)
           Whole(h) == [i \in 0 .. n |-> LeftStep(ts, phrase, h, i)]
           B == [i \in 0 .. n |-> [h \in [0 .. (i - 1) -> V] |-> LeftStep(ts, phrase, h, i)]]
<1>1. n \in Nat /\ \A i \in 1 .. n : phrase[i] \in SUBSET Seq(X)
  OBVIOUS
<1>2. ASSUME NEW i \in 0 .. n, NEW h \in [0 .. (i - 1) -> V]
      PROVE  B[i][h] = LeftStep(ts, phrase, h, i) /\ B[i][h] \in V
  <2>1. B[i][h] = LeftStep(ts, phrase, h, i)
    OBVIOUS
  <2> HIDE DEF B
  <2>2. CASE i = 0
    BY <2>1, <2>2 DEF LeftStep
  <2>3. CASE i # 0
    <3>1. i - 1 \in 0 .. (i - 1) /\ phrase[i] \in SUBSET Seq(X)
      BY <1>1, <2>3
    <3>2. \A r \in h[i - 1] : Rests(r, phrase[i]) \in SUBSET Seq(X)
      BY <3>1, RestsType
    <3>3. LeftStep(ts, phrase, h, i) \in V
      BY <2>3, <3>2 DEF LeftStep
    <3> QED
      BY <2>1, <3>3
  <2> QED
    BY <2>2, <2>3
<1> HIDE DEF B, n, V
<1>3. PICK h \in [0 .. n -> V] : \A i \in 0 .. n : h[i] = B[i][Before(h, i)]
  <2>1. Upward(B, n, V)
    BY <1>2 DEF Upward
  <2> QED
    BY <1>1, <2>1, UpwardRecursion
<1>4. ASSUME NEW i \in 0 .. n
      PROVE  h[i] = LeftStep(ts, phrase, h, i)
  <2>1. Before(h, i) \in [0 .. (i - 1) -> V]
    BY <1>1 DEF Before
  <2>2. h[i] = LeftStep(ts, phrase, Before(h, i), i)
    BY <1>2, <1>3, <2>1
  <2>3. CASE i = 0
    BY <2>2, <2>3 DEF LeftStep
  <2>4. CASE i # 0
    <3>1. Before(h, i)[i - 1] = h[i - 1]
      BY <1>1, <2>4 DEF Before
    <3> QED
      BY <2>2, <2>4, <3>1 DEF LeftStep
  <2> QED
    BY <2>3, <2>4
<1>5. h = Whole(h)
  BY <1>4
<1>6. LeftOf(ts, phrase) = Whole(LeftOf(ts, phrase))
  <2>1. LeftOf(ts, phrase) = CHOOSE g : g = Whole(g)
    BY DEF LeftOf, Whole, n
  <2> HIDE DEF Whole
  <2> QED
    BY <1>5, <2>1
<1> DEFINE r == LeftOf(ts, phrase)
<1> HIDE DEF r
<1>7. \A i \in 0 .. n : r[i] = LeftStep(ts, phrase, r, i)
  BY <1>6 DEF r
<1>8. 0 \in 0 .. n /\ \A i \in 1 .. n : i \in 0 .. n /\ i # 0
  BY <1>1
<1> QED
  BY <1>7, <1>8 DEF LeftStep, n, r

\* A prefix and what it leaves.
LEMMA PrefixRest ==
  ASSUME NEW X, NEW f \in Seq(X), NEW r \in Seq(X), IsPrefix(f, r)
  PROVE  /\ r = f \o SubSeq(r, Len(f) + 1, Len(r))
         /\ Len(f) \in 0 .. Len(r) /\ \A i \in 1 .. Len(f) : f[i] = r[i]
<1> DEFINE n == Len(f)
           m == Len(r)
           u == SubSeq(r, n + 1, m)
<1>1. n \in Nat /\ m \in Nat /\ n <= m /\ SubSeq(f, 1, n) = SubSeq(r, 1, n)
  BY DEF IsPrefix
<1>2. \A i \in 1 .. n : f[i] = r[i]
  <2>1. \A i \in 1 .. n : f[i] \in X /\ r[i] \in X
    BY <1>1
  <2>2. /\ 1 \in Int /\ n \in Int /\ n - 1 + 1 = n /\ \A i \in 1 .. n : 1 + i - 1 = i
    BY <1>1
  <2>3. \A i \in 1 .. n : SubSeq(f, 1, n)[i] = f[i]
    BY <2>1, <2>2, SubSeqProperties
  <2>4. \A i \in 1 .. n : SubSeq(r, 1, n)[i] = r[i]
    BY <2>1, <2>2, SubSeqProperties
  <2> QED
    BY <1>1, <2>3, <2>4
<1>3. u \in Seq(X) /\ Len(u) = m - n /\ \A i \in 1 .. (m - n) : u[i] = r[n + i]
  <2>1. \A i \in (n + 1) .. m : r[i] \in X
    BY <1>1
  <2>2. /\ n + 1 \in Int /\ m \in Int /\ m - (n + 1) + 1 = m - n
        /\ (IF n + 1 <= m THEN m - (n + 1) + 1 ELSE 0) = m - n
    BY <1>1
  <2>3. \A i \in 1 .. (m - n) : (n + 1) + i - 1 = n + i
    BY <1>1
  <2> HIDE DEF n, m
  <2>4. /\ u \in Seq(X) /\ Len(u) = IF n + 1 <= m THEN m - (n + 1) + 1 ELSE 0
        /\ \A i \in 1 .. (m - (n + 1) + 1) : u[i] = r[(n + 1) + i - 1]
    BY <2>1, <2>2, SubSeqProperties
  <2> HIDE DEF u
  <2> QED
    BY <2>2, <2>3, <2>4
<1> HIDE DEF u
<1> DEFINE w == f \o u
<1>4. /\ w \in Seq(X) /\ Len(w) = n + Len(u)
      /\ \A i \in 1 .. (n + Len(u)) : w[i] = IF i <= n THEN f[i] ELSE u[i - n]
  BY <1>3, ConcatProperties
<1>5. Len(w) = m
  BY <1>1, <1>3, <1>4
<1> HIDE DEF w
<1>6. ASSUME NEW i \in 1 .. m
      PROVE  r[i] = w[i]
  <2>1. CASE i <= n
    <3>1. i \in 1 .. n /\ i \in 1 .. (n + Len(u))
      BY <1>1, <1>3, <2>1
    <3> QED
      BY <1>2, <1>4, <2>1, <3>1
  <2>2. CASE ~(i <= n)
    <3>1. i - n \in 1 .. (m - n) /\ n + (i - n) = i /\ i \in 1 .. (n + Len(u))
      BY <1>1, <1>3, <2>2
    <3> QED
      BY <1>3, <1>4, <2>2, <3>1
  <2> QED
    BY <2>1, <2>2
<1>7. r = w
  BY <1>4, <1>5, <1>6, SeqEqual
<1> QED
  BY <1>1, <1>2, <1>7 DEF w, u

\* From every state of S[i - 1] each form of the part leads to one of S[i].
Leads(phrase, S) ==
  \A i \in 1 .. Len(phrase) : \A f \in phrase[i], s \in S[i - 1] : \E s2 \in S[i] : Walk(f, s, s2)

LEMMA BeginsWalks ==
  ASSUME NEW X, NEW ts \in Seq(X), NEW phrase \in Seq(SUBSET Seq(X)), NEW S, NEW s0 \in S[0],
         Leads(phrase, S), Begins(ts, phrase)
  PROVE  \E s2 : Walk(ts, s0, s2)
<1> SUFFICES ASSUME ~ \E s2 : Walk(ts, s0, s2) PROVE FALSE
  OBVIOUS
<1> DEFINE n == Len(phrase)
           left == LeftOf(ts, phrase)
           Reached(i, r) == \E c \in Seq(X) : \E s \in S[i] : ts = c \o r /\ Walk(c, s0, s)
           T == {i \in Nat : i <= n => \A r \in left[i] : r \in Seq(X) /\ Reached(i, r)}
<1>1. n \in Nat /\ \A i \in 1 .. n : phrase[i] \in SUBSET Seq(X)
  OBVIOUS
<1>2. /\ left[0] = {ts}
      /\ \A i \in 1 .. n : left[i] = UNION {Rests(r, phrase[i]) : r \in left[i - 1]}
  BY LeftSteps
<1>3. <<>> \in left[n]
  BY BeginsIs
<1> HIDE DEF left, n
<1>4. 0 \in T
  <2>1. <<>> \in Seq(X) /\ ts = <<>> \o ts
    BY ConcatEmptySeq
  <2>2. Walk(<<>>, s0, s0)
    BY WalkNothing
  <2>3. Reached(0, ts)
    BY <2>1, <2>2
  <2> HIDE DEF Reached
  <2> QED
    BY <1>2, <2>3
<1>5. ASSUME NEW j \in Nat, j \in T
      PROVE  j + 1 \in T
  <2> HIDE DEF Reached
  <2> SUFFICES ASSUME j + 1 <= n, NEW r2 \in left[j + 1]
               PROVE  r2 \in Seq(X) /\ Reached(j + 1, r2)
    OBVIOUS
  <2>1. j + 1 \in 1 .. n /\ (j + 1) - 1 = j
    BY <1>1
  <2>2. PICK r \in left[j] : r2 \in Rests(r, phrase[j + 1])
    BY <1>2, <2>1
  <2>3. r \in Seq(X) /\ Reached(j, r)
    BY <1>1, <1>5, <2>1
  <2>4. PICK c \in Seq(X) : \E s \in S[j] : ts = c \o r /\ Walk(c, s0, s)
    BY <2>3 DEF Reached
  <2>5. PICK s \in S[j] : ts = c \o r /\ Walk(c, s0, s)
    BY <2>4
  <2>6. r # <<>>
    <3> SUFFICES ASSUME r = <<>> PROVE FALSE
      OBVIOUS
    <3>1. c \o r = c
      BY ConcatEmptySeq
    <3> QED
      BY <2>5, <3>1
  <2>7. PICK f \in phrase[j + 1] : /\ IsPrefix(f, r) \/ IsPrefix(r, f)
                                   /\ r2 = SubSeq(r, Len(f) + 1, Len(r))
    BY <2>2, <2>6 DEF Rests
  <2>8. f \in Seq(X)
    BY <1>1, <2>1
  <2>9. PICK s2 \in S[j + 1] : Walk(f, s, s2)
    BY <2>1 DEF Leads, n
  <2>10. ~IsPrefix(r, f)
    <3> SUFFICES ASSUME IsPrefix(r, f) PROVE FALSE
      OBVIOUS
    <3>1. Len(f) \in Nat /\ Len(r) \in 0 .. Len(f) /\ \A i \in 1 .. Len(r) : r[i] = f[i]
      BY <2>3, <2>8, PrefixRest
    <3>2. PICK s1 : Walk(r, s, s1)
      BY <2>9, <3>1, WalkPart
    <3>3. Walk(c \o r, s0, s1)
      BY <2>3, <2>5, <3>2, WalkConcat
    <3> QED
      BY <2>5, <3>3
  <2>11. r = f \o r2
    BY <2>3, <2>7, <2>8, <2>10, PrefixRest
  <2>12. r2 \in Seq(X)
    <3>1. Len(f) + 1 \in Int /\ Len(r) \in Int /\ \A i \in (Len(f) + 1) .. Len(r) : r[i] \in X
      BY <2>3, <2>8
    <3> QED
      BY <2>7, <3>1, SubSeqProperties
  <2>13. c \o f \in Seq(X) /\ ts = (c \o f) \o r2
    <3>1. c \o (f \o r2) = (c \o f) \o r2
      <4>1. (c \o f) \o r2 = c \o (f \o r2)
        BY <2>8, <2>12, ConcatAssociative, SMTT(30)
      <4> QED
        BY <4>1
    <3> QED
      BY <2>5, <2>8, <2>11, <3>1, ConcatProperties
  <2>14. Walk(c \o f, s0, s2)
    BY <2>5, <2>8, <2>9, WalkConcat
  <2>15. Reached(j + 1, r2)
    BY <2>13, <2>14 DEF Reached
  <2> QED
    BY <2>12, <2>15
<1>6. n \in T
  <2> HIDE DEF T
  <2> QED
    BY <1>1, <1>4, <1>5, NatSetInduction
<1>7. Reached(n, <<>>)
  BY <1>1, <1>3, <1>6, SMTT(30)
<1>8. PICK c \in Seq(X) : \E s \in S[n] : ts = c \o <<>> /\ Walk(c, s0, s)
  BY <1>7
<1>9. c \o <<>> = c
  BY ConcatEmptySeq
<1> QED
  BY <1>8, <1>9

----------------------------------------------------------------------------
(***************************************************************************)
(* The lists of a sentence are walked through.                             *)
(***************************************************************************)
\* What is awaited before an item, and what it leads to.
ListRoutes(X, fits, before, after) ==
  /\ \A items \in Seq(X), x \in X :
       Append(items, x) \in fits => items \in fits /\ Goes(before[items], x, after[Append(items, x)])
  /\ \A items \in Seq(X) :
       items \in fits /\ items # <<>> => Goes(after[items], CommaMark, before[items])

LEMMA ListWalks ==
  ASSUME NEW X, CommaMark \in X, NEW fits, NEW before, NEW after,
         ListRoutes(X, fits, before, after)
  PROVE  \A items \in Seq(X) :
           items \in fits /\ items # <<>> => Walk(List(items), before[<<>>], after[items])
<1> DEFINE P == {items \in Seq(X) : items \in fits /\ items # <<>> =>
                                      Walk(List(items), before[<<>>], after[items])}
<1>1. <<>> \in P
  OBVIOUS
<1>2. ASSUME NEW items \in Seq(X), NEW x \in X, items \in P
      PROVE  Append(items, x) \in P
  <2> DEFINE more == Append(items, x)
  <2>1. more \in Seq(X)
    BY AppendProperties
  <2>2. List(more) = GoingOn(items) \o <<x>> /\ List(items) \in Seq(X)
    BY ListAppend
  <2> SUFFICES ASSUME more \in fits PROVE Walk(List(more), before[<<>>], after[more])
    BY <2>1
  <2>3. items \in fits /\ Goes(before[items], x, after[more])
    BY DEF ListRoutes
  <2> HIDE DEF more
  <2>4. Walk(<<x>>, before[items], after[more])
    BY <2>3, WalkOne
  <2>5. <<x>> \in Seq(X) /\ <<CommaMark>> \in Seq(X)
    BY SmallSeqs
  <2>6. CASE items = <<>>
    <3>1. GoingOn(items) \o <<x>> = <<x>>
      BY <2>5, <2>6, ConcatEmptySeq DEF GoingOn
    <3> QED
      BY <2>2, <2>4, <2>6, <3>1
  <2>7. CASE items # <<>>
    <3>1. Walk(List(items), before[<<>>], after[items])
      BY <1>2, <2>3, <2>7
    <3>2. Walk(<<CommaMark>>, after[items], before[items])
      BY <2>3, <2>7, WalkOne DEF ListRoutes
    <3>3. Walk(List(items) \o <<CommaMark>>, before[<<>>], before[items])
      BY <2>2, <2>5, <3>1, <3>2, WalkConcat
    <3>4. GoingOn(items) = List(items) \o <<CommaMark>>
      BY <2>7 DEF GoingOn
    <3>5. List(items) \o <<CommaMark>> \in Seq(X)
      BY <2>2, <2>5, ConcatProperties
    <3>6. Walk(GoingOn(items) \o <<x>>, before[<<>>], after[more])
      BY <2>4, <2>5, <3>3, <3>4, <3>5, WalkConcat
    <3> QED
      BY <2>2, <3>6
  <2> QED
    BY <2>6, <2>7
<1>3. \A items \in Seq(X) : items \in P
  <2> HIDE DEF P
  <2> QED
    BY <1>1, <1>2, LongerAndLonger
<1> QED
  BY <1>3

\* The tokens, and the marks there may be among them.
Readable ==
  Tokens \cup {End} \cup {Mark(ch) : ch \in {"(", ")", ".", "*"}} \cup {CommaMark, SemicolonMark}

LEMMA ReadableAre ==
  /\ Tokens \subseteq Readable /\ End \in Readable
  /\ \A ch \in {"(", ")", ".", "*"} : Mark(ch) \in Readable
  /\ CommaMark \in Readable /\ SemicolonMark \in Readable
BY DEF Readable

\* The names of a list.
Texts(names) == [i \in DOMAIN names |-> names[i].text]

LEMMA TextsAppend ==
  ASSUME NEW names \in Seq(Words), NEW t \in Words
  PROVE  /\ Texts(Append(names, t)) = Append(Texts(names), t.text)
         /\ Texts(names) \in Seq(TokenWords) /\ Len(Texts(names)) = Len(names)
         /\ IsInjective(Append(names, t)) => IsInjective(names) /\ t.text \notin ToSet(Texts(names))
<1> DEFINE n == Len(names)
           more == Append(names, t)
<1>1. n \in Nat /\ DOMAIN names = 1 .. n /\ \A i \in 1 .. n : names[i] \in Words
  BY LenProperties, ElementOfSeq
<1>2. /\ more \in Seq(Words) /\ Len(more) = n + 1 /\ more[n + 1] = t
      /\ \A i \in 1 .. n : more[i] = names[i]
  BY AppendProperties
<1>3. DOMAIN more = 1 .. (n + 1) /\ \A i \in 1 .. (n + 1) : more[i] \in Words
  BY <1>2, LenProperties, ElementOfSeq
<1>4. \A u \in Words : u.text \in TokenWords /\ u = Word(u.text)
  BY WordsHaveNames DEF Words, TokenWords
<1> HIDE DEF n, more
<1>5. Texts(names) \in Seq(TokenWords) /\ Len(Texts(names)) = n
  <2>1. Texts(names) \in [1 .. n -> TokenWords]
    BY <1>1, <1>4 DEF Texts
  <2> QED
    BY <1>1, <2>1, FunctionIsSeq
<1>6. Texts(more) \in Seq(TokenWords) /\ Len(Texts(more)) = n + 1
  <2>1. Texts(more) \in [1 .. (n + 1) -> TokenWords]
    BY <1>3, <1>4 DEF Texts
  <2> QED
    BY <1>1, <2>1, FunctionIsSeq
<1>7. Texts(more) = Append(Texts(names), t.text)
  <2> DEFINE a == Texts(more)
             b == Texts(names)
             c == Append(b, t.text)
  <2>1. /\ c \in Seq(TokenWords) /\ Len(c) = n + 1 /\ c[n + 1] = t.text
        /\ \A i \in 1 .. n : c[i] = b[i]
    BY <1>4, <1>5, AppendProperties
  <2>2. /\ \A i \in 1 .. (n + 1) : a[i] = more[i].text
        /\ \A i \in 1 .. n : b[i] = names[i].text
    BY <1>1, <1>3 DEF Texts
  <2> HIDE DEF a, b, c
  <2>3. ASSUME NEW i \in 1 .. (n + 1)
        PROVE  a[i] = c[i]
    <3>1. CASE i = n + 1
      BY <1>2, <2>1, <2>2, <3>1
    <3>2. CASE i # n + 1
      <4>1. i \in 1 .. n
        BY <1>1, <3>2
      <4> QED
        BY <1>2, <2>1, <2>2, <4>1
    <3> QED
      BY <3>1, <3>2
  <2>4. a \in Seq(TokenWords) /\ Len(a) = n + 1
    BY <1>6 DEF a
  <2>5. a = c
    BY <2>1, <2>3, <2>4, SeqEqual
  <2> QED
    BY <2>5 DEF a, b, c
<1>8. ASSUME IsInjective(more)
      PROVE  IsInjective(names) /\ t.text \notin ToSet(Texts(names))
  <2>1. \A i, j \in 1 .. (n + 1) : more[i] = more[j] => i = j
    BY <1>3, <1>8 DEF IsInjective
  <2>2. IsInjective(names)
    <3>1. \A i \in 1 .. n : i \in 1 .. (n + 1)
      BY <1>1
    <3> QED
      BY <1>1, <1>2, <2>1, <3>1 DEF IsInjective
  <2>3. t.text \notin ToSet(Texts(names))
    <3> SUFFICES ASSUME t.text \in ToSet(Texts(names)) PROVE FALSE
      OBVIOUS
    <3>1. PICK i \in 1 .. n : names[i].text = t.text
      BY <1>1 DEF ToSet, Texts
    <3>2. names[i] = t
      BY <1>1, <1>4, <3>1
    <3>3. i \in 1 .. (n + 1) /\ n + 1 \in 1 .. (n + 1) /\ i # n + 1
      BY <1>1
    <3> QED
      BY <1>2, <2>1, <3>2, <3>3
  <2> QED
    BY <2>2, <2>3
<1> QED
  BY <1>5, <1>7, <1>8 DEF more, n

\* A record of the machine's state, and its moves one by one.
LEMMA StateIs ==
  ASSUME NEW there, NEW kind, NEW cols, NEW vals
  PROVE  /\ At(there, kind, cols, vals).at = there /\ At(there, kind, cols, vals).kind = kind
         /\ At(there, kind, cols, vals).cols = cols /\ At(there, kind, cols, vals).vals = vals
BY DEF At

LEMMA MarksDiffer ==
  /\ \A a, b : Mark(a) = Mark(b) => a = b
  /\ \A a : Mark(a).kind = "mark" /\ Mark(a) # End
  /\ \A a, keyword : ~Says(Mark(a), keyword)
<1>1. \A a : Mark(a).kind = "mark" /\ Mark(a).text = a /\ End.kind = "end"
  BY DEF Mark, End
<1>2. \A a, keyword : ~Says(Mark(a), keyword)
  BY <1>1 DEF Says
<1> QED
  BY <1>1, <1>2

\* What the machine does, place by place.
LEMMA PlaceMoves ==
  ASSUME NEW s, NEW t
  PROVE  /\ s.at = "statement" =>
              /\ Can(s, t) <=> (Says(t, "INSERT") \/ Says(t, "SELECT"))
              /\ Moved(s, t) = (IF Says(t, "INSERT") THEN At("into", "INSERT", <<>>, 0) ELSE At("selected", "SELECT", <<>>, 0))
         /\ s.at = "into" =>
              /\ Can(s, t) <=> (Says(t, "INTO"))
              /\ Moved(s, t) = (Go(s, "table"))
         /\ s.at = "from" =>
              /\ Can(s, t) <=> (Says(t, "FROM"))
              /\ Moved(s, t) = (Go(s, "table"))
         /\ s.at = "table" =>
              /\ Can(s, t) <=> (t.kind = "word")
              /\ Moved(s, t) = (Go(s, "dot"))
         /\ s.at = "dot" =>
              /\ Can(s, t) <=> (t = Mark(".") \/ (IF s.kind = "INSERT" THEN t = Mark("(") \/ Says(t, "VALUES") ELSE t = Mark(";")))
              /\ Moved(s, t) = (IF t = Mark(".") THEN Go(s, "member") ELSE IF t = Mark("(") THEN Go(s, "column") ELSE IF t = Mark(";") THEN Start ELSE Go(s, "open"))
         /\ s.at = "member" =>
              /\ Can(s, t) <=> (t.kind = "word")
              /\ Moved(s, t) = (Go(s, IF s.kind = "INSERT" THEN "columns" ELSE "end"))
         /\ s.at = "columns" =>
              /\ Can(s, t) <=> (t = Mark("(") \/ Says(t, "VALUES"))
              /\ Moved(s, t) = (Go(s, IF t = Mark("(") THEN "column" ELSE "open"))
         /\ s.at = "column" =>
              /\ Can(s, t) <=> (NewFor(s, t))
              /\ Moved(s, t) = (At("columnNext", s.kind, Append(s.cols, t.text), s.vals))
         /\ s.at = "columnNext" =>
              /\ Can(s, t) <=> (t \in {Mark(","), Mark(")")})
              /\ Moved(s, t) = (Go(s, IF t = Mark(",") THEN "column" ELSE "values"))
         /\ s.at = "values" =>
              /\ Can(s, t) <=> (Says(t, "VALUES"))
              /\ Moved(s, t) = (Go(s, "open"))
         /\ s.at = "open" =>
              /\ Can(s, t) <=> (t = Mark("("))
              /\ Moved(s, t) = (Go(s, "value"))
         /\ s.at = "value" =>
              /\ Can(s, t) <=> (IsValue(t))
              /\ Moved(s, t) = (At("valueNext", s.kind, s.cols, s.vals + 1))
         /\ s.at = "valueNext" =>
              /\ Can(s, t) <=> (t \in {Mark(","), Mark(")")})
              /\ Moved(s, t) = (Go(s, IF t = Mark(",") THEN "value" ELSE "counted"))
         /\ s.at = "counted" =>
              /\ Can(s, t) <=> (Counted(s) /\ t = Mark(";"))
              /\ Moved(s, t) = (Start)
         /\ s.at = "end" =>
              /\ Can(s, t) <=> (t = Mark(";"))
              /\ Moved(s, t) = (Start)
         /\ s.at = "selected" =>
              /\ Can(s, t) <=> (t = Mark("*") \/ NewFor(s, t))
              /\ Moved(s, t) = (IF t = Mark("*") THEN Go(s, "from") ELSE At("nameNext", s.kind, Append(s.cols, t.text), s.vals))
         /\ s.at = "name" =>
              /\ Can(s, t) <=> (NewFor(s, t))
              /\ Moved(s, t) = (At("nameNext", s.kind, Append(s.cols, t.text), s.vals))
         /\ s.at = "nameNext" =>
              /\ Can(s, t) <=> (t = Mark(",") \/ Says(t, "FROM"))
              /\ Moved(s, t) = (Go(s, IF t = Mark(",") THEN "name" ELSE "table"))
BY DEF Can, Moved

LEMMA NameMoves ==
  ASSUME NEW kind, NEW cols, NEW vals, NEW t, t.kind = "word", t.text \notin ToSet(cols)
  PROVE  /\ Goes(At("column", kind, cols, vals), t, At("columnNext", kind, Append(cols, t.text), vals))
         /\ Goes(At("name", kind, cols, vals), t, At("nameNext", kind, Append(cols, t.text), vals))
         /\ Goes(At("selected", kind, cols, vals), t, At("nameNext", kind, Append(cols, t.text), vals))
<1>1. t # Mark("*")
  BY MarksDiffer
<1>2. Goes(At("column", kind, cols, vals), t, At("columnNext", kind, Append(cols, t.text), vals))
  <2> DEFINE s == At("column", kind, cols, vals)
  <2>1. s.at = "column" /\ s.kind = kind /\ s.cols = cols /\ s.vals = vals
    BY StateIs
  <2> HIDE DEF s
  <2>2. Can(s, t) /\ s.at \in Places
    BY <2>1, PlaceMoves DEF NewFor, Places
  <2>3. Moved(s, t) = At("columnNext", kind, Append(cols, t.text), vals)
    BY <2>1, PlaceMoves
  <2> QED
    BY <2>2, <2>3 DEF Goes, s
<1>3. Goes(At("name", kind, cols, vals), t, At("nameNext", kind, Append(cols, t.text), vals))
  <2> DEFINE s == At("name", kind, cols, vals)
  <2>1. s.at = "name" /\ s.kind = kind /\ s.cols = cols /\ s.vals = vals
    BY StateIs
  <2> HIDE DEF s
  <2>2. Can(s, t) /\ s.at \in Places
    BY <2>1, PlaceMoves DEF NewFor, Places
  <2>3. Moved(s, t) = At("nameNext", kind, Append(cols, t.text), vals)
    BY <2>1, PlaceMoves
  <2> QED
    BY <2>2, <2>3 DEF Goes, s
<1>4. Goes(At("selected", kind, cols, vals), t, At("nameNext", kind, Append(cols, t.text), vals))
  <2> DEFINE s == At("selected", kind, cols, vals)
  <2>1. s.at = "selected" /\ s.kind = kind /\ s.cols = cols /\ s.vals = vals
    BY StateIs
  <2> HIDE DEF s
  <2>2. Can(s, t) /\ s.at \in Places
    BY <2>1, PlaceMoves DEF NewFor, Places
  <2>3. Moved(s, t) = At("nameNext", kind, Append(cols, t.text), vals)
    BY <1>1, <2>1, PlaceMoves
  <2> QED
    BY <2>2, <2>3 DEF Goes, s
<1> QED
  BY <1>2, <1>3, <1>4

\* A mark that is awaited.
LEMMA MarkMoves ==
  ASSUME NEW kind, NEW cols, NEW vals
  PROVE  /\ Goes(At("columns", kind, cols, vals), Mark("("), At("column", kind, cols, vals))
         /\ Goes(At("columnNext", kind, cols, vals), CommaMark, At("column", kind, cols, vals))
         /\ Goes(At("columnNext", kind, cols, vals), Mark(")"), At("values", kind, cols, vals))
         /\ Goes(At("open", kind, cols, vals), Mark("("), At("value", kind, cols, vals))
         /\ Goes(At("valueNext", kind, cols, vals), CommaMark, At("value", kind, cols, vals))
         /\ Goes(At("valueNext", kind, cols, vals), Mark(")"), At("counted", kind, cols, vals))
         /\ Goes(At("nameNext", kind, cols, vals), CommaMark, At("name", kind, cols, vals))
         /\ Goes(At("selected", kind, cols, vals), Mark("*"), At("from", kind, cols, vals))
         /\ Goes(At("dot", kind, cols, vals), Mark("."), At("member", kind, cols, vals))
         /\ Goes(At("dot", "INSERT", cols, vals), Mark("("), At("column", "INSERT", cols, vals))
         /\ Goes(At("dot", "SELECT", cols, vals), SemicolonMark, Start)
         /\ Goes(At("end", kind, cols, vals), SemicolonMark, Start)
         /\ (cols = <<>> \/ vals = Len(cols)) => Goes(At("counted", kind, cols, vals), SemicolonMark, Start)
<1>1. /\ Mark("(") # Mark(",") /\ Mark(")") # Mark(",") /\ Mark("(") # Mark(".")
      /\ Mark(";") # Mark(".") /\ Mark(";") # Mark("(")
  BY MarksDiffer
<1>2. Goes(At("columns", kind, cols, vals), Mark("("), At("column", kind, cols, vals))
  <2> DEFINE s == At("columns", kind, cols, vals)
  <2>1. s.at = "columns" /\ s.kind = kind /\ s.cols = cols /\ s.vals = vals
    BY StateIs
  <2> HIDE DEF s
  <2>2. s.at \in Places /\ Can(s, Mark("("))
    BY <1>1, <2>1, PlaceMoves DEF Places, Counted, CommaMark, SemicolonMark
  <2>3. Go(s, "column") = At("column", kind, cols, vals)
    BY <2>1 DEF Go
  <2>4. Moved(s, Mark("(")) = At("column", kind, cols, vals)
    BY <1>1, <2>1, <2>3 DEF Moved, CommaMark, SemicolonMark
  <2> QED
    BY <2>2, <2>4 DEF Goes, s
<1>3. Goes(At("columnNext", kind, cols, vals), CommaMark, At("column", kind, cols, vals))
  <2> DEFINE s == At("columnNext", kind, cols, vals)
  <2>1. s.at = "columnNext" /\ s.kind = kind /\ s.cols = cols /\ s.vals = vals
    BY StateIs
  <2> HIDE DEF s
  <2>2. s.at \in Places /\ Can(s, CommaMark)
    BY <1>1, <2>1, PlaceMoves DEF Places, Counted, CommaMark, SemicolonMark
  <2>3. Go(s, "column") = At("column", kind, cols, vals)
    BY <2>1 DEF Go
  <2>4. Moved(s, CommaMark) = At("column", kind, cols, vals)
    BY <1>1, <2>1, <2>3 DEF Moved, CommaMark, SemicolonMark
  <2> QED
    BY <2>2, <2>4 DEF Goes, s
<1>4. Goes(At("columnNext", kind, cols, vals), Mark(")"), At("values", kind, cols, vals))
  <2> DEFINE s == At("columnNext", kind, cols, vals)
  <2>1. s.at = "columnNext" /\ s.kind = kind /\ s.cols = cols /\ s.vals = vals
    BY StateIs
  <2> HIDE DEF s
  <2>2. s.at \in Places /\ Can(s, Mark(")"))
    BY <1>1, <2>1, PlaceMoves DEF Places, Counted, CommaMark, SemicolonMark
  <2>3. Go(s, "values") = At("values", kind, cols, vals)
    BY <2>1 DEF Go
  <2>4. Moved(s, Mark(")")) = At("values", kind, cols, vals)
    BY <1>1, <2>1, <2>3 DEF Moved, CommaMark, SemicolonMark
  <2> QED
    BY <2>2, <2>4 DEF Goes, s
<1>5. Goes(At("open", kind, cols, vals), Mark("("), At("value", kind, cols, vals))
  <2> DEFINE s == At("open", kind, cols, vals)
  <2>1. s.at = "open" /\ s.kind = kind /\ s.cols = cols /\ s.vals = vals
    BY StateIs
  <2> HIDE DEF s
  <2>2. s.at \in Places /\ Can(s, Mark("("))
    BY <1>1, <2>1, PlaceMoves DEF Places, Counted, CommaMark, SemicolonMark
  <2>3. Go(s, "value") = At("value", kind, cols, vals)
    BY <2>1 DEF Go
  <2>4. Moved(s, Mark("(")) = At("value", kind, cols, vals)
    BY <1>1, <2>1, <2>3 DEF Moved, CommaMark, SemicolonMark
  <2> QED
    BY <2>2, <2>4 DEF Goes, s
<1>6. Goes(At("valueNext", kind, cols, vals), CommaMark, At("value", kind, cols, vals))
  <2> DEFINE s == At("valueNext", kind, cols, vals)
  <2>1. s.at = "valueNext" /\ s.kind = kind /\ s.cols = cols /\ s.vals = vals
    BY StateIs
  <2> HIDE DEF s
  <2>2. s.at \in Places /\ Can(s, CommaMark)
    BY <1>1, <2>1, PlaceMoves DEF Places, Counted, CommaMark, SemicolonMark
  <2>3. Go(s, "value") = At("value", kind, cols, vals)
    BY <2>1 DEF Go
  <2>4. Moved(s, CommaMark) = At("value", kind, cols, vals)
    BY <1>1, <2>1, <2>3 DEF Moved, CommaMark, SemicolonMark
  <2> QED
    BY <2>2, <2>4 DEF Goes, s
<1>7. Goes(At("valueNext", kind, cols, vals), Mark(")"), At("counted", kind, cols, vals))
  <2> DEFINE s == At("valueNext", kind, cols, vals)
  <2>1. s.at = "valueNext" /\ s.kind = kind /\ s.cols = cols /\ s.vals = vals
    BY StateIs
  <2> HIDE DEF s
  <2>2. s.at \in Places /\ Can(s, Mark(")"))
    BY <1>1, <2>1, PlaceMoves DEF Places, Counted, CommaMark, SemicolonMark
  <2>3. Go(s, "counted") = At("counted", kind, cols, vals)
    BY <2>1 DEF Go
  <2>4. Moved(s, Mark(")")) = At("counted", kind, cols, vals)
    BY <1>1, <2>1, <2>3 DEF Moved, CommaMark, SemicolonMark
  <2> QED
    BY <2>2, <2>4 DEF Goes, s
<1>8. Goes(At("nameNext", kind, cols, vals), CommaMark, At("name", kind, cols, vals))
  <2> DEFINE s == At("nameNext", kind, cols, vals)
  <2>1. s.at = "nameNext" /\ s.kind = kind /\ s.cols = cols /\ s.vals = vals
    BY StateIs
  <2> HIDE DEF s
  <2>2. s.at \in Places /\ Can(s, CommaMark)
    BY <1>1, <2>1, PlaceMoves DEF Places, Counted, CommaMark, SemicolonMark
  <2>3. Go(s, "name") = At("name", kind, cols, vals)
    BY <2>1 DEF Go
  <2>4. Moved(s, CommaMark) = At("name", kind, cols, vals)
    BY <1>1, <2>1, <2>3 DEF Moved, CommaMark, SemicolonMark
  <2> QED
    BY <2>2, <2>4 DEF Goes, s
<1>9. Goes(At("selected", kind, cols, vals), Mark("*"), At("from", kind, cols, vals))
  <2> DEFINE s == At("selected", kind, cols, vals)
  <2>1. s.at = "selected" /\ s.kind = kind /\ s.cols = cols /\ s.vals = vals
    BY StateIs
  <2> HIDE DEF s
  <2>2. s.at \in Places /\ Can(s, Mark("*"))
    BY <1>1, <2>1, PlaceMoves DEF Places, Counted, CommaMark, SemicolonMark
  <2>3. Go(s, "from") = At("from", kind, cols, vals)
    BY <2>1 DEF Go
  <2>4. Moved(s, Mark("*")) = At("from", kind, cols, vals)
    BY <1>1, <2>1, <2>3 DEF Moved, CommaMark, SemicolonMark
  <2> QED
    BY <2>2, <2>4 DEF Goes, s
<1>10. Goes(At("dot", kind, cols, vals), Mark("."), At("member", kind, cols, vals))
  <2> DEFINE s == At("dot", kind, cols, vals)
  <2>1. s.at = "dot" /\ s.kind = kind /\ s.cols = cols /\ s.vals = vals
    BY StateIs
  <2> HIDE DEF s
  <2>2. s.at \in Places /\ Can(s, Mark("."))
    BY <1>1, <2>1, PlaceMoves DEF Places, Counted, CommaMark, SemicolonMark
  <2>3. Go(s, "member") = At("member", kind, cols, vals)
    BY <2>1 DEF Go
  <2>4. Moved(s, Mark(".")) = At("member", kind, cols, vals)
    BY <1>1, <2>1, <2>3 DEF Moved, CommaMark, SemicolonMark
  <2> QED
    BY <2>2, <2>4 DEF Goes, s
<1>11. Goes(At("dot", "INSERT", cols, vals), Mark("("), At("column", "INSERT", cols, vals))
  <2> DEFINE s == At("dot", "INSERT", cols, vals)
  <2>1. s.at = "dot" /\ s.kind = "INSERT" /\ s.cols = cols /\ s.vals = vals
    BY StateIs
  <2> HIDE DEF s
  <2>2. s.at \in Places /\ Can(s, Mark("("))
    BY <1>1, <2>1, PlaceMoves DEF Places, Counted, CommaMark, SemicolonMark
  <2>3. Go(s, "column") = At("column", "INSERT", cols, vals)
    BY <2>1 DEF Go
  <2>4. Moved(s, Mark("(")) = At("column", "INSERT", cols, vals)
    BY <1>1, <2>1, <2>3 DEF Moved, CommaMark, SemicolonMark
  <2> QED
    BY <2>2, <2>4 DEF Goes, s
<1>12. Goes(At("dot", "SELECT", cols, vals), SemicolonMark, Start)
  <2> DEFINE s == At("dot", "SELECT", cols, vals)
  <2>1. s.at = "dot" /\ s.kind = "SELECT" /\ s.cols = cols /\ s.vals = vals
    BY StateIs
  <2> HIDE DEF s
  <2>2. s.at \in Places /\ Can(s, SemicolonMark)
    BY <1>1, <2>1, PlaceMoves DEF Places, Counted, CommaMark, SemicolonMark
  <2>3. Moved(s, SemicolonMark) = Start
    BY <1>1, <2>1 DEF Moved, CommaMark, SemicolonMark
  <2> QED
    BY <2>2, <2>3 DEF Goes, s
<1>13. Goes(At("end", kind, cols, vals), SemicolonMark, Start)
  <2> DEFINE s == At("end", kind, cols, vals)
  <2>1. s.at = "end" /\ s.kind = kind /\ s.cols = cols /\ s.vals = vals
    BY StateIs
  <2> HIDE DEF s
  <2>2. s.at \in Places /\ Can(s, SemicolonMark)
    BY <1>1, <2>1, PlaceMoves DEF Places, Counted, CommaMark, SemicolonMark
  <2>3. Moved(s, SemicolonMark) = Start
    BY <1>1, <2>1 DEF Moved, CommaMark, SemicolonMark
  <2> QED
    BY <2>2, <2>3 DEF Goes, s
<1>14. ASSUME (cols = <<>> \/ vals = Len(cols))
      PROVE  Goes(At("counted", kind, cols, vals), SemicolonMark, Start)
  <2> DEFINE s == At("counted", kind, cols, vals)
  <2>1. s.at = "counted" /\ s.kind = kind /\ s.cols = cols /\ s.vals = vals
    BY StateIs
  <2> HIDE DEF s
  <2>2. s.at \in Places /\ Can(s, SemicolonMark)
    BY <1>1, <1>14, <2>1, PlaceMoves DEF Places, Counted, CommaMark, SemicolonMark
  <2>3. Moved(s, SemicolonMark) = Start
    BY <1>1, <1>14, <2>1 DEF Moved, CommaMark, SemicolonMark
  <2> QED
    BY <2>2, <2>3 DEF Goes, s
<1> QED
  BY <1>2, <1>3, <1>4, <1>5, <1>6, <1>7, <1>8, <1>9, <1>10, <1>11, <1>12, <1>13, <1>14

\* A word.
LEMMA WordMoves ==
  ASSUME NEW kind, NEW cols, NEW vals, NEW t, t.kind = "word"
  PROVE  /\ Goes(At("table", kind, cols, vals), t, At("dot", kind, cols, vals))
         /\ Goes(At("member", "INSERT", cols, vals), t, At("columns", "INSERT", cols, vals))
         /\ Goes(At("member", "SELECT", cols, vals), t, At("end", "SELECT", cols, vals))
         /\ t.text \in Spelling["INTO"] => Goes(At("into", kind, cols, vals), t, At("table", kind, cols, vals))
         /\ t.text \in Spelling["FROM"] => Goes(At("from", kind, cols, vals), t, At("table", kind, cols, vals))
         /\ t.text \in Spelling["FROM"] => Goes(At("nameNext", kind, cols, vals), t, At("table", kind, cols, vals))
         /\ t.text \in Spelling["VALUES"] => Goes(At("dot", "INSERT", cols, vals), t, At("open", "INSERT", cols, vals))
         /\ t.text \in Spelling["VALUES"] => Goes(At("columns", kind, cols, vals), t, At("open", kind, cols, vals))
         /\ t.text \in Spelling["VALUES"] => Goes(At("values", kind, cols, vals), t, At("open", kind, cols, vals))
<1>1. \A a : t # Mark(a)
  BY MarksDiffer
<1>2. Goes(At("table", kind, cols, vals), t, At("dot", kind, cols, vals))
  <2> DEFINE s == At("table", kind, cols, vals)
  <2>1. s.at = "table" /\ s.kind = kind /\ s.cols = cols /\ s.vals = vals
    BY StateIs
  <2> HIDE DEF s
  <2>2. s.at \in Places /\ Can(s, t)
    BY <1>1, <2>1, PlaceMoves DEF Places, Says
  <2>3. Go(s, "dot") = At("dot", kind, cols, vals)
    BY <2>1 DEF Go
  <2>4. Moved(s, t) = At("dot", kind, cols, vals)
    BY <1>1, <2>1, <2>3 DEF Moved
  <2> QED
    BY <2>2, <2>4 DEF Goes, s
<1>3. Goes(At("member", "INSERT", cols, vals), t, At("columns", "INSERT", cols, vals))
  <2> DEFINE s == At("member", "INSERT", cols, vals)
  <2>1. s.at = "member" /\ s.kind = "INSERT" /\ s.cols = cols /\ s.vals = vals
    BY StateIs
  <2> HIDE DEF s
  <2>2. s.at \in Places /\ Can(s, t)
    BY <1>1, <2>1, PlaceMoves DEF Places, Says
  <2>3. Go(s, "columns") = At("columns", "INSERT", cols, vals)
    BY <2>1 DEF Go
  <2>4. Moved(s, t) = At("columns", "INSERT", cols, vals)
    BY <1>1, <2>1, <2>3 DEF Moved
  <2> QED
    BY <2>2, <2>4 DEF Goes, s
<1>4. Goes(At("member", "SELECT", cols, vals), t, At("end", "SELECT", cols, vals))
  <2> DEFINE s == At("member", "SELECT", cols, vals)
  <2>1. s.at = "member" /\ s.kind = "SELECT" /\ s.cols = cols /\ s.vals = vals
    BY StateIs
  <2> HIDE DEF s
  <2>2. s.at \in Places /\ Can(s, t)
    BY <1>1, <2>1, PlaceMoves DEF Places, Says
  <2>3. Go(s, "end") = At("end", "SELECT", cols, vals)
    BY <2>1 DEF Go
  <2>4. Moved(s, t) = At("end", "SELECT", cols, vals)
    BY <1>1, <2>1, <2>3 DEF Moved
  <2> QED
    BY <2>2, <2>4 DEF Goes, s
<1>5. ASSUME t.text \in Spelling["INTO"]
      PROVE  Goes(At("into", kind, cols, vals), t, At("table", kind, cols, vals))
  <2> DEFINE s == At("into", kind, cols, vals)
  <2>1. s.at = "into" /\ s.kind = kind /\ s.cols = cols /\ s.vals = vals
    BY StateIs
  <2> HIDE DEF s
  <2>2. s.at \in Places /\ Can(s, t)
    BY <1>1, <1>5, <2>1, PlaceMoves DEF Places, Says
  <2>3. Go(s, "table") = At("table", kind, cols, vals)
    BY <2>1 DEF Go
  <2>4. Moved(s, t) = At("table", kind, cols, vals)
    BY <1>1, <1>5, <2>1, <2>3 DEF Moved
  <2> QED
    BY <2>2, <2>4 DEF Goes, s
<1>6. ASSUME t.text \in Spelling["FROM"]
      PROVE  Goes(At("from", kind, cols, vals), t, At("table", kind, cols, vals))
  <2> DEFINE s == At("from", kind, cols, vals)
  <2>1. s.at = "from" /\ s.kind = kind /\ s.cols = cols /\ s.vals = vals
    BY StateIs
  <2> HIDE DEF s
  <2>2. s.at \in Places /\ Can(s, t)
    BY <1>1, <1>6, <2>1, PlaceMoves DEF Places, Says
  <2>3. Go(s, "table") = At("table", kind, cols, vals)
    BY <2>1 DEF Go
  <2>4. Moved(s, t) = At("table", kind, cols, vals)
    BY <1>1, <1>6, <2>1, <2>3 DEF Moved
  <2> QED
    BY <2>2, <2>4 DEF Goes, s
<1>7. ASSUME t.text \in Spelling["FROM"]
      PROVE  Goes(At("nameNext", kind, cols, vals), t, At("table", kind, cols, vals))
  <2> DEFINE s == At("nameNext", kind, cols, vals)
  <2>1. s.at = "nameNext" /\ s.kind = kind /\ s.cols = cols /\ s.vals = vals
    BY StateIs
  <2> HIDE DEF s
  <2>2. s.at \in Places /\ Can(s, t)
    BY <1>1, <1>7, <2>1, PlaceMoves DEF Places, Says
  <2>3. Go(s, "table") = At("table", kind, cols, vals)
    BY <2>1 DEF Go
  <2>4. Moved(s, t) = At("table", kind, cols, vals)
    BY <1>1, <1>7, <2>1, <2>3 DEF Moved
  <2> QED
    BY <2>2, <2>4 DEF Goes, s
<1>8. ASSUME t.text \in Spelling["VALUES"]
      PROVE  Goes(At("dot", "INSERT", cols, vals), t, At("open", "INSERT", cols, vals))
  <2> DEFINE s == At("dot", "INSERT", cols, vals)
  <2>1. s.at = "dot" /\ s.kind = "INSERT" /\ s.cols = cols /\ s.vals = vals
    BY StateIs
  <2> HIDE DEF s
  <2>2. s.at \in Places /\ Can(s, t)
    BY <1>1, <1>8, <2>1, PlaceMoves DEF Places, Says
  <2>3. Go(s, "open") = At("open", "INSERT", cols, vals)
    BY <2>1 DEF Go
  <2>4. Moved(s, t) = At("open", "INSERT", cols, vals)
    BY <1>1, <1>8, <2>1, <2>3 DEF Moved
  <2> QED
    BY <2>2, <2>4 DEF Goes, s
<1>9. ASSUME t.text \in Spelling["VALUES"]
      PROVE  Goes(At("columns", kind, cols, vals), t, At("open", kind, cols, vals))
  <2> DEFINE s == At("columns", kind, cols, vals)
  <2>1. s.at = "columns" /\ s.kind = kind /\ s.cols = cols /\ s.vals = vals
    BY StateIs
  <2> HIDE DEF s
  <2>2. s.at \in Places /\ Can(s, t)
    BY <1>1, <1>9, <2>1, PlaceMoves DEF Places, Says
  <2>3. Go(s, "open") = At("open", kind, cols, vals)
    BY <2>1 DEF Go
  <2>4. Moved(s, t) = At("open", kind, cols, vals)
    BY <1>1, <1>9, <2>1, <2>3 DEF Moved
  <2> QED
    BY <2>2, <2>4 DEF Goes, s
<1>10. ASSUME t.text \in Spelling["VALUES"]
      PROVE  Goes(At("values", kind, cols, vals), t, At("open", kind, cols, vals))
  <2> DEFINE s == At("values", kind, cols, vals)
  <2>1. s.at = "values" /\ s.kind = kind /\ s.cols = cols /\ s.vals = vals
    BY StateIs
  <2> HIDE DEF s
  <2>2. s.at \in Places /\ Can(s, t)
    BY <1>1, <1>10, <2>1, PlaceMoves DEF Places, Says
  <2>3. Go(s, "open") = At("open", kind, cols, vals)
    BY <2>1 DEF Go
  <2>4. Moved(s, t) = At("open", kind, cols, vals)
    BY <1>1, <1>10, <2>1, <2>3 DEF Moved
  <2> QED
    BY <2>2, <2>4 DEF Goes, s
<1> QED
  BY <1>2, <1>3, <1>4, <1>5, <1>6, <1>7, <1>8, <1>9, <1>10

LEMMA StartMoves ==
  ASSUME NEW t, t.kind = "word"
  PROVE  /\ t.text \in Spelling["INSERT"] => Goes(Start, t, At("into", "INSERT", <<>>, 0))
         /\ t.text \in Spelling["SELECT"] => Goes(Start, t, At("selected", "SELECT", <<>>, 0))
<1>1. Start.at = "statement"
  BY StateIs DEF Start
<1>2. t.text \in Spelling["SELECT"] => t.text \notin Spelling["INSERT"]
  BY SpellingAssumption DEF Keywords
<1> QED
  BY <1>1, <1>2, PlaceMoves DEF Goes, Places, Says

LEMMA LiteralMoves ==
  ASSUME NEW kind, NEW cols, NEW vals, NEW t, IsValue(t)
  PROVE  Goes(At("value", kind, cols, vals), t, At("valueNext", kind, cols, vals + 1))
<1> DEFINE s == At("value", kind, cols, vals)
<1>1. s.at = "value" /\ s.kind = kind /\ s.cols = cols /\ s.vals = vals
  BY StateIs
<1> HIDE DEF s
<1> QED
  BY <1>1, PlaceMoves, ZenonT(30) DEF Goes, Places, s

LEMMA NameListIs ==
  ASSUME NEW n \in Nat, NEW names \in NameLists(n)
  PROVE  /\ names \in Seq(Words) /\ names \in Seq(Readable) /\ Len(names) = n /\ IsInjective(names)
         /\ Texts(names) \in Seq(TokenWords) /\ Len(Texts(names)) = n
<1>1. names \in [1 .. n -> Words] /\ IsInjective(names)
  BY DEF NameLists, Lists
<1>2. Words \subseteq Tokens /\ Words \subseteq Readable
  BY ReadableAre DEF Words
<1>3. names \in [1 .. n -> Readable]
  BY <1>1, <1>2
<1>4. names \in Seq(Words) /\ names \in Seq(Readable) /\ Len(names) = n
  BY <1>1, <1>3, FunctionIsSeq
<1>5. Texts(names) \in [1 .. n -> TokenWords]
  BY <1>1 DEF Texts, TokenWords, Words
<1>6. Texts(names) \in Seq(TokenWords) /\ Len(Texts(names)) = n
  BY <1>5, FunctionIsSeq
<1> QED
  BY <1>1, <1>4, <1>6

\* The names of a list are taken one by one, each for the first time.
LEMMA NamesWalk ==
  ASSUME NEW n \in Nat \ {0}, NEW names \in NameLists(n)
  PROVE  /\ Walk(List(names), At("column", "INSERT", <<>>, 0), At("columnNext", "INSERT", Texts(names), 0))
         /\ Walk(List(names), At("selected", "SELECT", <<>>, 0), At("nameNext", "SELECT", Texts(names), 0))
         /\ List(names) \in Seq(Readable)
<1> DEFINE X == Words \cup {CommaMark}
           fits == {items \in Seq(Words) : IsInjective(items)}
           columnBefore == [items \in Seq(X) |-> At("column", "INSERT", Texts(items), 0)]
           columnAfter  == [items \in Seq(X) |-> At("columnNext", "INSERT", Texts(items), 0)]
           nameBefore   == [items \in Seq(X) |->
                              At(IF items = <<>> THEN "selected" ELSE "name", "SELECT", Texts(items), 0)]
           nameAfter    == [items \in Seq(X) |-> At("nameNext", "SELECT", Texts(items), 0)]
<1>1. CommaMark \in X /\ Words \subseteq X /\ Seq(Words) \subseteq Seq(X)
  OBVIOUS
<1>2. /\ \A items \in Seq(X) :
           /\ columnBefore[items] = At("column", "INSERT", Texts(items), 0)
           /\ columnAfter[items] = At("columnNext", "INSERT", Texts(items), 0)
           /\ nameBefore[items] = At(IF items = <<>> THEN "selected" ELSE "name", "SELECT", Texts(items), 0)
           /\ nameAfter[items] = At("nameNext", "SELECT", Texts(items), 0)
  OBVIOUS
<1>3. ASSUME NEW items \in Seq(X), NEW x \in X, Append(items, x) \in fits
      PROVE  /\ items \in fits /\ x.kind = "word" /\ x.text \notin ToSet(Texts(items))
             /\ Texts(Append(items, x)) = Append(Texts(items), x.text)
             /\ Append(items, x) \in Seq(X)
  <2> DEFINE more == Append(items, x)
  <2>1. /\ more \in Seq(Words) /\ IsInjective(more) /\ more \in Seq(X) /\ Len(more) = Len(items) + 1
        /\ more[Len(items) + 1] = x /\ \A i \in 1 .. Len(items) : more[i] = items[i]
    BY <1>3, AppendProperties
  <2>2. Len(items) \in Nat /\ DOMAIN items = 1 .. Len(items)
    BY LenProperties
  <2>3. \A i \in 1 .. Len(more) : more[i] \in Words
    BY <2>1, ElementOfSeq
  <2> HIDE DEF more
  <2>4. x \in Words /\ items \in [1 .. Len(items) -> Words]
    <3>1. Len(items) + 1 \in 1 .. Len(more) /\ \A i \in 1 .. Len(items) : i \in 1 .. Len(more)
      BY <2>1, <2>2
    <3>2. x \in Words /\ \A i \in 1 .. Len(items) : items[i] \in Words
      BY <2>1, <2>3, <3>1
    <3>3. items = [i \in 1 .. Len(items) |-> items[i]]
      BY <2>2
    <3> QED
      BY <3>2, <3>3
  <2>5. items \in Seq(Words)
    BY <2>2, <2>4, FunctionIsSeq
  <2>6. /\ IsInjective(items) /\ x.text \notin ToSet(Texts(items))
        /\ Texts(more) = Append(Texts(items), x.text)
    BY <2>1, <2>4, <2>5, TextsAppend DEF more
  <2>7. x.kind = "word"
    BY <2>4 DEF Words
  <2> QED
    BY <2>1, <2>5, <2>6, <2>7 DEF more
<1> HIDE DEF fits, columnBefore, columnAfter, nameBefore, nameAfter, X
<1>4. ListRoutes(X, fits, columnBefore, columnAfter)
  <2>1. ASSUME NEW items \in Seq(X), NEW x \in X, Append(items, x) \in fits
        PROVE  items \in fits /\ Goes(columnBefore[items], x, columnAfter[Append(items, x)])
    <3>1. /\ items \in fits /\ x.kind = "word" /\ x.text \notin ToSet(Texts(items))
          /\ columnAfter[Append(items, x)] = At("columnNext", "INSERT", Append(Texts(items), x.text), 0)
      BY <1>2, <1>3, <2>1
    <3>2. columnBefore[items] = At("column", "INSERT", Texts(items), 0)
      BY <1>2
    <3> QED
      BY <3>1, <3>2, NameMoves
  <2>2. ASSUME NEW items \in Seq(X)
        PROVE  Goes(columnAfter[items], CommaMark, columnBefore[items])
    BY <1>2, MarkMoves
  <2> QED
    BY <2>1, <2>2 DEF ListRoutes
<1>5. ListRoutes(X, fits, nameBefore, nameAfter)
  <2>1. ASSUME NEW items \in Seq(X), NEW x \in X, Append(items, x) \in fits
        PROVE  items \in fits /\ Goes(nameBefore[items], x, nameAfter[Append(items, x)])
    <3>1. /\ items \in fits /\ x.kind = "word" /\ x.text \notin ToSet(Texts(items))
          /\ nameAfter[Append(items, x)] = At("nameNext", "SELECT", Append(Texts(items), x.text), 0)
      BY <1>2, <1>3, <2>1
    <3>2. CASE items = <<>>
      <4>1. nameBefore[items] = At("selected", "SELECT", Texts(items), 0)
        BY <1>2, <3>2
      <4> QED
        BY <3>1, <4>1, NameMoves
    <3>3. CASE items # <<>>
      <4>1. nameBefore[items] = At("name", "SELECT", Texts(items), 0)
        BY <1>2, <3>3
      <4> QED
        BY <3>1, <4>1, NameMoves
    <3> QED
      BY <3>2, <3>3
  <2>2. ASSUME NEW items \in Seq(X), items # <<>>
        PROVE  Goes(nameAfter[items], CommaMark, nameBefore[items])
    <3>1. nameBefore[items] = At("name", "SELECT", Texts(items), 0)
      BY <1>2, <2>2
    <3> QED
      BY <1>2, <3>1, MarkMoves
  <2> QED
    BY <2>1, <2>2 DEF ListRoutes
<1>6. names \in Seq(Words) /\ names \in Seq(Readable) /\ Len(names) = n /\ IsInjective(names)
  BY NameListIs
<1>7. names \in fits /\ names # <<>> /\ names \in Seq(X) /\ <<>> \in Seq(X)
  BY <1>1, <1>6 DEF fits
<1>8. Texts(<<>>) = <<>>
  <2>1. DOMAIN <<>> = 1 .. 0 /\ 1 .. 0 = {}
    OBVIOUS
  <2>2. Texts(<<>>) \in [1 .. 0 -> TokenWords]
    BY <2>1 DEF Texts
  <2>3. Texts(<<>>) \in Seq(TokenWords) /\ Len(Texts(<<>>)) = 0
    BY <2>2, FunctionIsSeq
  <2> QED
    BY <2>3, EmptySeq
<1>9. Walk(List(names), columnBefore[<<>>], columnAfter[names])
  BY <1>1, <1>4, <1>7, ListWalks
<1>10. Walk(List(names), nameBefore[<<>>], nameAfter[names])
  BY <1>1, <1>5, <1>7, ListWalks
<1>11. List(names) \in Seq(Readable)
  BY <1>6, ReadableAre, ListAppend
<1> QED
  BY <1>2, <1>7, <1>8, <1>9, <1>10, <1>11

\* And the literals, which are counted.
LEMMA LiteralsWalk ==
  ASSUME \A t \in Literals : IsValue(t),
         NEW n \in Nat \ {0}, NEW vals \in Lists(Literals, n), NEW cols
  PROVE  /\ Walk(List(vals), At("value", "INSERT", cols, 0), At("valueNext", "INSERT", cols, n))
         /\ List(vals) \in Seq(Readable)
<1> DEFINE X == Literals \cup {CommaMark}
           fits == Seq(Literals)
           before == [items \in Seq(X) |-> At("value", "INSERT", cols, Len(items))]
           after  == [items \in Seq(X) |-> At("valueNext", "INSERT", cols, Len(items))]
<1>1. CommaMark \in X /\ Literals \subseteq X /\ Seq(Literals) \subseteq Seq(X)
  OBVIOUS
<1>2. \A items \in Seq(X) : /\ before[items] = At("value", "INSERT", cols, Len(items))
                            /\ after[items] = At("valueNext", "INSERT", cols, Len(items))
  OBVIOUS
<1>3. ASSUME NEW items \in Seq(X), NEW x \in X, Append(items, x) \in fits
      PROVE  items \in fits /\ x \in Literals /\ Append(items, x) \in Seq(X) /\ Len(Append(items, x)) = Len(items) + 1
  <2> DEFINE more == Append(items, x)
  <2>1. /\ more \in Seq(Literals) /\ more \in Seq(X) /\ Len(more) = Len(items) + 1
        /\ more[Len(items) + 1] = x /\ \A i \in 1 .. Len(items) : more[i] = items[i]
    BY <1>3, AppendProperties
  <2>2. Len(items) \in Nat /\ DOMAIN items = 1 .. Len(items)
    BY LenProperties
  <2>3. \A i \in 1 .. Len(more) : more[i] \in Literals
    BY <2>1, ElementOfSeq
  <2> HIDE DEF more
  <2>4. Len(items) + 1 \in 1 .. Len(more) /\ \A i \in 1 .. Len(items) : i \in 1 .. Len(more)
    BY <2>1, <2>2
  <2>5. x \in Literals /\ \A i \in 1 .. Len(items) : items[i] \in Literals
    BY <2>1, <2>3, <2>4
  <2>6. items = [i \in 1 .. Len(items) |-> items[i]]
    BY <2>2
  <2>7. items \in [1 .. Len(items) -> Literals]
    BY <2>5, <2>6
  <2>8. items \in Seq(Literals)
    BY <2>2, <2>7, FunctionIsSeq
  <2> QED
    BY <2>1, <2>5, <2>8 DEF more
<1> HIDE DEF before, after
<1>4. vals \in fits /\ vals # <<>> /\ vals \in Seq(X) /\ <<>> \in Seq(X) /\ Len(vals) = n /\ Len(<<>>) = 0
      /\ vals \in Seq(Readable)
  <2>1. vals \in [1 .. n -> Literals]
    BY DEF Lists
  <2>2. Literals \subseteq Readable
    BY ReadableAre DEF Literals
  <2>3. vals \in [1 .. n -> Readable]
    BY <2>1, <2>2
  <2>4. vals \in Seq(Literals) /\ Len(vals) = n /\ vals \in Seq(Readable)
    BY <2>1, <2>3, FunctionIsSeq
  <2> QED
    BY <1>1, <2>4
<1> HIDE DEF fits, X
<1>5. ListRoutes(X, fits, before, after)
  <2>1. ASSUME NEW items \in Seq(X), NEW x \in X, Append(items, x) \in fits
        PROVE  items \in fits /\ Goes(before[items], x, after[Append(items, x)])
    <3>1. items \in fits /\ IsValue(x) /\ before[items] = At("value", "INSERT", cols, Len(items))
      BY <1>2, <1>3, <2>1
    <3>2. after[Append(items, x)] = At("valueNext", "INSERT", cols, Len(items) + 1)
      BY <1>2, <1>3, <2>1
    <3> QED
      BY <3>1, <3>2, LiteralMoves
  <2>2. ASSUME NEW items \in Seq(X)
        PROVE  Goes(after[items], CommaMark, before[items])
    BY <1>2, MarkMoves
  <2> QED
    BY <2>1, <2>2 DEF ListRoutes
<1>6. Walk(List(vals), before[<<>>], after[vals])
  BY <1>1, <1>4, <1>5, ListWalks
<1>7. List(vals) \in Seq(Readable)
  BY <1>4, ReadableAre, ListAppend
<1> QED
  BY <1>2, <1>4, <1>6, <1>7

\* In parentheses.
LEMMA ParenthesesWalk ==
  ASSUME NEW items, List(items) \in Seq(Readable), NEW s, NEW s1, NEW s2, NEW s3,
         Goes(s, Mark("("), s1), Walk(List(items), s1, s2), Goes(s2, Mark(")"), s3)
  PROVE  Walk(Parenthesized(items), s, s3) /\ Parenthesized(items) \in Seq(Readable)
<1> DEFINE list == List(items)
<1>1. <<Mark("(")>> \in Seq(Readable) /\ <<Mark(")")>> \in Seq(Readable) /\ list \in Seq(Readable)
  BY ReadableAre, SmallSeqs
<1>2. Walk(<<Mark("(")>>, s, s1) /\ Walk(<<Mark(")")>>, s2, s3) /\ Walk(list, s1, s2)
  BY WalkOne
<1> HIDE DEF list
<1>3. <<Mark("(")>> \o list \in Seq(Readable) /\ Walk(<<Mark("(")>> \o list, s, s2)
  BY <1>1, <1>2, WalkConcat, ConcatProperties
<1>4. Walk((<<Mark("(")>> \o list) \o <<Mark(")")>>, s, s3)
  BY <1>1, <1>2, <1>3, WalkConcat
<1>5. (<<Mark("(")>> \o list) \o <<Mark(")")>> \in Seq(Readable)
  BY <1>1, <1>3, ConcatProperties
<1> QED
  BY <1>4, <1>5 DEF Parenthesized, list

LEMMA ColumnListWalks ==
  ASSUME NEW n \in Nat \ {0}, NEW names \in NameLists(n)
  PROVE  /\ Walk(Parenthesized(names), At("dot", "INSERT", <<>>, 0), At("values", "INSERT", Texts(names), 0))
         /\ Walk(Parenthesized(names), At("columns", "INSERT", <<>>, 0), At("values", "INSERT", Texts(names), 0))
         /\ Parenthesized(names) \in Seq(Readable)
<1>1. /\ Walk(List(names), At("column", "INSERT", <<>>, 0), At("columnNext", "INSERT", Texts(names), 0))
      /\ List(names) \in Seq(Readable)
  BY NamesWalk
<1>2. /\ Goes(At("dot", "INSERT", <<>>, 0), Mark("("), At("column", "INSERT", <<>>, 0))
      /\ Goes(At("columns", "INSERT", <<>>, 0), Mark("("), At("column", "INSERT", <<>>, 0))
      /\ Goes(At("columnNext", "INSERT", Texts(names), 0), Mark(")"), At("values", "INSERT", Texts(names), 0))
  BY MarkMoves
<1> QED
  BY <1>1, <1>2, ParenthesesWalk

LEMMA ValueListWalks ==
  ASSUME \A t \in Literals : IsValue(t),
         NEW n \in Nat \ {0}, NEW vals \in Lists(Literals, n), NEW cols
  PROVE  /\ Walk(Parenthesized(vals), At("open", "INSERT", cols, 0), At("counted", "INSERT", cols, n))
         /\ Parenthesized(vals) \in Seq(Readable)
<1>1. /\ Walk(List(vals), At("value", "INSERT", cols, 0), At("valueNext", "INSERT", cols, n))
      /\ List(vals) \in Seq(Readable)
  BY LiteralsWalk
<1>2. /\ Goes(At("open", "INSERT", cols, 0), Mark("("), At("value", "INSERT", cols, 0))
      /\ Goes(At("valueNext", "INSERT", cols, n), Mark(")"), At("counted", "INSERT", cols, n))
  BY MarkMoves
<1> QED
  BY <1>1, <1>2, ParenthesesWalk

\* The name of a table, with a schema or without.
LEMMA TargetWalks ==
  ASSUME NEW kind \in {"INSERT", "SELECT"}, NEW cols, NEW vals, NEW f \in Targets
  PROVE  /\ \E s2 \in {At("dot", kind, cols, vals),
                       At(IF kind = "INSERT" THEN "columns" ELSE "end", kind, cols, vals)} :
              Walk(f, At("table", kind, cols, vals), s2)
         /\ f \in Seq(Readable)
<1>1. Words \subseteq Readable /\ Mark(".") \in Readable /\ \A w \in Words : w.kind = "word"
  BY ReadableAre DEF Words
<1>2. CASE f \in One(Words)
  <2>1. PICK w \in Words : f = <<w>>
    BY <1>2 DEF One
  <2>2. f \in Seq(Readable)
    BY <1>1, <2>1, SmallSeqs
  <2>3. Walk(f, At("table", kind, cols, vals), At("dot", kind, cols, vals))
    BY <1>1, <2>1, WordMoves, WalkOne
  <2> QED
    BY <2>2, <2>3
<1>3. CASE f \notin One(Words)
  <2>1. PICK w, v \in Words : f = <<w, Mark("."), v>>
    BY <1>3 DEF Targets
  <2> DEFINE s0 == At("table", kind, cols, vals)
             s1 == At("dot", kind, cols, vals)
             s2 == At("member", kind, cols, vals)
             s3 == At(IF kind = "INSERT" THEN "columns" ELSE "end", kind, cols, vals)
             a  == <<w>>
             b  == <<Mark(".")>>
             c  == <<v>>
  <2>2. Goes(s0, w, s1) /\ Goes(s1, Mark("."), s2)
    BY <1>1, WordMoves, MarkMoves
  <2>3. Goes(s2, v, s3)
    <3>1. v.kind = "word"
      BY <1>1
    <3>2. CASE kind = "INSERT"
      BY <3>1, <3>2, WordMoves
    <3>3. CASE kind = "SELECT"
      BY <3>1, <3>3, WordMoves
    <3> QED
      BY <3>2, <3>3
  <2>4. a \in Seq(Readable) /\ b \in Seq(Readable) /\ c \in Seq(Readable)
    BY <1>1, SmallSeqs
  <2>5. f = (a \o b) \o c /\ f \in Seq(Readable)
    <3> DEFINE m == Mark(".")
               e == <<w, m, v>>
               d == (a \o b) \o c
    <3>1. w \in Readable /\ m \in Readable /\ v \in Readable
      BY <1>1
    <3>2. f = e /\ a = <<w>> /\ b = <<m>> /\ c = <<v>>
      BY <2>1
    <3> HIDE DEF m, a, b, c
    <3>3. e \in Seq(Readable) /\ Len(e) = 3 /\ e[1] = w /\ e[2] = m /\ e[3] = v
      BY <3>1
    <3>4. /\ Len(a) = 1 /\ a[1] = w /\ Len(b) = 1 /\ b[1] = m /\ Len(c) = 1 /\ c[1] = v
          /\ a \in Seq(Readable) /\ b \in Seq(Readable) /\ c \in Seq(Readable)
      BY <3>1, <3>2
    <3>5. /\ a \o b \in Seq(Readable) /\ Len(a \o b) = 2 /\ (a \o b)[1] = w /\ (a \o b)[2] = m
      BY <3>4, ConcatProperties
    <3>6. /\ d \in Seq(Readable) /\ Len(d) = 3 /\ d[1] = w /\ d[2] = m /\ d[3] = v
      BY <3>4, <3>5, ConcatProperties
    <3> HIDE DEF d, e
    <3>7. \A i \in 1 .. Len(d) : d[i] = e[i]
      <4>1. \A i \in 1 .. 3 : i = 1 \/ i = 2 \/ i = 3
        OBVIOUS
      <4> QED
        BY <3>3, <3>6, <4>1
    <3>8. d = e
      BY <3>3, <3>6, <3>7, SeqEqual
    <3> QED
      BY <3>2, <3>3, <3>8 DEF d
  <2> HIDE DEF s0, s1, s2, s3
  <2>6. Walk(a, s0, s1) /\ Walk(b, s1, s2) /\ Walk(c, s2, s3)
    BY <2>2, <2>3, WalkOne
  <2> HIDE DEF a, b, c
  <2>7. a \o b \in Seq(Readable) /\ Walk(a \o b, s0, s2)
    BY <2>4, <2>6, WalkConcat, ConcatProperties
  <2>8. Walk((a \o b) \o c, s0, s3)
    BY <2>4, <2>6, <2>7, WalkConcat
  <2> QED
    BY <2>5, <2>8 DEF s0, s3
<1> QED
  BY <1>2, <1>3

----------------------------------------------------------------------------
(***************************************************************************)
(* A literal of the grammar is a value: its number was written for one     *)
(* that fits, its apostrophes pair.                                        *)
(***************************************************************************)
LEMMA DigitsReadBack ==
  ASSUME NEW n \in Nat
  PROVE  Decimal(Digits(n)) = n
<1> DEFINE S == {m \in Nat : \A k \in 0 .. m : Decimal(Digits(k)) = k}
<1>1. \A k \in 0 .. 9 : Decimal(Digits(k)) = k
  <2> SUFFICES ASSUME NEW k \in 0 .. 9 PROVE Decimal(Digits(k)) = k
    OBVIOUS
  <2>1. Digits(k) = <<Digit[k]>> /\ Digit[k] \in DigitChar /\ DigitValue(Digit[k]) = k
    BY DigitsSteps, DigitsDiffer
  <2>2. <<>> \in Seq(DigitChar) /\ Append(<<>>, Digit[k]) = <<Digit[k]>>
    OBVIOUS
  <2>3. Decimal(Append(<<>>, Digit[k])) = 10 * Decimal(<<>>) + DigitValue(Digit[k]) /\ Decimal(<<>>) = 0
    BY <2>1, <2>2, DecimalSteps
  <2> QED
    BY <2>1, <2>2, <2>3
<1>2. 0 \in S
  <2>1. 0 \in 0 .. 9 /\ \A k \in 0 .. 0 : k = 0
    OBVIOUS
  <2> QED
    BY <1>1, <2>1
<1>3. ASSUME NEW m \in Nat, m \in S
      PROVE  m + 1 \in S
  <2>1. CASE m + 1 < 10
    <3>1. \A k \in 0 .. (m + 1) : k \in 0 .. 9
      BY <2>1
    <3> QED
      BY <1>1, <3>1
  <2>2. CASE ~(m + 1 < 10)
    <3>1. PICK q \in Nat \ {0}, d \in 0 .. 9 : m + 1 = 10 * q + d /\ q <= m
      <4> DEFINE q == (m + 1) \div 10
                 d == (m + 1) % 10
      <4>1. q \in Nat \ {0} /\ d \in 0 .. 9 /\ m + 1 = 10 * q + d /\ q <= m
        BY <2>2
      <4> QED
        BY <4>1
    <3>2. Decimal(Digits(q)) = q
      <4>1. q \in 0 .. m
        BY <3>1
      <4> QED
        BY <1>3, <4>1
    <3>3. Digits(m + 1) = Append(Digits(q), Digit[d]) /\ Digits(q) \in Seq(DigitChar)
      BY <3>1, DigitsSteps DEF Numeral
    <3>4. Digit[d] \in DigitChar /\ DigitValue(Digit[d]) = d
      BY DigitsDiffer
    <3>5. Decimal(Append(Digits(q), Digit[d])) = 10 * Decimal(Digits(q)) + DigitValue(Digit[d])
      BY <3>3, <3>4, DecimalSteps
    <3>6. Decimal(Digits(m + 1)) = m + 1
      BY <3>1, <3>2, <3>3, <3>4, <3>5
    <3>7. \A k \in 0 .. (m + 1) : k = m + 1 \/ k \in 0 .. m
      OBVIOUS
    <3> QED
      BY <1>3, <3>6, <3>7
  <2> QED
    BY <2>1, <2>2
<1>4. Nat \subseteq S
  <2> HIDE DEF S
  <2> QED
    BY <1>2, <1>3, NatSetInduction
<1>5. n \in S /\ n \in 0 .. n
  BY <1>4
<1> QED
  BY <1>5

\* No numeral begins like a negative number.
LEMMA SignsDiffer ==
  ASSUME NEW ds \in Numeral, NEW es \in Numeral
  PROVE  <<"-">> \o ds # es
<1>1. \A ch \in DigitChar : ch # "-"
  BY DEF DigitChar, Digit
<1>2. es[1] \in DigitChar
  <2>1. es \in Seq(DigitChar) /\ Len(es) \in Nat /\ Len(es) # 0
    BY EmptySeq DEF Numeral
  <2> QED
    BY <2>1, ElementOfSeq
<1>3. (<<"-">> \o ds)[1] = "-"
  <2> DEFINE X == DigitChar \cup {"-"}
             a == <<"-">>
  <2>1. a \in Seq(X) /\ ds \in Seq(X) /\ Len(a) = 1 /\ a[1] = "-"
    BY DEF Numeral
  <2>2. 1 \in 1 .. (Len(a) + Len(ds))
    BY <2>1
  <2> HIDE DEF X, a
  <2>3. (a \o ds)[1] = a[1]
    BY <2>1, <2>2, ConcatProperties
  <2> QED
    BY <2>1, <2>3 DEF a
<1> QED
  BY <1>1, <1>2, <1>3

LEMMA WrittenNumbersFit ==
  ASSUME NEW t, IsNumber(t), Shortest(t) \in Integers
  PROVE  InRange(t)
<1> DEFINE n == Decimal(t.digits)
           minus == t.sign = "-" /\ Stripped(t.digits) # <<"0">>
<1>1. n \in Nat /\ LongMax \in Nat
  BY DecimalSteps, ParserBounds DEF Numeral, IsNumber
<1>2. Stripped(t.digits) = Digits(n) /\ (n = 0 <=> Stripped(t.digits) = <<"0">>)
  BY StrippedDigits DEF IsNumber
<1>3. Value(t) = IF t.sign = "-" THEN -n ELSE n
  BY ValueIs
<1>4. Shortest(t) = (IF minus THEN <<"-">> ELSE <<>>) \o Digits(n)
  BY <1>2 DEF Shortest, Stripped
<1>5. PICK v \in (-LongMax - 1) .. LongMax : Shortest(t) = WriteInteger(v, LongMax)
  BY DEF Integers
<1>6. PICK m \in Nat : m = (IF v < 0 THEN -v ELSE v) /\ Magnitude(v, LongMax) = m
  <2>1. CASE v < 0
    <3>1. -v \in Nat /\ -v <= LongMax + 1 /\ -(-v) = v
      BY <1>1, <2>1
    <3>2. Magnitude(-(-v), LongMax) = -v
      BY <3>1, MagnitudeIs
    <3> QED
      BY <2>1, <3>1, <3>2
  <2>2. CASE ~(v < 0)
    <3>1. v \in Nat /\ v <= LongMax /\ v <= LongMax + 1
      BY <1>1, <2>2
    <3>2. Magnitude(v, LongMax) = v
      BY <3>1, MagnitudeIs
    <3> QED
      BY <2>2, <3>1, <3>2
  <2> QED
    BY <2>1, <2>2
<1>7. (IF minus THEN <<"-">> ELSE <<>>) \o Digits(n) = (IF v < 0 THEN <<"-">> ELSE <<>>) \o Digits(m)
  BY <1>4, <1>5, <1>6 DEF WriteInteger
<1> DEFINE a == Digits(n)
           b == Digits(m)
           one == <<"-">>
<1>8. a \in Numeral /\ b \in Numeral
  BY <1>1, DigitsSteps
<1>9. <<>> \o a = a /\ <<>> \o b = b
  BY <1>8, ConcatEmptySeq DEF Numeral
<1>10. one \o a # b /\ one \o b # a
  BY <1>8, SignsDiffer
<1> HIDE DEF n, minus
<1>11. (minus <=> v < 0) /\ a = b
  <2> HIDE DEF a, b, one
  <2>1. (IF minus THEN one ELSE <<>>) \o a = (IF v < 0 THEN one ELSE <<>>) \o b
    BY <1>7 DEF a, b, one
  <2>2. CASE minus /\ v < 0
    <3> DEFINE X == DigitChar \cup {"-"}
    <3>1. one \in Seq(X) /\ a \in Seq(X) /\ b \in Seq(X)
      BY <1>8 DEF Numeral, one
    <3>2. one \o a = one \o b
      BY <2>1, <2>2
    <3> HIDE DEF X
    <3>3. a = b
      BY <3>1, <3>2, ConcatSimplifications
    <3> QED
      BY <2>2, <3>3
  <2>3. CASE minus /\ ~(v < 0)
    BY <1>9, <1>10, <2>1, <2>3
  <2>4. CASE ~minus /\ v < 0
    BY <1>9, <1>10, <2>1, <2>4
  <2>5. CASE ~minus /\ ~(v < 0)
    BY <1>9, <2>1, <2>5
  <2> QED
    BY <2>2, <2>3, <2>4, <2>5
<1>12. n = m
  <2>1. Decimal(a) = n /\ Decimal(b) = m
    BY <1>1, DigitsReadBack
  <2> QED
    BY <1>11, <2>1
<1>13. minus <=> t.sign = "-" /\ n # 0
  BY <1>2 DEF minus
<1>14. Value(t) = v
  <2>1. Value(t) = IF t.sign = "-" THEN -n ELSE n
    BY <1>3 DEF n
  <2>2. CASE v < 0
    <3>1. t.sign = "-" /\ n = -v
      BY <1>6, <1>11, <1>12, <1>13, <2>2
    <3> QED
      BY <1>1, <2>1, <3>1
  <2>3. CASE ~(v < 0)
    <3>1. n = v /\ (t.sign = "-" => n = 0)
      BY <1>6, <1>11, <1>12, <1>13, <2>3
    <3> QED
      BY <1>1, <2>1, <3>1
  <2> QED
    BY <2>2, <2>3
<1> QED
  BY <1>14 DEF InRange

\* An odd number of apostrophes behind the first one: the last of them closes
\* the text.
LEMMA PairedTextsClose ==
  ASSUME NEW X, NEW c \in Seq(X), c # <<>>, c[1] = Apostrophe,
         Cardinality({i \in DOMAIN c : c[i] = Apostrophe}) % 2 = 0
  PROVE  StringFrom(c, 2).closed
<1> DEFINE n == Len(c)
           r == StringBody(c)
           P == {j \in 1 .. (n + 2) :
                   j \in 2 .. (n + 1) /\ Apostrophes(c, j - 1) % 2 = 0 => r[j].closed}
<1>1. n \in Nat \ {0} /\ n = Len(c) /\ DOMAIN c = 1 .. n
  <2>1. Len(c) \in Nat /\ Len(c) # 0 /\ DOMAIN c = 1 .. Len(c)
    BY EmptySeq, LenProperties
  <2> QED
    BY <2>1
<1>2. Apostrophe \in X
  BY <1>1
<1>3. \A j \in 2 .. (n + 2) : r[j] \in StringRead(X) /\ r[j] = StringStep(c, r, j)
  BY <1>2, StringSteps
<1> HIDE DEF r, n
<1>4. \A x \in StringRead(X) : \A w : [x EXCEPT !.text = w].closed = x.closed
  BY DEF StringRead
<1>5. Apostrophes(c, n) \in Nat /\ Apostrophes(c, n) % 2 = 1
  <2> DEFINE all == {i \in DOMAIN c : c[i] = Apostrophe}
             behind == {i \in 2 .. n : c[i] = Apostrophe}
  <2>1. all = behind \cup {1} /\ 1 \notin behind
    BY <1>1
  <2>2. IsFiniteSet(behind)
    <3>1. IsFiniteSet(2 .. n) /\ behind \in SUBSET (2 .. n)
      BY <1>1, FS_Interval
    <3> HIDE DEF behind
    <3> QED
      BY <3>1, FS_Subset
  <2> HIDE DEF all, behind
  <2>3. Cardinality(behind) \in Nat /\ Cardinality(all) = Cardinality(behind) + 1
    BY <2>1, <2>2, FS_AddElement, FS_CardinalityType
  <2>4. Cardinality(all) % 2 = 0
    BY DEF all
  <2>5. Cardinality(behind) % 2 = 1
    BY <2>3, <2>4
  <2> QED
    BY <2>3, <2>5 DEF Apostrophes, behind
<1>6. ASSUME NEW j \in 1 .. (n + 2), \A k \in (j + 1) .. (n + 2) : k \in P
      PROVE  j \in P
  <2> SUFFICES ASSUME j \in 2 .. (n + 1), Apostrophes(c, j - 1) % 2 = 0
               PROVE  r[j].closed
    OBVIOUS
  <2>1. j \in Nat /\ j - 1 \in Nat \ {0} /\ (j - 1) + 1 = j
        /\ j \in Nat \ {0} /\ (j + 1) - 1 = j /\ (j + 2) - 1 = j + 1 /\ (j + 1) + 1 = j + 2
    BY <1>1
  <2>2. /\ Apostrophes(c, j - 1) \in Nat /\ Apostrophes(c, j) \in Nat
        /\ Apostrophes(c, j) = IF c[j] = Apostrophe THEN Apostrophes(c, j - 1) + 1
                                                    ELSE Apostrophes(c, j - 1)
        /\ Apostrophes(c, j + 1) = IF c[j + 1] = Apostrophe THEN Apostrophes(c, j) + 1
                                                            ELSE Apostrophes(c, j)
    BY <2>1, ApostrophesSteps
  <2>3. j <= n /\ ~(j > n)
    <3>1. j - 1 # n
      BY <1>5
    <3> QED
      BY <1>1, <3>1
  <2>4. r[j] = StringStep(c, r, j)
    BY <1>1, <1>3
  <2>5. CASE c[j] # Apostrophe
    <3>1. r[j] = [r[j + 1] EXCEPT !.text = <<c[j]>> \o @]
      BY <1>1, <2>3, <2>4, <2>5 DEF StringStep
    <3>2. j + 1 \in 2 .. (n + 2) /\ j + 1 \in (j + 1) .. (n + 2) /\ j + 1 \in 2 .. (n + 1)
      BY <1>1, <2>1, <2>3
    <3>3. Apostrophes(c, (j + 1) - 1) % 2 = 0
      BY <2>1, <2>2, <2>5
    <3>4. r[j + 1].closed
      BY <1>6, <3>2, <3>3
    <3> QED
      BY <1>3, <1>4, <3>1, <3>2, <3>4
  <2>6. CASE c[j] = Apostrophe /\ j < n /\ c[j + 1] = Apostrophe
    <3>1. r[j] = [r[j + 2] EXCEPT !.text = <<Apostrophe>> \o @]
      BY <1>1, <2>3, <2>4, <2>6 DEF StringStep
    <3>2. j + 2 \in 2 .. (n + 2) /\ j + 2 \in (j + 1) .. (n + 2) /\ j + 2 \in 2 .. (n + 1)
      BY <1>1, <2>1, <2>6
    <3>3. Apostrophes(c, (j + 2) - 1) % 2 = 0
      <4>1. Apostrophes(c, j + 1) = (Apostrophes(c, j - 1) + 1) + 1
        BY <2>2, <2>6
      <4>2. ((Apostrophes(c, j - 1) + 1) + 1) % 2 = 0
        BY <2>2
      <4> QED
        BY <2>1, <4>1, <4>2
    <3>4. r[j + 2].closed
      BY <1>6, <3>2, <3>3
    <3> QED
      BY <1>3, <1>4, <3>1, <3>2, <3>4
  <2>7. CASE c[j] = Apostrophe /\ ~(j < n /\ c[j + 1] = Apostrophe)
    <3>1. r[j] = [text |-> <<>>, closed |-> TRUE]
      BY <1>1, <2>3, <2>4, <2>7 DEF StringStep
    <3> QED
      BY <3>1
  <2> QED
    BY <2>5, <2>6, <2>7
<1>7. \A j \in 1 .. (n + 2) : j \in P
  <2>1. n + 2 \in Nat
    BY <1>1
  <2> HIDE DEF P
  <2> QED
    BY <1>6, <2>1, DownwardInduction
<1>8. r[2].closed
  <2>1. 2 \in 1 .. (n + 2) /\ 2 \in 2 .. (n + 1) /\ 2 - 1 = 1
    BY <1>1
  <2>2. Apostrophes(c, 1) % 2 = 0
    BY ApostrophesSteps
  <2> QED
    BY <1>7, <2>1, <2>2
<1> QED
  BY <1>8, StringFromIs DEF r

LEMMA LiteralsAreValues == \A t \in Literals : IsValue(t)
<1> SUFFICES ASSUME NEW t \in Literals PROVE IsValue(t)
  OBVIOUS
<1>1. t \in Tokens
  BY DEF Literals
<1>2. CASE t.kind = "int"
  <2>1. Shortest(t) \in Integers
    BY <1>2 DEF Literals
  <2>2. IsNumber(t)
    BY <1>1, <1>2, LiteralsAreTokens DEF IsNumber, Numeral, DigitChar
  <2> QED
    BY <1>2, <2>1, <2>2, WrittenNumbersFit DEF IsValue
<1>3. CASE t.kind # "int"
  <2>1. t.kind = "string" /\ Cardinality({i \in DOMAIN t.chars : t.chars[i] = Apostrophe}) % 2 = 0
    BY <1>3 DEF Literals
  <2>2. t.chars \in Seq(ToSet(t.chars)) /\ t.chars # <<>> /\ t.chars[1] = Apostrophe
    BY <1>1, <2>1, LiteralsAreTokens
  <2>3. StringFrom(t.chars, 2).closed
    BY <2>1, <2>2, PairedTextsClose
  <2> QED
    BY <2>1, <2>3 DEF IsValue
<1> QED
  BY <1>2, <1>3

----------------------------------------------------------------------------
(***************************************************************************)
(* Whatever begins a sentence is walked through.                           *)
(***************************************************************************)
\* A part that is one keyword.
LEMMA KeywordWalks ==
  ASSUME NEW keyword, NEW s, NEW s2,
         \A t : t.kind = "word" /\ t.text \in Spelling[keyword] => Goes(s, t, s2)
  PROVE  \A f \in One(Spelled(keyword)) : Walk(f, s, s2) /\ f \in Seq(Readable)
<1> SUFFICES ASSUME NEW f \in One(Spelled(keyword))
             PROVE  Walk(f, s, s2) /\ f \in Seq(Readable)
  OBVIOUS
<1>1. PICK t \in Spelled(keyword) : f = <<t>>
  BY DEF One
<1>2. t \in Tokens /\ Goes(s, t, s2)
  BY DEF Spelled
<1>3. t \in Readable
  BY <1>2, ReadableAre
<1> QED
  BY <1>1, <1>2, <1>3, WalkOne, SmallSeqs

LEMMA InsertPhraseWalks ==
  ASSUME NEW n \in Nat \ {0}, NEW columns \in {{<<>>}, ColumnLists(n)},
         NEW ts \in Seq(Readable), Begins(ts, InsertPhrase(n, columns))
  PROVE  \E s2 : Walk(ts, Start, s2)
<1> DEFINE p1 == One(Spelled("INSERT"))
           p2 == One(Spelled("INTO"))
           p3 == Targets
           p4 == columns
           p5 == One(Spelled("VALUES"))
           p6 == ValueLists(n)
           p7 == {<<SemicolonMark>>}
           fit == {<<>>} \cup {Texts(names) : names \in NameLists(n)}
           S0 == {Start}
           S1 == {At("into", "INSERT", <<>>, 0)}
           S2 == {At("table", "INSERT", <<>>, 0)}
           S3 == {At("dot", "INSERT", <<>>, 0), At("columns", "INSERT", <<>>, 0)}
           S4 == S3 \cup {At("values", "INSERT", cols, 0) : cols \in fit}
           S5 == {At("open", "INSERT", cols, 0) : cols \in fit}
           S6 == {At("counted", "INSERT", cols, n) : cols \in fit}
           Whole(Q) == Q \in SUBSET Seq(Readable)
           Forth(Q, A, B) == \A f \in Q, s \in A : \E s2 \in B : Walk(f, s, s2)
<1>1. Whole(p1) /\ Forth(p1, S0, S1)
  <2>1. \A f \in p1 : Walk(f, Start, At("into", "INSERT", <<>>, 0)) /\ f \in Seq(Readable)
    BY StartMoves, KeywordWalks
  <2> HIDE DEF p1
  <2> QED
    BY <2>1
<1>2. Whole(p2) /\ Forth(p2, S1, S2)
  <2>1. \A t : t.kind = "word" /\ t.text \in Spelling["INTO"] =>
          Goes(At("into", "INSERT", <<>>, 0), t, At("table", "INSERT", <<>>, 0))
    BY WordMoves
  <2>2. \A f \in p2 : /\ Walk(f, At("into", "INSERT", <<>>, 0), At("table", "INSERT", <<>>, 0))
                      /\ f \in Seq(Readable)
    BY <2>1, KeywordWalks
  <2> HIDE DEF p2
  <2> QED
    BY <2>2
<1>3. Whole(p3) /\ Forth(p3, S2, S3)
  <2>1. ASSUME NEW f \in p3
        PROVE  /\ \E s2 \in S3 : Walk(f, At("table", "INSERT", <<>>, 0), s2)
               /\ f \in Seq(Readable)
    BY TargetWalks
  <2> HIDE DEF p3, S3
  <2> QED
    BY <2>1
<1>4. Whole(p4) /\ Forth(p4, S3, S4)
  <2>1. CASE columns = {<<>>}
    <3>1. \A s : Walk(<<>>, s, s)
      BY WalkNothing
    <3>2. <<>> \in Seq(Readable) /\ S3 \subseteq S4
      OBVIOUS
    <3> HIDE DEF S3, S4
    <3> QED
      BY <2>1, <3>1, <3>2
  <2>2. CASE columns = ColumnLists(n)
    <3>1. ASSUME NEW f \in ColumnLists(n)
          PROVE  /\ f \in Seq(Readable)
                 /\ \A s \in S3 : \E s2 \in S4 : Walk(f, s, s2)
      <4>1. PICK names \in NameLists(n) : f = Parenthesized(names)
        BY DEF ColumnLists
      <4>2. At("values", "INSERT", Texts(names), 0) \in S4
        OBVIOUS
      <4>3. /\ Walk(f, At("dot", "INSERT", <<>>, 0), At("values", "INSERT", Texts(names), 0))
            /\ Walk(f, At("columns", "INSERT", <<>>, 0), At("values", "INSERT", Texts(names), 0))
            /\ f \in Seq(Readable)
        BY <4>1, ColumnListWalks
      <4> HIDE DEF S4
      <4> QED
        BY <4>2, <4>3
    <3> HIDE DEF S3, S4
    <3> QED
      BY <2>2, <3>1
  <2> QED
    BY <2>1, <2>2
<1>5. Whole(p5) /\ Forth(p5, S4, S5)
  <2>1. ASSUME NEW s \in S4
        PROVE  \E s2 \in S5 : \A t : t.kind = "word" /\ t.text \in Spelling["VALUES"] => Goes(s, t, s2)
    <3>1. CASE s \in S3
      <4>1. At("open", "INSERT", <<>>, 0) \in S5
        OBVIOUS
      <4>2. \A t : t.kind = "word" /\ t.text \in Spelling["VALUES"] =>
              Goes(s, t, At("open", "INSERT", <<>>, 0))
        <5>1. CASE s = At("dot", "INSERT", <<>>, 0)
          BY <5>1, WordMoves
        <5>2. CASE s = At("columns", "INSERT", <<>>, 0)
          BY <5>2, WordMoves
        <5> QED
          BY <3>1, <5>1, <5>2
      <4> HIDE DEF S5
      <4> QED
        BY <4>1, <4>2
    <3>2. CASE s \notin S3
      <4>1. PICK cols \in fit : s = At("values", "INSERT", cols, 0)
        BY <3>2
      <4>2. At("open", "INSERT", cols, 0) \in S5
        OBVIOUS
      <4>3. \A t : t.kind = "word" /\ t.text \in Spelling["VALUES"] =>
              Goes(s, t, At("open", "INSERT", cols, 0))
        BY <4>1, WordMoves
      <4> HIDE DEF S5
      <4> QED
        BY <4>2, <4>3
    <3> QED
      BY <3>1, <3>2
  <2> HIDE DEF S4, S5
  <2>2. \A s \in S4 : \E s2 \in S5 : \A f \in p5 : Walk(f, s, s2) /\ f \in Seq(Readable)
    BY <2>1, KeywordWalks
  <2>3. \A f \in p5 : f \in Seq(Readable)
    <3>1. \A t \in Spelled("VALUES") : t \in Readable
      BY ReadableAre DEF Spelled
    <3> QED
      BY <3>1, SmallSeqs DEF One
  <2> HIDE DEF p5
  <2> QED
    BY <2>2, <2>3
<1>6. Whole(p6) /\ Forth(p6, S5, S6)
  <2>1. ASSUME NEW f \in p6
        PROVE  /\ f \in Seq(Readable)
               /\ \A s \in S5 : \E s2 \in S6 : Walk(f, s, s2)
    <3>1. PICK vals \in Lists(Literals, n) : f = Parenthesized(vals)
      BY DEF ValueLists
    <3>2. f \in Seq(Readable)
      BY <3>1, LiteralsAreValues, ValueListWalks
    <3>3. ASSUME NEW s \in S5
          PROVE  \E s2 \in S6 : Walk(f, s, s2)
      <4>1. PICK cols \in fit : s = At("open", "INSERT", cols, 0)
        OBVIOUS
      <4>2. At("counted", "INSERT", cols, n) \in S6
        OBVIOUS
      <4>3. Walk(f, s, At("counted", "INSERT", cols, n))
        BY <3>1, <4>1, LiteralsAreValues, ValueListWalks
      <4> HIDE DEF S6
      <4> QED
        BY <4>2, <4>3
    <3> QED
      BY <3>2, <3>3
  <2> HIDE DEF p6, S5, S6
  <2> QED
    BY <2>1
<1>7. Whole(p7) /\ Forth(p7, S6, S0)
  <2>1. <<SemicolonMark>> \in Seq(Readable)
    BY ReadableAre, SmallSeqs
  <2>2. ASSUME NEW s \in S6
        PROVE  Walk(<<SemicolonMark>>, s, Start)
    <3>1. PICK cols \in fit : s = At("counted", "INSERT", cols, n)
      OBVIOUS
    <3>2. cols = <<>> \/ n = Len(cols)
      BY NameListIs
    <3>3. Goes(s, SemicolonMark, Start)
      BY <3>1, <3>2, MarkMoves
    <3> QED
      BY <3>3, WalkOne
  <2> HIDE DEF S6
  <2> QED
    BY <2>1, <2>2
<1> DEFINE phrase == <<p1, p2, p3, p4, p5, p6, p7>>
           S == [i \in 0 .. 7 |-> CASE i = 0 -> S0 [] i = 1 -> S1 [] i = 2 -> S2 [] i = 3 -> S3
                                    [] i = 4 -> S4 [] i = 5 -> S5 [] i = 6 -> S6 [] i = 7 -> S0]
<1>8. InsertPhrase(n, columns) = phrase
  BY DEF InsertPhrase, SemicolonMark
<1>9. Start \in S0
  OBVIOUS
<1> HIDE DEF p1, p2, p3, p4, p5, p6, p7, S0, S1, S2, S3, S4, S5, S6
<1>10. phrase \in Seq(SUBSET Seq(Readable)) /\ Len(phrase) = 7
       /\ phrase[1] = p1 /\ phrase[2] = p2 /\ phrase[3] = p3 /\ phrase[4] = p4
       /\ phrase[5] = p5 /\ phrase[6] = p6 /\ phrase[7] = p7
  <2> DEFINE V == SUBSET Seq(Readable)
  <2>1. p1 \in V /\ p2 \in V /\ p3 \in V /\ p4 \in V /\ p5 \in V /\ p6 \in V /\ p7 \in V
    BY <1>1, <1>2, <1>3, <1>4, <1>5, <1>6, <1>7
  <2> HIDE DEF V
  <2>2. phrase \in Seq(V)
    BY <2>1
  <2> QED
    BY <2>2 DEF V
<1>11. /\ S[0] = S0 /\ S[1] = S1 /\ S[2] = S2 /\ S[3] = S3
       /\ S[4] = S4 /\ S[5] = S5 /\ S[6] = S6 /\ S[7] = S0
  OBVIOUS
<1> HIDE DEF phrase, S
<1>12. Leads(phrase, S)
  <2>1. \A i \in 1 .. 7 : Forth(phrase[i], S[i - 1], S[i])
    <3> HIDE DEF Forth
    <3>1. \A i \in 1 .. 7 :
            \/ i = 1 /\ i - 1 = 0
            \/ i = 2 /\ i - 1 = 1
            \/ i = 3 /\ i - 1 = 2
            \/ i = 4 /\ i - 1 = 3
            \/ i = 5 /\ i - 1 = 4
            \/ i = 6 /\ i - 1 = 5
            \/ i = 7 /\ i - 1 = 6
      OBVIOUS
    <3> QED
      BY <1>1, <1>2, <1>3, <1>4, <1>5, <1>6, <1>7, <1>10, <1>11, <3>1
  <2> QED
    BY <1>10, <2>1 DEF Leads
<1> QED
  BY <1>8, <1>9, <1>10, <1>11, <1>12, BeginsWalks

LEMMA SelectPhraseWalks ==
  ASSUME NEW ts \in Seq(Readable), Begins(ts, SelectPhrase)
  PROVE  \E s2 : Walk(ts, Start, s2)
<1> DEFINE p1 == One(Spelled("SELECT"))
           p2 == SelectLists
           p3 == One(Spelled("FROM"))
           p4 == Targets
           p5 == {<<SemicolonMark>>}
           lists == {<<>>} \cup {Texts(names) : names \in UNION {NameLists(n) : n \in 1 .. MaxList}}
           S0 == {Start}
           S1 == {At("selected", "SELECT", <<>>, 0)}
           S2 == {At(here, "SELECT", cols, 0) : here \in {"from", "nameNext"}, cols \in lists}
           S3 == {At("table", "SELECT", cols, 0) : cols \in lists}
           S4 == {At(here, "SELECT", cols, 0) : here \in {"dot", "end"}, cols \in lists}
           Whole(Q) == Q \in SUBSET Seq(Readable)
           Forth(Q, A, B) == \A f \in Q, s \in A : \E s2 \in B : Walk(f, s, s2)
<1>1. Whole(p1) /\ Forth(p1, S0, S1)
  <2>1. \A f \in p1 : Walk(f, Start, At("selected", "SELECT", <<>>, 0)) /\ f \in Seq(Readable)
    BY StartMoves, KeywordWalks
  <2> HIDE DEF p1
  <2> QED
    BY <2>1
<1>2. Whole(p2) /\ Forth(p2, S1, S2)
  <2>1. ASSUME NEW f \in p2
        PROVE  f \in Seq(Readable) /\ \E s2 \in S2 : Walk(f, At("selected", "SELECT", <<>>, 0), s2)
    <3>1. CASE f = <<Mark("*")>>
      <4>1. At("from", "SELECT", <<>>, 0) \in S2
        OBVIOUS
      <4>2. Walk(f, At("selected", "SELECT", <<>>, 0), At("from", "SELECT", <<>>, 0))
        BY <3>1, MarkMoves, WalkOne
      <4>3. f \in Seq(Readable)
        BY <3>1, ReadableAre, SmallSeqs
      <4> HIDE DEF S2
      <4> QED
        BY <4>1, <4>2, <4>3
    <3>2. CASE f # <<Mark("*")>>
      <4>1. PICK n \in 1 .. MaxList : \E names \in NameLists(n) : f = List(names)
        BY <3>2 DEF SelectLists
      <4>2. PICK names \in NameLists(n) : f = List(names)
        BY <4>1
      <4>3. n \in Nat \ {0}
        OBVIOUS
      <4>4. At("nameNext", "SELECT", Texts(names), 0) \in S2
        OBVIOUS
      <4>5. /\ Walk(f, At("selected", "SELECT", <<>>, 0), At("nameNext", "SELECT", Texts(names), 0))
            /\ f \in Seq(Readable)
        BY <4>2, <4>3, NamesWalk
      <4> HIDE DEF S2
      <4> QED
        BY <4>4, <4>5
    <3> QED
      BY <3>1, <3>2
  <2> HIDE DEF p2, S2
  <2> QED
    BY <2>1
<1>3. Whole(p3) /\ Forth(p3, S2, S3)
  <2>1. ASSUME NEW s \in S2
        PROVE  \E s2 \in S3 : \A t : t.kind = "word" /\ t.text \in Spelling["FROM"] => Goes(s, t, s2)
    <3>1. PICK here \in {"from", "nameNext"}, cols \in lists : s = At(here, "SELECT", cols, 0)
      OBVIOUS
    <3>2. At("table", "SELECT", cols, 0) \in S3
      OBVIOUS
    <3>3. \A t : t.kind = "word" /\ t.text \in Spelling["FROM"] =>
            Goes(s, t, At("table", "SELECT", cols, 0))
      BY <3>1, WordMoves
    <3> HIDE DEF S3
    <3> QED
      BY <3>2, <3>3
  <2> HIDE DEF S2, S3
  <2>2. \A s \in S2 : \E s2 \in S3 : \A f \in p3 : Walk(f, s, s2) /\ f \in Seq(Readable)
    BY <2>1, KeywordWalks
  <2>3. \A f \in p3 : f \in Seq(Readable)
    <3>1. \A t \in Spelled("FROM") : t \in Readable
      BY ReadableAre DEF Spelled
    <3> QED
      BY <3>1, SmallSeqs DEF One
  <2> HIDE DEF p3
  <2> QED
    BY <2>2, <2>3
<1>4. Whole(p4) /\ Forth(p4, S3, S4)
  <2>1. ASSUME NEW f \in p4
        PROVE  f \in Seq(Readable) /\ \A s \in S3 : \E s2 \in S4 : Walk(f, s, s2)
    <3>1. f \in Seq(Readable)
      BY TargetWalks
    <3>2. ASSUME NEW s \in S3
          PROVE  \E s2 \in S4 : Walk(f, s, s2)
      <4>1. PICK cols \in lists : s = At("table", "SELECT", cols, 0)
        OBVIOUS
      <4>2. At("dot", "SELECT", cols, 0) \in S4 /\ At("end", "SELECT", cols, 0) \in S4
        OBVIOUS
      <4>3. \E s2 \in {At("dot", "SELECT", cols, 0), At("end", "SELECT", cols, 0)} : Walk(f, s, s2)
        BY <4>1, TargetWalks
      <4> HIDE DEF S4
      <4> QED
        BY <4>2, <4>3
    <3> QED
      BY <3>1, <3>2
  <2> HIDE DEF p4, S3, S4
  <2> QED
    BY <2>1
<1>5. Whole(p5) /\ Forth(p5, S4, S0)
  <2>1. <<SemicolonMark>> \in Seq(Readable)
    BY ReadableAre, SmallSeqs
  <2>2. ASSUME NEW s \in S4
        PROVE  Walk(<<SemicolonMark>>, s, Start)
    <3>1. PICK here \in {"dot", "end"}, cols \in lists : s = At(here, "SELECT", cols, 0)
      OBVIOUS
    <3>2. Goes(s, SemicolonMark, Start)
      BY <3>1, MarkMoves
    <3> QED
      BY <3>2, WalkOne
  <2> HIDE DEF S4
  <2> QED
    BY <2>1, <2>2
<1> DEFINE phrase == <<p1, p2, p3, p4, p5>>
           S == [i \in 0 .. 5 |-> CASE i = 0 -> S0 [] i = 1 -> S1 [] i = 2 -> S2 [] i = 3 -> S3
                                    [] i = 4 -> S4 [] i = 5 -> S0]
<1>6. SelectPhrase = phrase
  BY DEF SelectPhrase, SemicolonMark
<1>7. Start \in S0
  OBVIOUS
<1> HIDE DEF p1, p2, p3, p4, p5, S0, S1, S2, S3, S4
<1>8. phrase \in Seq(SUBSET Seq(Readable)) /\ Len(phrase) = 5
      /\ phrase[1] = p1 /\ phrase[2] = p2 /\ phrase[3] = p3 /\ phrase[4] = p4 /\ phrase[5] = p5
  <2> DEFINE V == SUBSET Seq(Readable)
  <2>1. p1 \in V /\ p2 \in V /\ p3 \in V /\ p4 \in V /\ p5 \in V
    BY <1>1, <1>2, <1>3, <1>4, <1>5
  <2> HIDE DEF V
  <2>2. phrase \in Seq(V)
    BY <2>1
  <2> QED
    BY <2>2 DEF V
<1>9. S[0] = S0 /\ S[1] = S1 /\ S[2] = S2 /\ S[3] = S3 /\ S[4] = S4 /\ S[5] = S0
  OBVIOUS
<1> HIDE DEF phrase, S
<1>10. Leads(phrase, S)
  <2>1. \A i \in 1 .. 5 : Forth(phrase[i], S[i - 1], S[i])
    <3> HIDE DEF Forth
    <3>1. \A i \in 1 .. 5 :
            \/ i = 1 /\ i - 1 = 0
            \/ i = 2 /\ i - 1 = 1
            \/ i = 3 /\ i - 1 = 2
            \/ i = 4 /\ i - 1 = 3
            \/ i = 5 /\ i - 1 = 4
      OBVIOUS
    <3> QED
      BY <1>1, <1>2, <1>3, <1>4, <1>5, <1>8, <1>9, <3>1
  <2> QED
    BY <1>8, <2>1 DEF Leads
<1> QED
  BY <1>6, <1>7, <1>8, <1>9, <1>10, BeginsWalks

LEMMA SentencesWalk ==
  ASSUME NEW phrase \in Phrases, NEW ts \in Seq(Readable), Begins(ts, phrase)
  PROVE  \E s2 : Walk(ts, Start, s2)
<1>1. CASE phrase = SelectPhrase
  BY <1>1, SelectPhraseWalks
<1>2. CASE phrase # SelectPhrase
  <2>1. PICK n \in 1 .. MaxList : phrase \in {InsertPhrase(n, {<<>>}), InsertPhrase(n, ColumnLists(n))}
    BY <1>2 DEF Phrases
  <2>2. n \in Nat \ {0}
    OBVIOUS
  <2>3. PICK columns \in {{<<>>}, ColumnLists(n)} : phrase = InsertPhrase(n, columns)
    BY <2>1
  <2> QED
    BY <2>2, <2>3, InsertPhraseWalks
<1> QED
  BY <1>1, <1>2

----------------------------------------------------------------------------
(***************************************************************************)
(* The tokens of the statement that is being parsed: those behind the last *)
(* semicolon.                                                              *)
(***************************************************************************)
CurrentOf(sn) ==
  LET ends == {i \in DOMAIN sn : sn[i] = Mark(";")} \cup {0}
  IN  SubSeq(sn, Max(ends) + 1, Len(sn))

LastEnd(sn, e) ==
  /\ e \in 0 .. Len(sn)
  /\ e = 0 \/ sn[e] = SemicolonMark
  /\ \A i \in (e + 1) .. Len(sn) : sn[i] # SemicolonMark

LEMMA CurrentIs ==
  ASSUME NEW X, NEW sn \in Seq(X), NEW e, LastEnd(sn, e)
  PROVE  CurrentOf(sn) = SubSeq(sn, e + 1, Len(sn))
<1> DEFINE ends == {i \in DOMAIN sn : sn[i] = SemicolonMark} \cup {0}
<1>1. Len(sn) \in Nat /\ DOMAIN sn = 1 .. Len(sn) /\ e \in Nat /\ ends \subseteq Nat
  BY LenProperties DEF LastEnd
<1>2. e \in ends
  BY <1>1 DEF LastEnd
<1>3. \A j \in ends : e >= j
  <2> SUFFICES ASSUME NEW j \in ends, j > e PROVE FALSE
    BY <1>1
  <2>1. j \in (e + 1) .. Len(sn) /\ sn[j] = SemicolonMark
    BY <1>1
  <2> QED
    BY <2>1 DEF LastEnd
<1>4. Max(ends) = CHOOSE m \in ends : \A j \in ends : m >= j
  BY DEF Max
<1>5. CurrentOf(sn) = SubSeq(sn, Max(ends) + 1, Len(sn))
  BY DEF CurrentOf, SemicolonMark
<1> HIDE DEF ends
<1>6. Max(ends) \in ends /\ \A j \in ends : Max(ends) >= j
  BY <1>2, <1>3, <1>4
<1>7. Max(ends) = e
  <2>1. Max(ends) \in Nat /\ Max(ends) >= e /\ e >= Max(ends)
    BY <1>1, <1>2, <1>3, <1>6
  <2> QED
    BY <1>1, <2>1
<1> QED
  BY <1>5, <1>7

LEMMA LastEndGrows ==
  ASSUME NEW X, NEW sn \in Seq(X), NEW t \in X, NEW e, LastEnd(sn, e)
  PROVE  LastEnd(Append(sn, t), IF t = SemicolonMark THEN Len(sn) + 1 ELSE e)
<1> DEFINE more == Append(sn, t)
           n == Len(sn)
<1>1. /\ n \in Nat /\ Len(more) = n + 1 /\ more[n + 1] = t
      /\ \A i \in 1 .. n : more[i] = sn[i]
  BY AppendProperties
<1>2. e \in 0 .. n
  BY DEF LastEnd
<1> HIDE DEF more
<1>3. CASE t = SemicolonMark
  BY <1>1, <1>3 DEF LastEnd, more
<1>4. CASE t # SemicolonMark
  <2>1. e = 0 \/ more[e] = SemicolonMark
    <3>1. e = 0 \/ (e \in 1 .. n /\ sn[e] = SemicolonMark)
      BY <1>1, <1>2 DEF LastEnd
    <3> QED
      BY <1>1, <3>1
  <2>2. ASSUME NEW i \in (e + 1) .. (n + 1)
        PROVE  more[i] # SemicolonMark
    <3>1. CASE i = n + 1
      BY <1>1, <1>4, <3>1
    <3>2. CASE i # n + 1
      <4>1. i \in 1 .. n /\ i \in (e + 1) .. n
        BY <1>1, <1>2, <3>2
      <4>2. sn[i] # SemicolonMark
        BY <4>1 DEF LastEnd
      <4> QED
        BY <1>1, <4>1, <4>2
    <3> QED
      BY <3>1, <3>2
  <2>3. e \in 0 .. (n + 1)
    BY <1>1, <1>2
  <2>4. LastEnd(more, e)
    BY <1>1, <2>1, <2>2, <2>3 DEF LastEnd
  <2> QED
    BY <1>4, <2>4 DEF more
<1> QED
  BY <1>3, <1>4

LEMMA LastEndExists ==
  ASSUME NEW X
  PROVE  \A sn \in Seq(X) : \E e : LastEnd(sn, e)
<1> DEFINE P == {sn \in Seq(X) : \E e : LastEnd(sn, e)}
<1>1. <<>> \in P
  <2>1. <<>> \in Seq(X) /\ Len(<<>>) = 0 /\ 0 \in 0 .. 0 /\ (0 + 1) .. 0 = {}
    OBVIOUS
  <2>2. LastEnd(<<>>, 0)
    BY <2>1 DEF LastEnd
  <2> QED
    BY <2>1, <2>2
<1>2. ASSUME NEW sn \in Seq(X), NEW t \in X, sn \in P
      PROVE  Append(sn, t) \in P
  <2>1. Append(sn, t) \in Seq(X)
    BY AppendProperties
  <2>2. PICK e : LastEnd(sn, e)
    BY <1>2
  <2>3. \E d : LastEnd(Append(sn, t), d)
    BY <2>2, LastEndGrows
  <2> QED
    BY <2>1, <2>3
<1>3. \A sn \in Seq(X) : sn \in P
  <2> HIDE DEF P
  <2> QED
    BY <1>1, <1>2, LongerAndLonger
<1> QED
  BY <1>3

\* It begins with nothing, grows token by token, and ends with its semicolon.
LEMMA CurrentSteps ==
  ASSUME NEW X
  PROVE  /\ CurrentOf(<<>>) = <<>>
         /\ \A sn \in Seq(X) : CurrentOf(sn) \in Seq(X)
         /\ \A sn \in Seq(X), t \in X :
              CurrentOf(Append(sn, t)) = IF t = SemicolonMark THEN <<>> ELSE Append(CurrentOf(sn), t)
<1>1. ASSUME NEW sn \in Seq(X)
      PROVE  CurrentOf(sn) \in Seq(X)
  <2>1. PICK e : LastEnd(sn, e)
    BY LastEndExists
  <2>2. e \in 0 .. Len(sn) /\ Len(sn) \in Nat
    BY <2>1 DEF LastEnd
  <2>3. e + 1 \in Int /\ Len(sn) \in Int /\ \A i \in (e + 1) .. Len(sn) : sn[i] \in X
    BY <2>2, ElementOfSeq
  <2>4. SubSeq(sn, e + 1, Len(sn)) \in Seq(X)
    BY <2>3, SubSeqProperties
  <2> QED
    BY <2>1, <2>4, CurrentIs
<1>2. CurrentOf(<<>>) = <<>>
  <2>1. <<>> \in Seq(X) /\ Len(<<>>) = 0
    OBVIOUS
  <2>2. PICK e : LastEnd(<<>>, e)
    BY <2>1, LastEndExists
  <2>3. e = 0
    BY <2>1, <2>2 DEF LastEnd
  <2>4. CurrentOf(<<>>) = SubSeq(<<>>, e + 1, Len(<<>>))
    BY <2>1, <2>2, CurrentIs
  <2>5. e + 1 \in Int /\ Len(<<>>) \in Int /\ Len(<<>>) < e + 1
    BY <2>1, <2>3
  <2>6. SubSeq(<<>>, e + 1, Len(<<>>)) = <<>>
    BY <2>5, SubSeqEmpty
  <2> QED
    BY <2>4, <2>6
<1>3. ASSUME NEW sn \in Seq(X), NEW t \in X
      PROVE  CurrentOf(Append(sn, t)) = IF t = SemicolonMark THEN <<>> ELSE Append(CurrentOf(sn), t)
  <2> DEFINE more == Append(sn, t)
             n == Len(sn)
  <2>1. /\ n \in Nat /\ Len(more) = n + 1 /\ more[n + 1] = t /\ more \in Seq(X)
        /\ \A i \in 1 .. n : more[i] = sn[i]
    BY AppendProperties
  <2>2. PICK e : LastEnd(sn, e)
    BY LastEndExists
  <2>3. e \in 0 .. n
    BY <2>2 DEF LastEnd
  <2>4. LastEnd(more, IF t = SemicolonMark THEN n + 1 ELSE e)
    BY <2>2, LastEndGrows
  <2> HIDE DEF more, n
  <2>5. CASE t = SemicolonMark
    <3>1. CurrentOf(more) = SubSeq(more, (n + 1) + 1, n + 1)
      BY <2>1, <2>4, <2>5, CurrentIs
    <3>2. SubSeq(more, (n + 1) + 1, n + 1) = <<>>
      <4>1. (n + 1) + 1 \in Int /\ n + 1 \in Int /\ n + 1 < (n + 1) + 1
        BY <2>1
      <4> QED
        BY <4>1, SubSeqEmpty
    <3> QED
      BY <2>5, <3>1, <3>2 DEF more
  <2>6. CASE t # SemicolonMark
    <3> DEFINE a == SubSeq(more, e + 1, n + 1)
               b == SubSeq(sn, e + 1, n)
               c == Append(b, t)
               m == n - e
    <3>1. m \in Nat /\ e \in Nat
      BY <2>1, <2>3
    <3>2. CurrentOf(more) = a /\ CurrentOf(sn) = b
      BY <2>1, <2>2, <2>4, <2>6, CurrentIs DEF n
    <3>3. a \in Seq(X) /\ Len(a) = m + 1 /\ \A i \in 1 .. (m + 1) : a[i] = more[e + i]
      <4>1. \A i \in (e + 1) .. (n + 1) : more[i] \in X
        BY <2>1, <3>1, ElementOfSeq
      <4>2. /\ e + 1 \in Int /\ n + 1 \in Int /\ e + 1 <= n + 1
            /\ (n + 1) - (e + 1) + 1 = m + 1 /\ \A i \in 1 .. (m + 1) : (e + 1) + i - 1 = e + i
        BY <2>1, <2>3
      <4> HIDE DEF a, m
      <4> QED
        BY <4>1, <4>2, SubSeqProperties DEF a
    <3>4. b \in Seq(X) /\ Len(b) = m /\ \A i \in 1 .. m : b[i] = sn[e + i]
      <4>1. \A i \in (e + 1) .. n : sn[i] \in X
        BY <2>1, <3>1, ElementOfSeq DEF n
      <4>2. /\ e + 1 \in Int /\ n \in Int /\ n - (e + 1) + 1 = m
            /\ (IF e + 1 <= n THEN n - (e + 1) + 1 ELSE 0) = m
            /\ \A i \in 1 .. m : (e + 1) + i - 1 = e + i
        BY <2>1, <2>3
      <4> HIDE DEF b, m
      <4> QED
        BY <4>1, <4>2, SubSeqProperties DEF b
    <3>5. /\ c \in Seq(X) /\ Len(c) = m + 1 /\ c[m + 1] = t /\ \A i \in 1 .. m : c[i] = b[i]
      BY <3>4, AppendProperties
    <3> HIDE DEF a, b, c
    <3>6. ASSUME NEW i \in 1 .. (m + 1)
          PROVE  a[i] = c[i]
      <4>1. CASE i = m + 1
        <5>1. e + i = n + 1
          BY <2>1, <3>1, <4>1
        <5> QED
          BY <2>1, <3>3, <3>5, <4>1, <5>1
      <4>2. CASE i # m + 1
        <5>1. i \in 1 .. m /\ e + i \in 1 .. n
          BY <2>1, <3>1, <4>2
        <5> QED
          BY <2>1, <3>3, <3>4, <3>5, <5>1
      <4> QED
        BY <4>1, <4>2
    <3>7. a = c
      BY <3>1, <3>3, <3>5, <3>6, SeqEqual
    <3> QED
      BY <2>6, <3>2, <3>7 DEF c, more
  <2> QED
    BY <2>5, <2>6
<1> QED
  BY <1>1, <1>2, <1>3

----------------------------------------------------------------------------
(***************************************************************************)
(* The parser follows the machine: the state its tokens lead to takes the  *)
(* same tokens as the one it stands for, with the same outcome.            *)
(***************************************************************************)
Here == At(place, stmt.kind, stmt.cols, Len(stmt.vals))

Same(s, s2, t) == (Can(s, t) <=> Can(s2, t)) /\ (Can(s, t) => Moved(s, t) = Moved(s2, t))

Walked ==
  /\ place = "unread" => seen = <<>>
  /\ place \notin {"unread", "parsed", "failed"} =>
       \E s : s.at \in Places /\ Walk(CurrentOf(seen), Start, s) /\ Same(s, Here, tok)
  /\ place = "failed" => \E s : Walk(CurrentOf(seen), Start, s) /\ ~Can(s, tok)

Midway == place \notin {"unread", "parsed", "failed"} /\ place \in Places

LEMMA HereIs ==
  /\ Here.at = place /\ Here.kind = stmt.kind /\ Here.cols = stmt.cols /\ Here.vals = Len(stmt.vals)
BY StateIs DEF Here

\* A token is taken.
LEMMA WalkTaken ==
  ASSUME InPlace, Walked, Midway, Midway', Consume, Can(Here, tok), Moved(Here, tok) = Here',
         tok \in Tokens, tok = SemicolonMark => Here' = Start
  PROVE  Walked'
<1>1. PICK s : s.at \in Places /\ Walk(CurrentOf(seen), Start, s) /\ Same(s, Here, tok)
  BY DEF Walked, Midway
<1>2. Goes(s, tok, Here')
  BY <1>1 DEF Goes, Same
<1>3. seen \in Seq(Tokens) /\ seen' = Append(seen, tok)
  BY DEF InPlace, ParserTypes, Consume
<1>4. /\ CurrentOf(seen) \in Seq(Tokens)
      /\ CurrentOf(seen') = IF tok = SemicolonMark THEN <<>> ELSE Append(CurrentOf(seen), tok)
  BY <1>3, CurrentSteps
<1>5. Walk(CurrentOf(seen'), Start, Here')
  <2>1. CASE tok = SemicolonMark
    BY <1>4, <2>1, WalkNothing
  <2>2. CASE tok # SemicolonMark
    <3>1. <<tok>> \in Seq(Tokens) /\ Walk(<<tok>>, s, Here')
      BY <1>2, WalkOne, SmallSeqs
    <3>2. Walk(CurrentOf(seen) \o <<tok>>, Start, Here')
      BY <1>1, <1>4, <3>1, WalkConcat
    <3>3. Append(CurrentOf(seen), tok) = CurrentOf(seen) \o <<tok>>
      BY <1>4, AppendIsConcat
    <3> QED
      BY <1>4, <2>2, <3>2, <3>3
  <2> QED
    BY <2>1, <2>2
<1>6. (Here').at \in Places
  <2>1. (Here').at = place'
    BY StateIs DEF Here
  <2> QED
    BY <2>1 DEF Midway
<1>7. Same(Here', Here', tok')
  BY DEF Same
<1>8. \E r : r.at \in Places /\ Walk(CurrentOf(seen'), Start, r) /\ Same(r, Here', tok')
  BY <1>5, <1>6, <1>7
<1> QED
  BY <1>8 DEF Walked, Midway

\* None is: the parser goes where the same token will do the same.
LEMMA WalkStays ==
  ASSUME InPlace, Walked, Midway, Midway', Stay, Same(Here, Here', tok)
  PROVE  Walked'
<1>1. PICK s : s.at \in Places /\ Walk(CurrentOf(seen), Start, s) /\ Same(s, Here, tok)
  BY DEF Walked, Midway
<1>2. Same(s, Here', tok)
  BY <1>1 DEF Same
<1>3. seen' = seen /\ tok' = tok
  BY DEF Stay
<1>4. \E r : r.at \in Places /\ Walk(CurrentOf(seen'), Start, r) /\ Same(r, Here', tok')
  BY <1>1, <1>2, <1>3
<1> QED
  BY <1>4 DEF Walked, Midway

\* It cannot be taken.
LEMMA WalkFails ==
  ASSUME Walked, Midway, Fail, ~Can(Here, tok)
  PROVE  Walked'
<1>1. PICK s : s.at \in Places /\ Walk(CurrentOf(seen), Start, s) /\ Same(s, Here, tok)
  BY DEF Walked, Midway
<1>2. ~Can(s, tok)
  BY <1>1 DEF Same
<1>3. place' = "failed" /\ seen' = seen /\ tok' = tok
  BY DEF Fail, GoTo
<1> QED
  BY <1>1, <1>2, <1>3 DEF Walked

\* With the same lists the machine only moves on.
LEMMA HereGoes ==
  ASSUME UNCHANGED stmt
  PROVE  Here' = Go(Here, place')
BY StateIs DEF Here, Go

LEMMA ExpectedWalks ==
  ASSUME InPlace, Walked, Into \/ From \/ Values \/ Open
  PROVE  Walked'
<1>1. Tokened
  BY DEF InPlace, ParserTypes, Tokened
<1>2. CASE Into
  <2>1. place = "into" /\ Midway
    BY <1>2 DEF Into, Expect, Midway, Places
  <2>2. CASE Is("INTO") /\ ~Fail
    <3>1. place' = "table" /\ UNCHANGED stmt /\ Consume /\ tok \in Tokens /\ Midway'
      BY <1>1, <1>2, <2>2, KeywordToken DEF Into, Expect, GoTo, Midway, Places
    <3>2. Can(Here, tok)
      BY <2>1, <2>2, HereIs, PlaceMoves DEF Is, Says
    <3>3. Moved(Here, tok) = Here'
      BY <2>1, <3>1, HereIs, HereGoes DEF Moved
    <3>4. tok # SemicolonMark
      BY <2>2, MarksDiffer DEF Is, SemicolonMark
    <3> QED
      BY <2>1, <3>1, <3>2, <3>3, <3>4, WalkTaken
  <2>3. CASE Fail /\ ~(Is("INTO"))
    <3>1. ~Can(Here, tok)
      BY <2>1, <2>3, HereIs, PlaceMoves DEF Is, Says
    <3> QED
      BY <2>1, <2>3, <3>1, WalkFails
  <2> QED
    BY <1>2, <2>2, <2>3 DEF Into, Expect, GoTo, Fail
<1>3. CASE From
  <2>1. place = "from" /\ Midway
    BY <1>3 DEF From, Expect, Midway, Places
  <2>2. CASE Is("FROM") /\ ~Fail
    <3>1. place' = "table" /\ UNCHANGED stmt /\ Consume /\ tok \in Tokens /\ Midway'
      BY <1>1, <1>3, <2>2, KeywordToken DEF From, Expect, GoTo, Midway, Places
    <3>2. Can(Here, tok)
      BY <2>1, <2>2, HereIs, PlaceMoves DEF Is, Says
    <3>3. Moved(Here, tok) = Here'
      BY <2>1, <3>1, HereIs, HereGoes DEF Moved
    <3>4. tok # SemicolonMark
      BY <2>2, MarksDiffer DEF Is, SemicolonMark
    <3> QED
      BY <2>1, <3>1, <3>2, <3>3, <3>4, WalkTaken
  <2>3. CASE Fail /\ ~(Is("FROM"))
    <3>1. ~Can(Here, tok)
      BY <2>1, <2>3, HereIs, PlaceMoves DEF Is, Says
    <3> QED
      BY <2>1, <2>3, <3>1, WalkFails
  <2> QED
    BY <1>3, <2>2, <2>3 DEF From, Expect, GoTo, Fail
<1>4. CASE Values
  <2>1. place = "values" /\ Midway
    BY <1>4 DEF Values, Expect, Midway, Places
  <2>2. CASE Is("VALUES") /\ ~Fail
    <3>1. place' = "open" /\ UNCHANGED stmt /\ Consume /\ tok \in Tokens /\ Midway'
      BY <1>1, <1>4, <2>2, KeywordToken DEF Values, Expect, GoTo, Midway, Places
    <3>2. Can(Here, tok)
      BY <2>1, <2>2, HereIs, PlaceMoves DEF Is, Says
    <3>3. Moved(Here, tok) = Here'
      BY <2>1, <3>1, HereIs, HereGoes DEF Moved
    <3>4. tok # SemicolonMark
      BY <2>2, MarksDiffer DEF Is, SemicolonMark
    <3> QED
      BY <2>1, <3>1, <3>2, <3>3, <3>4, WalkTaken
  <2>3. CASE Fail /\ ~(Is("VALUES"))
    <3>1. ~Can(Here, tok)
      BY <2>1, <2>3, HereIs, PlaceMoves DEF Is, Says
    <3> QED
      BY <2>1, <2>3, <3>1, WalkFails
  <2> QED
    BY <1>4, <2>2, <2>3 DEF Values, Expect, GoTo, Fail
<1>5. CASE Open
  <2>1. place = "open" /\ Midway
    BY <1>5 DEF Open, Expect, Midway, Places
  <2>2. CASE tok = Mark("(") /\ ~Fail
    <3>1. place' = "value" /\ UNCHANGED stmt /\ Consume /\ tok \in Tokens /\ Midway'
      BY <1>1, <1>5, <2>2, MarkToken DEF Open, Expect, GoTo, Midway, Places
    <3>2. Can(Here, tok)
      BY <2>1, <2>2, HereIs, PlaceMoves DEF Is, Says
    <3>3. Moved(Here, tok) = Here'
      BY <2>1, <3>1, HereIs, HereGoes DEF Moved
    <3>4. tok # SemicolonMark
      BY <2>2, MarksDiffer DEF Is, SemicolonMark
    <3> QED
      BY <2>1, <3>1, <3>2, <3>3, <3>4, WalkTaken
  <2>3. CASE Fail /\ ~(tok = Mark("("))
    <3>1. ~Can(Here, tok)
      BY <2>1, <2>3, HereIs, PlaceMoves DEF Is, Says
    <3> QED
      BY <2>1, <2>3, <3>1, WalkFails
  <2> QED
    BY <1>5, <2>2, <2>3 DEF Open, Expect, GoTo, Fail
<1> QED
  BY <1>2, <1>3, <1>4, <1>5

LEMMA GoingOnWalks ==
  ASSUME InPlace, Walked, ParseColumnNext \/ ParseValueNext
  PROVE  Walked'
<1>1. Tokened
  BY DEF InPlace, ParserTypes, Tokened
<1>2. CASE ParseColumnNext
  <2>1. place = "columnNext" /\ Midway
    BY <1>2 DEF ParseColumnNext, ParseNext, Midway, Places
  <2>2. CASE tok \in {Mark(","), Mark(")")}
    <3>1. place' = (IF tok = Mark(",") THEN "column" ELSE "values") /\ UNCHANGED stmt /\ Consume
      BY <1>2, <2>2, MarksDiffer DEF ParseColumnNext, ParseNext, GoTo
    <3>2. tok \in Tokens /\ tok # SemicolonMark
      BY <1>1, <2>2, MarkToken, MarksDiffer DEF SemicolonMark
    <3>3. Midway'
      BY <3>1 DEF Midway, Places
    <3>4. Can(Here, tok)
      BY <2>1, <2>2, HereIs, PlaceMoves
    <3>5. Moved(Here, tok) = Here'
      BY <2>1, <3>1, HereIs, HereGoes DEF Moved
    <3> QED
      BY <2>1, <3>1, <3>2, <3>3, <3>4, <3>5, WalkTaken
  <2>3. CASE tok \notin {Mark(","), Mark(")")}
    <3>1. ~Can(Here, tok)
      BY <2>1, <2>3, HereIs, PlaceMoves
    <3>2. Fail
      BY <1>2, <2>3 DEF ParseColumnNext, ParseNext
    <3> QED
      BY <2>1, <3>1, <3>2, WalkFails
  <2> QED
    BY <2>2, <2>3
<1>3. CASE ParseValueNext
  <2>1. place = "valueNext" /\ Midway
    BY <1>3 DEF ParseValueNext, ParseNext, Midway, Places
  <2>2. CASE tok \in {Mark(","), Mark(")")}
    <3>1. place' = (IF tok = Mark(",") THEN "value" ELSE "counted") /\ UNCHANGED stmt /\ Consume
      BY <1>3, <2>2, MarksDiffer DEF ParseValueNext, ParseNext, GoTo
    <3>2. tok \in Tokens /\ tok # SemicolonMark
      BY <1>1, <2>2, MarkToken, MarksDiffer DEF SemicolonMark
    <3>3. Midway'
      BY <3>1 DEF Midway, Places
    <3>4. Can(Here, tok)
      BY <2>1, <2>2, HereIs, PlaceMoves
    <3>5. Moved(Here, tok) = Here'
      BY <2>1, <3>1, HereIs, HereGoes DEF Moved
    <3> QED
      BY <2>1, <3>1, <3>2, <3>3, <3>4, <3>5, WalkTaken
  <2>3. CASE tok \notin {Mark(","), Mark(")")}
    <3>1. ~Can(Here, tok)
      BY <2>1, <2>3, HereIs, PlaceMoves
    <3>2. Fail
      BY <1>3, <2>3 DEF ParseValueNext, ParseNext
    <3> QED
      BY <2>1, <3>1, <3>2, WalkFails
  <2> QED
    BY <2>2, <2>3
<1> QED
  BY <1>2, <1>3

LEMMA NameWalks ==
  ASSUME InPlace, Walked, ParseColumn \/ ParseSelectName
  PROVE  Walked'
<1>1. Tokened /\ stmt \in ParsedStatement
  BY DEF InPlace, ParserTypes, Tokened
<1>2. CASE ParseColumn
  <2>1. place = "column" /\ Midway
    BY <1>2 DEF ParseColumn, ParseName, Midway, Places
  <2>2. CASE NewName
    <3>1. /\ place' = "columnNext" /\ stmt' = [stmt EXCEPT !.cols = Append(@, tok.text)] /\ Consume /\ Midway'
      BY <1>2, <2>2 DEF ParseColumn, ParseName, GoTo, Midway, Places
    <3>2. tok \in Tokens /\ tok # SemicolonMark
      BY <1>1, <2>2, IdentifierToken, MarksDiffer DEF NewName, IsIdentifier, SemicolonMark
    <3>3. stmt'.kind = stmt.kind /\ stmt'.cols = Append(stmt.cols, tok.text) /\ stmt'.vals = stmt.vals
      BY <1>1, <3>1 DEF ParsedStatement
    <3>4. Can(Here, tok)
      BY <2>1, <2>2, HereIs, PlaceMoves DEF NewFor, NewName, IsIdentifier
    <3>5. Here' = At("columnNext", stmt.kind, Append(stmt.cols, tok.text), Len(stmt.vals))
      BY <3>1, <3>3 DEF Here
    <3>6. Moved(Here, tok) = Here'
      BY <2>1, <3>5, HereIs DEF Moved
    <3> QED
      BY <2>1, <3>1, <3>2, <3>4, <3>6, WalkTaken
  <2>3. CASE ~NewName
    <3>1. ~Can(Here, tok)
      BY <2>1, <2>3, HereIs, PlaceMoves DEF NewFor, NewName, IsIdentifier
    <3>2. Fail
      BY <1>2, <2>3 DEF ParseColumn, ParseName
    <3> QED
      BY <2>1, <3>1, <3>2, WalkFails
  <2> QED
    BY <2>2, <2>3
<1>3. CASE ParseSelectName
  <2>1. place = "name" /\ Midway
    BY <1>3 DEF ParseSelectName, ParseName, Midway, Places
  <2>2. CASE NewName
    <3>1. /\ place' = "nameNext" /\ stmt' = [stmt EXCEPT !.cols = Append(@, tok.text)] /\ Consume /\ Midway'
      BY <1>3, <2>2 DEF ParseSelectName, ParseName, GoTo, Midway, Places
    <3>2. tok \in Tokens /\ tok # SemicolonMark
      BY <1>1, <2>2, IdentifierToken, MarksDiffer DEF NewName, IsIdentifier, SemicolonMark
    <3>3. stmt'.kind = stmt.kind /\ stmt'.cols = Append(stmt.cols, tok.text) /\ stmt'.vals = stmt.vals
      BY <1>1, <3>1 DEF ParsedStatement
    <3>4. Can(Here, tok)
      BY <2>1, <2>2, HereIs, PlaceMoves DEF NewFor, NewName, IsIdentifier
    <3>5. Here' = At("nameNext", stmt.kind, Append(stmt.cols, tok.text), Len(stmt.vals))
      BY <3>1, <3>3 DEF Here
    <3>6. Moved(Here, tok) = Here'
      BY <2>1, <3>5, HereIs DEF Moved
    <3> QED
      BY <2>1, <3>1, <3>2, <3>4, <3>6, WalkTaken
  <2>3. CASE ~NewName
    <3>1. ~Can(Here, tok)
      BY <2>1, <2>3, HereIs, PlaceMoves DEF NewFor, NewName, IsIdentifier
    <3>2. Fail
      BY <1>3, <2>3 DEF ParseSelectName, ParseName
    <3> QED
      BY <2>1, <3>1, <3>2, WalkFails
  <2> QED
    BY <2>2, <2>3
<1> QED
  BY <1>2, <1>3

LEMMA StatementWalks ==
  ASSUME InPlace, Walked, ParseStatement
  PROVE  Walked'
<1>1. Tokened
  BY DEF InPlace, ParserTypes, Tokened
<1>2. place = "statement" /\ Midway /\ stmt = NoStatement
  BY DEF ParseStatement, Midway, Places, InPlace, KindInPlace
<1>3. Here = Start
  <2>1. stmt.kind = "none" /\ stmt.cols = <<>> /\ Len(stmt.vals) = 0
    BY <1>2 DEF NoStatement
  <2> QED
    BY <1>2, <2>1 DEF Here, Start
<1>4. ASSUME NEW kind \in {"INSERT", "SELECT"}, Is(kind), Consume,
             place' = (IF kind = "INSERT" THEN "into" ELSE "selected"),
             stmt' = [NoStatement EXCEPT !.kind = kind]
      PROVE  Walked'
  <2>1. tok \in Tokens /\ tok # SemicolonMark /\ Midway'
    BY <1>1, <1>4, KeywordToken, MarksDiffer DEF Is, SemicolonMark, Midway, Places
  <2>2. stmt'.kind = kind /\ stmt'.cols = <<>> /\ Len(stmt'.vals) = 0
    BY <1>4 DEF NoStatement
  <2>3. Here' = At(IF kind = "INSERT" THEN "into" ELSE "selected", kind, <<>>, 0)
    BY <1>4, <2>2 DEF Here
  <2>4. Goes(Start, tok, Here')
    <3>1. tok.kind = "word" /\ tok.text \in Spelling[kind]
      BY <1>4 DEF Is
    <3>2. CASE kind = "INSERT"
      BY <2>3, <3>1, <3>2, StartMoves
    <3>3. CASE kind = "SELECT"
      BY <2>3, <3>1, <3>3, StartMoves
    <3> QED
      BY <3>2, <3>3
  <2>5. Can(Here, tok) /\ Moved(Here, tok) = Here'
    BY <1>3, <2>4 DEF Goes
  <2> QED
    BY <1>2, <1>4, <2>1, <2>5, WalkTaken
<1>5. CASE place' = "parsed"
  BY <1>5 DEF Walked
<1>6. CASE ~Is("INSERT") /\ ~Is("SELECT") /\ Fail
  <2>1. ~Can(Here, tok)
    BY <1>2, <1>6, HereIs, PlaceMoves DEF Is, Says
  <2> QED
    BY <1>2, <1>6, <2>1, WalkFails
<1> QED
  BY <1>4, <1>5, <1>6 DEF ParseStatement, GoTo

LEMMA TableWalks ==
  ASSUME InPlace, Walked, ParseTable \/ ParseMember
  PROVE  Walked'
<1>1. Tokened /\ stmt \in ParsedStatement
  BY DEF InPlace, ParserTypes, Tokened
<1>2. place \in {"table", "member"} /\ Midway /\ (IsIdentifier \/ Fail)
  BY DEF ParseTable, ParseMember, Midway, Places
<1>3. CASE IsIdentifier
  <2>1. /\ place' = (IF place = "table" THEN "dot" ELSE AfterName) /\ Consume
        /\ \/ stmt' = [stmt EXCEPT !.table = tok.text]
           \/ stmt' = [stmt EXCEPT !.schema = stmt.table, !.table = tok.text]
    BY <1>3 DEF ParseTable, ParseMember, GoTo
  <2>2. tok \in Tokens /\ tok # SemicolonMark /\ tok.kind = "word"
    BY <1>1, <1>3, IdentifierToken, MarksDiffer DEF IsIdentifier, SemicolonMark
  <2>3. stmt'.kind = stmt.kind /\ stmt'.cols = stmt.cols /\ stmt'.vals = stmt.vals
    BY <1>1, <2>1 DEF ParsedStatement
  <2>4. Midway'
    BY <2>1 DEF Midway, Places, AfterName
  <2>5. Here' = At(place', stmt.kind, stmt.cols, Len(stmt.vals))
    BY <2>3 DEF Here
  <2>6. Can(Here, tok)
    BY <1>2, <2>2, HereIs, PlaceMoves
  <2>7. Moved(Here, tok) = Here'
    <3>1. Here' = Go(Here, place')
      BY <2>5, HereIs DEF Go
    <3>2. CASE place = "table"
      BY <2>1, <3>1, <3>2, HereIs DEF Moved
    <3>3. CASE place = "member"
      <4>1. place' = IF stmt.kind = "INSERT" THEN "columns" ELSE "end"
        BY <2>1, <3>3 DEF AfterName
      <4> QED
        BY <3>1, <3>3, <4>1, HereIs DEF Moved
    <3> QED
      BY <1>2, <3>2, <3>3
  <2> QED
    BY <1>2, <2>1, <2>2, <2>4, <2>6, <2>7, WalkTaken
<1>4. CASE ~IsIdentifier
  <2>1. ~Can(Here, tok)
    BY <1>2, <1>4, HereIs, PlaceMoves DEF IsIdentifier
  <2> QED
    BY <1>2, <1>4, <2>1, WalkFails
<1> QED
  BY <1>3, <1>4

\* What is optional: a dot, a column list, another name.
LEMMA OptionWalks ==
  ASSUME InPlace, Walked, ParseDot \/ ParseColumnList \/ ParseSelectNext
  PROVE  Walked'
<1>1. Tokened
  BY DEF InPlace, ParserTypes, Tokened
<1>2. /\ Mark("(") # Mark(";") /\ Mark(".") # Mark(";") /\ Mark(",") # Mark(";")
      /\ \A a, keyword : ~Says(Mark(a), keyword)
  BY MarksDiffer
<1>3. CASE ParseDot
  <2>1. place = "dot" /\ Midway /\ stmt.kind \in {"INSERT", "SELECT"} /\ UNCHANGED stmt
    BY <1>3 DEF ParseDot, Midway, Places, InPlace, KindInPlace
  <2>2. CASE tok = Mark(".")
    <3>1. place' = "member" /\ Consume /\ tok \in Tokens /\ Midway'
      BY <1>1, <1>3, <2>2, MarkToken DEF ParseDot, GoTo, Midway, Places
    <3>2. Can(Here, tok)
      BY <2>1, <2>2, HereIs, PlaceMoves
    <3>3. Moved(Here, tok) = Here'
      BY <2>1, <2>2, <3>1, HereIs, HereGoes DEF Moved
    <3> QED
      BY <1>2, <2>1, <2>2, <3>1, <3>2, <3>3, WalkTaken DEF SemicolonMark
  <2>3. CASE tok # Mark(".")
    <3>1. place' = AfterName /\ Stay /\ Midway'
      BY <1>3, <2>3 DEF ParseDot, GoTo, Midway, Places, AfterName
    <3> DEFINE s == Here
               s2 == Go(Here, place')
    <3>2. s2 = Here'
      BY <2>1, HereGoes
    <3>3. s.at = "dot" /\ s.kind = stmt.kind
      BY <2>1, HereIs
    <3>4. s2.at = place' /\ s2.kind = s.kind /\ s2.cols = s.cols /\ s2.vals = s.vals
      BY StateIs DEF Go
    <3>5. \A there : Go(s2, there) = Go(s, there)
      BY <3>4 DEF Go
    <3> HIDE DEF s, s2
    <3>6. CASE stmt.kind = "INSERT"
      <4>1. s2.at = "columns"
        BY <3>1, <3>4, <3>6 DEF AfterName
      <4>2. Can(s, tok) <=> tok = Mark("(") \/ Says(tok, "VALUES")
        BY <2>3, <3>3, <3>6 DEF Can
      <4>3. Can(s2, tok) <=> tok = Mark("(") \/ Says(tok, "VALUES")
        BY <4>1, PlaceMoves
      <4>4. ASSUME Can(s, tok)
            PROVE  Moved(s, tok) = Moved(s2, tok)
        <5>1. tok # Mark(";")
          BY <1>2, <4>2, <4>4
        <5>2. Moved(s, tok) = IF tok = Mark("(") THEN Go(s, "column") ELSE Go(s, "open")
          BY <2>3, <3>3, <5>1 DEF Moved
        <5>3. Moved(s2, tok) = Go(s2, IF tok = Mark("(") THEN "column" ELSE "open")
          BY <4>1 DEF Moved
        <5> QED
          BY <3>5, <5>2, <5>3
      <4> QED
        BY <2>1, <3>1, <3>2, <4>2, <4>3, <4>4, WalkStays DEF Same, s
    <3>7. CASE stmt.kind = "SELECT"
      <4>1. s2.at = "end"
        BY <3>1, <3>4, <3>7 DEF AfterName
      <4>2. Can(s, tok) <=> tok = Mark(";")
        BY <2>3, <3>3, <3>7, PlaceMoves
      <4>3. Can(s2, tok) <=> tok = Mark(";")
        BY <4>1, PlaceMoves
      <4>4. ASSUME Can(s, tok)
            PROVE  Moved(s, tok) = Moved(s2, tok)
        BY <1>2, <2>3, <3>3, <4>1, <4>2, <4>4 DEF Moved
      <4> QED
        BY <2>1, <3>1, <3>2, <4>2, <4>3, <4>4, WalkStays DEF Same, s
    <3> QED
      BY <2>1, <3>6, <3>7
  <2> QED
    BY <2>2, <2>3
<1>4. CASE ParseColumnList
  <2>1. place = "columns" /\ Midway /\ UNCHANGED stmt
    BY <1>4 DEF ParseColumnList, Midway, Places
  <2>2. CASE tok = Mark("(")
    <3>1. place' = "column" /\ Consume /\ tok \in Tokens /\ Midway'
      BY <1>1, <1>4, <2>2, MarkToken DEF ParseColumnList, GoTo, Midway, Places
    <3>2. Can(Here, tok)
      BY <2>1, <2>2, HereIs, PlaceMoves
    <3>3. Moved(Here, tok) = Here'
      BY <2>1, <2>2, <3>1, HereIs, HereGoes DEF Moved
    <3> QED
      BY <1>2, <2>1, <2>2, <3>1, <3>2, <3>3, WalkTaken DEF SemicolonMark
  <2>3. CASE tok # Mark("(")
    <3>1. place' = "values" /\ Stay /\ Midway'
      BY <1>4, <2>3 DEF ParseColumnList, GoTo, Midway, Places
    <3> DEFINE s == Here
               s2 == Go(Here, place')
    <3>2. s2 = Here'
      BY <2>1, HereGoes
    <3>3. s.at = "columns"
      BY <2>1, HereIs
    <3>4. s2.at = "values" /\ s2.kind = s.kind /\ s2.cols = s.cols /\ s2.vals = s.vals
      BY <3>1, StateIs DEF Go
    <3>5. \A there : Go(s2, there) = Go(s, there)
      BY <3>4 DEF Go
    <3> HIDE DEF s, s2
    <3>6. (Can(s, tok) <=> Says(tok, "VALUES")) /\ (Can(s2, tok) <=> Says(tok, "VALUES"))
      BY <2>3, <3>3, <3>4, PlaceMoves
    <3>7. Moved(s, tok) = Go(s, "open") /\ Moved(s2, tok) = Go(s2, "open")
      BY <2>3, <3>3, <3>4 DEF Moved
    <3> QED
      BY <2>1, <3>1, <3>2, <3>5, <3>6, <3>7, WalkStays DEF Same, s
  <2> QED
    BY <2>2, <2>3
<1>5. CASE ParseSelectNext
  <2>1. place = "nameNext" /\ Midway /\ UNCHANGED stmt
    BY <1>5 DEF ParseSelectNext, Midway, Places
  <2>2. CASE tok = Mark(",")
    <3>1. place' = "name" /\ Consume /\ tok \in Tokens /\ Midway'
      BY <1>1, <1>5, <2>2, MarkToken DEF ParseSelectNext, GoTo, Midway, Places
    <3>2. Can(Here, tok)
      BY <2>1, <2>2, HereIs, PlaceMoves
    <3>3. Moved(Here, tok) = Here'
      BY <2>1, <2>2, <3>1, HereIs, HereGoes DEF Moved
    <3> QED
      BY <1>2, <2>1, <2>2, <3>1, <3>2, <3>3, WalkTaken DEF SemicolonMark
  <2>3. CASE tok # Mark(",")
    <3>1. place' = "from" /\ Stay /\ Midway'
      BY <1>5, <2>3 DEF ParseSelectNext, GoTo, Midway, Places
    <3> DEFINE s == Here
               s2 == Go(Here, place')
    <3>2. s2 = Here'
      BY <2>1, HereGoes
    <3>3. s.at = "nameNext"
      BY <2>1, HereIs
    <3>4. s2.at = "from" /\ s2.kind = s.kind /\ s2.cols = s.cols /\ s2.vals = s.vals
      BY <3>1, StateIs DEF Go
    <3>5. \A there : Go(s2, there) = Go(s, there)
      BY <3>4 DEF Go
    <3> HIDE DEF s, s2
    <3>6. (Can(s, tok) <=> Says(tok, "FROM")) /\ (Can(s2, tok) <=> Says(tok, "FROM"))
      BY <2>3, <3>3, <3>4, PlaceMoves
    <3>7. Moved(s, tok) = Go(s, "table") /\ Moved(s2, tok) = Go(s2, "table")
      BY <2>3, <3>3, <3>4 DEF Moved
    <3> QED
      BY <2>1, <3>1, <3>2, <3>5, <3>6, <3>7, WalkStays DEF Same, s
  <2> QED
    BY <2>2, <2>3
<1> QED
  BY <1>3, <1>4, <1>5

LEMMA ValueWalks ==
  ASSUME InPlace, Walked, ParseValue
  PROVE  Walked'
<1>1. Tokened /\ stmt \in ParsedStatement
  BY DEF InPlace, ParserTypes, Tokened
<1>2. place = "value" /\ Midway
  BY DEF ParseValue, Midway, Places
<1>3. CASE IsValue(tok)
  <2>1. /\ place' = "valueNext" /\ stmt' = [stmt EXCEPT !.vals = Append(@, ValueOf(tok))]
        /\ Consume /\ Midway'
    BY <1>3 DEF ParseValue, GoTo, Midway, Places
  <2>2. tok \in Tokens /\ tok # SemicolonMark /\ ValueOf(tok) \in TokenValues
    BY <1>1, <1>3, ValueToken, MarksDiffer DEF IsValue, SemicolonMark
  <2>3. /\ stmt'.kind = stmt.kind /\ stmt'.cols = stmt.cols /\ stmt'.vals = Append(stmt.vals, ValueOf(tok))
        /\ stmt.vals \in Seq(TokenValues)
    BY <1>1, <2>1 DEF ParsedStatement
  <2>4. Len(stmt'.vals) = Len(stmt.vals) + 1
    BY <2>2, <2>3, AppendProperties
  <2>5. Here' = At("valueNext", stmt.kind, stmt.cols, Len(stmt.vals) + 1)
    BY <2>1, <2>3, <2>4 DEF Here
  <2>6. Can(Here, tok)
    BY <1>2, <1>3, HereIs, PlaceMoves
  <2>7. Moved(Here, tok) = Here'
    BY <1>2, <2>5, HereIs DEF Moved
  <2> QED
    BY <1>2, <2>1, <2>2, <2>6, <2>7, WalkTaken
<1>4. CASE ~IsValue(tok)
  <2>1. ~Can(Here, tok)
    BY <1>2, <1>4, HereIs, PlaceMoves
  <2>2. Fail
    BY <1>4 DEF ParseValue
  <2> QED
    BY <1>2, <2>1, <2>2, WalkFails
<1> QED
  BY <1>3, <1>4

LEMMA CountsWalk ==
  ASSUME InPlace, Walked, CheckCounts
  PROVE  Walked'
<1> DEFINE match == stmt.cols = <<>> \/ Len(stmt.vals) = Len(stmt.cols)
<1>1. place = "counted" /\ Midway
  BY DEF CheckCounts, Midway, Places
<1>2. Counted(Here) <=> match
  BY HereIs DEF Counted
<1>3. CASE match
  <2>1. place' = "end" /\ Stay /\ UNCHANGED stmt /\ Midway'
    <3>1. place' = "end" /\ Stay /\ UNCHANGED stmt
      BY <1>3 DEF CheckCounts, GoTo
    <3> QED
      BY <3>1 DEF Midway, Places
  <2> DEFINE s == Here
             s2 == Go(Here, place')
  <2>2. s2 = Here' /\ s.at = "counted" /\ s2.at = "end" /\ Counted(s)
    BY <1>1, <1>2, <1>3, <2>1, HereIs, HereGoes, StateIs DEF Go
  <2> HIDE DEF s, s2
  <2>3. (Can(s, tok) <=> tok = Mark(";")) /\ (Can(s2, tok) <=> tok = Mark(";"))
    BY <2>2, PlaceMoves
  <2>4. Moved(s, tok) = Start /\ Moved(s2, tok) = Start
    BY <2>2 DEF Moved
  <2> QED
    BY <1>1, <2>1, <2>2, <2>3, <2>4, WalkStays DEF Same, s
<1>4. CASE ~match
  <2>1. Fail
    BY <1>4 DEF CheckCounts
  <2> HIDE DEF match
  <2>2. ~Can(Here, tok)
    BY <1>1, <1>2, <1>4, HereIs, PlaceMoves
  <2> QED
    BY <1>1, <2>1, <2>2, WalkFails
<1> QED
  BY <1>3, <1>4

LEMMA SelectColumnsWalk ==
  ASSUME InPlace, Walked, ParseSelectColumns
  PROVE  Walked'
<1>1. Tokened /\ stmt \in ParsedStatement
  BY DEF InPlace, ParserTypes, Tokened
<1>2. place = "selected" /\ Midway
  BY DEF ParseSelectColumns, Midway, Places
<1>3. CASE tok = Mark("*")
  <2>1. place' = "from" /\ stmt' = [stmt EXCEPT !.all = TRUE] /\ Consume /\ Midway' /\ tok \in Tokens
    BY <1>1, <1>3, MarkToken DEF ParseSelectColumns, GoTo, Midway, Places
  <2>2. stmt'.kind = stmt.kind /\ stmt'.cols = stmt.cols /\ stmt'.vals = stmt.vals
    BY <1>1, <2>1 DEF ParsedStatement
  <2>3. Here' = Go(Here, "from")
    BY <2>1, <2>2, HereIs DEF Here, Go, At
  <2>4. Can(Here, tok)
    BY <1>2, <1>3, HereIs, PlaceMoves
  <2>5. Moved(Here, tok) = Here'
    BY <1>2, <1>3, <2>3, HereIs DEF Moved
  <2>6. tok # SemicolonMark
    BY <1>3, MarksDiffer DEF SemicolonMark
  <2> QED
    BY <1>2, <2>1, <2>4, <2>5, <2>6, WalkTaken
<1>4. CASE tok # Mark("*")
  <2>1. place' = "name" /\ Stay /\ UNCHANGED stmt /\ Midway'
    BY <1>4 DEF ParseSelectColumns, GoTo, Midway, Places
  <2> DEFINE s == Here
             s2 == Go(Here, place')
  <2>2. s2 = Here' /\ s.at = "selected"
    BY <1>2, <2>1, HereIs, HereGoes
  <2>3. s2.at = "name" /\ s2.kind = s.kind /\ s2.cols = s.cols /\ s2.vals = s.vals
    BY <2>1, StateIs DEF Go
  <2> HIDE DEF s, s2
  <2>4. NewFor(s, tok) <=> NewFor(s2, tok)
    BY <2>3 DEF NewFor
  <2>5. (Can(s, tok) <=> NewFor(s, tok)) /\ (Can(s2, tok) <=> NewFor(s2, tok))
    BY <1>4, <2>2, <2>3, PlaceMoves
  <2>6. Moved(s, tok) = Moved(s2, tok)
    BY <1>4, <2>2, <2>3 DEF Moved
  <2> QED
    BY <1>2, <2>1, <2>2, <2>4, <2>5, <2>6, WalkStays DEF Same, s
<1> QED
  BY <1>3, <1>4

LEMMA EndWalks ==
  ASSUME InPlace, Walked, EndStatement
  PROVE  Walked'
<1>1. Tokened
  BY DEF InPlace, ParserTypes, Tokened
<1>2. place = "end" /\ Midway
  BY DEF EndStatement, Midway, Places
<1>3. CASE tok = Mark(";")
  <2>1. place' = "statement" /\ stmt' = NoStatement /\ Consume /\ Midway' /\ tok \in Tokens
    BY <1>1, <1>3, MarkToken DEF EndStatement, GoTo, Midway, Places
  <2>2. stmt'.kind = "none" /\ stmt'.cols = <<>> /\ Len(stmt'.vals) = 0
    BY <2>1 DEF NoStatement
  <2>3. Here' = Start
    BY <2>1, <2>2 DEF Here, Start
  <2>4. Can(Here, tok)
    BY <1>2, <1>3, HereIs, PlaceMoves
  <2>5. Moved(Here, tok) = Here'
    BY <1>2, <2>3, HereIs DEF Moved
  <2> QED
    BY <1>2, <2>1, <2>3, <2>4, <2>5, WalkTaken
<1>4. CASE tok # Mark(";")
  <2>1. ~Can(Here, tok)
    BY <1>2, <1>4, HereIs, PlaceMoves
  <2>2. Fail
    BY <1>4 DEF EndStatement
  <2> QED
    BY <1>2, <2>1, <2>2, WalkFails
<1> QED
  BY <1>3, <1>4

LEMMA ParserWalks ==
  ASSUME InPlace, Walked, ParserNext
  PROVE  Walked'
  BY StatementWalks, ExpectedWalks, TableWalks, OptionWalks, GoingOnWalks, NameWalks, ValueWalks,
     CountsWalk, SelectColumnsWalk, EndWalks DEF ParserNext

LEMMA ProgramWalks ==
  ASSUME InPlace, Walked, [Next]_vars
  PROVE  Walked'
<1>1. CASE UNCHANGED pvars
  <2>1. place' = place /\ seen' = seen /\ tok' = tok /\ stmt' = stmt
    BY <1>1 DEF pvars
  <2>2. Here' = Here
    BY <2>1 DEF Here
  <2> QED
    BY <2>1, <2>2 DEF Walked
<1>2. CASE ReadEntireFile /\ ~UNCHANGED pvars
  <2>1. place = "unread" /\ place' = "statement" /\ UNCHANGED <<seen, stmt>>
    BY <1>2 DEF ReadEntireFile, GoTo
  <2>2. seen' = <<>> /\ stmt' = NoStatement
    BY <2>1 DEF Walked, InPlace, KindInPlace
  <2>3. stmt'.kind = "none" /\ stmt'.cols = <<>> /\ Len(stmt'.vals) = 0
    BY <2>2 DEF NoStatement
  <2>4. Here' = Start
    BY <2>1, <2>3 DEF Here, Start
  <2>5. CurrentOf(seen') = <<>>
    BY <2>2, CurrentSteps
  <2>6. Start.at \in Places
    BY StateIs DEF Start, Places
  <2>7. Walk(CurrentOf(seen'), Start, Start) /\ Same(Start, Here', tok')
    BY <2>4, <2>5, WalkNothing DEF Same
  <2>8. \E s : s.at \in Places /\ Walk(CurrentOf(seen'), Start, s) /\ Same(s, Here', tok')
    BY <2>6, <2>7
  <2> QED
    BY <2>1, <2>8 DEF Walked
<1>3. CASE Parse
  BY <1>3, ParserWalks DEF Parse
<1> QED
  BY <1>1, <1>2, <1>3 DEF Next, ReportParseError, Execute, Done, vars

LEMMA WalkingSound == Spec => [](InPlace /\ Walked)
<1>1. ProgramInit => Walked
  BY DEF ProgramInit, Walked
<1>2. InPlace /\ Walked /\ [Next]_vars => Walked'
  BY ProgramWalks
<1> QED
  BY <1>1, <1>2, ProgramSound, PTL DEF Spec

\* Whatever the tokens and the bounds, a file is refused only where no
\* statement could go on: no sentence begins with the tokens of the statement
\* and the one at fault (parse_statement_core and all it calls).
THEOREM NoSentenceIsRefused == Spec => []RefusesNoSentence
<1>1. ASSUME InPlace, Walked, place = "failed",
             NEW phrase \in Phrases, Begins(Append(Current, tok), phrase)
      PROVE  FALSE
  <2> DEFINE c == CurrentOf(seen)
             more == Append(c, tok)
  <2>1. Current = c
    BY DEF Current, CurrentOf
  <2>2. seen \in Seq(Readable) /\ tok \in Readable
    <3>1. seen \in Seq(Tokens) /\ tok \in Tokens \cup {End}
      BY <1>1 DEF InPlace, ParserTypes
    <3> QED
      BY <3>1, ReadableAre
  <2>3. c \in Seq(Readable)
    BY <2>2, CurrentSteps
  <2>4. PICK s : Walk(c, Start, s) /\ ~Can(s, tok)
    BY <1>1 DEF Walked
  <2>5. Begins(more, phrase)
    BY <1>1, <2>1
  <2> HIDE DEF c
  <2>6. /\ more \in Seq(Readable) /\ Len(c) \in Nat /\ Len(more) = Len(c) + 1 /\ more[Len(c) + 1] = tok
        /\ \A i \in 1 .. Len(c) : c[i] = more[i]
    BY <2>2, <2>3, AppendProperties
  <2> HIDE DEF more
  <2>7. PICK s2 : Walk(more, Start, s2)
    BY <2>5, <2>6, SentencesWalk
  <2>8. Len(more) \in Nat /\ Len(c) \in 0 .. Len(more) /\ Len(c) < Len(more)
    BY <2>6
  <2>9. PICK s1 : Walk(c, Start, s1) /\ Can(s1, tok)
    BY <2>6, <2>7, <2>8, WalkPart
  <2>10. s1 = s
    BY <2>4, <2>6, <2>9, WalkUnique
  <2> QED
    BY <2>4, <2>9, <2>10
<1>2. InPlace /\ Walked => RefusesNoSentence
  BY <1>1 DEF RefusesNoSentence
<1> QED
  BY <1>2, WalkingSound, PTL
=============================================================================
