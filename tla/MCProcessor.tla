----------------------------- MODULE MCProcessor -----------------------------
(***************************************************************************)
(* Small instances of Processor: all files of up to MaxTokens tokens.      *)
(***************************************************************************)
EXTENDS ProcessorProps

MCText == STRING

\* One keyword is spelled in lower case, and another serves as a name.
MCSpelling ==
  [k \in Keywords |-> IF k = "VALUES" THEN {"values", "VALUES"} ELSE {k}]

MCWords == {"INSERT", "INTO", "values", "SELECT", "FROM", "a"}

MCNames == {"FROM", "a"}

MCTokens ==
  {Word(w) : w \in MCWords}
  \cup {Mark(ch) : ch \in {"(", ")", ",", ";", ".", "*"}}
  \cup {Number("-", <<"1", "2", "8">>), Number("", <<"1", "2", "8">>), Number("+", <<"0", "7">>)}
  \cup {Literal(<<"'", "'", "'", "x", "'">>), Literal(<<"'", "'", "'">>), Other}

ASSUME TokensReadBack == LiteralsReadBack

----------------------------------------------------------------------------
\* a has a CSV file alone, a.a a schema too.
Stems == MCNames \cup {w \o "__" \o v : w, v \in MCNames}

MCDataDirs ==
  {[n \in TableFiles |->
      CASE n = Csv("a")       -> << <<"k">> >>
        [] n = Csv("a__a")    -> << <<"a", "FROM">> >>
        [] n = Schema("a__a") -> << <<"name", "type">>, <<"a", "STRING">>, <<"FROM", "INT">> >>
        [] OTHER              -> NoFile]}
=============================================================================
