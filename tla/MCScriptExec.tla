---------------------------- MODULE MCScriptExec ----------------------------
(***************************************************************************)
(* Small instances of ScriptExec: the tables, data directories and scripts *)
(* its runs are made of.                                                   *)
(***************************************************************************)
EXTENDS ScriptExecProps

MCText == STRING

----------------------------------------------------------------------------
\* Statements.
I(text) == [type |-> "INT", text |-> text]
S(text) == [type |-> "STRING", text |-> text]

Insert(t, cols, vals) ==
  [kind |-> "INSERT", table |-> t, cols |-> cols, all |-> FALSE, vals |-> vals]
SelectAll(t) ==
  [kind |-> "SELECT", table |-> t, cols |-> <<>>, all |-> TRUE, vals |-> <<>>]
Select(t, cols) ==
  [kind |-> "SELECT", table |-> t, cols |-> cols, all |-> FALSE, vals |-> <<>>]

InsertUser    == Insert("users", <<>>, <<I("2"), S("bob")>>)
InsertReorder == Insert("users", <<"name", "id">>, <<S("eve"), I("3")>>)
InsertLog     == Insert("logs", <<"msg">>, <<S("hello")>>)
InsertNote    == Insert("notes", <<>>, <<S("n2")>>)

----------------------------------------------------------------------------
\* Data directories: users has both files, logs only a schema, notes only a CSV.
UsersSchema == << <<"name", "type">>, <<"id", "INT">>, <<"name", "string">> >>
UsersRows   == << <<"id", "name">>, <<"1", "ann">> >>
LogsSchema  == << <<"name", "type">>, <<"msg", "STRING">> >>
NotesRows   == << <<"text">>, <<"n1">> >>

Holding(files) == [n \in TableFiles |-> IF n \in DOMAIN files THEN files[n] ELSE NoFile]

Plain ==
  Holding(   Csv("users")    :> UsersRows
          @@ Schema("users") :> UsersSchema
          @@ Schema("logs")  :> LogsSchema
          @@ Csv("notes")    :> NotesRows)

\* A row of users is short: the reader's loops reach it, INSERT does not.
BadRow == [Plain EXCEPT ![Csv("users")] = Append(UsersRows, <<"7">>)]

\* The third row of the schema of users repeats a column.
BadSchema == [Plain EXCEPT ![Schema("users")] = Append(UsersSchema, <<"id", "INT">>)]

PlainDirs  == {Plain}
FaultDirs  == {Plain, BadRow, BadSchema}
SchemaDirs == {BadSchema}

----------------------------------------------------------------------------
\* Scripts of one process.
TwoTables == <<InsertReorder, InsertLog, Select("users", <<"name">>)>>
Twice     == <<InsertUser, InsertNote, InsertReorder, SelectAll("users")>>
Rejected  == <<InsertUser, SelectAll("logs")>>
Reads     == <<SelectAll("users"), Select("users", <<"name", "id">>)>>
NoList    == <<InsertNote, Insert("logs", <<>>, <<S("x")>>)>>

OneProc     == {"p"}
FaultScript == "p" :> {TwoTables, Twice, Rejected, Reads, NoList}

\* Two processes.
TwoProcs == {"p", "q"}
Disjoint == "p" :> {<<InsertUser, InsertNote>>, <<InsertReorder, SelectAll("users")>>}
         @@ "q" :> {<<InsertLog, SelectAll("logs")>>, <<InsertLog, Select("logs", <<"nope">>)>>}
Shared   == "p" :> {<<InsertUser, InsertNote>>, <<InsertReorder>>}
         @@ "q" :> {<<InsertReorder, InsertNote>>, <<InsertNote, InsertUser>>,
                    <<SelectAll("users"), SelectAll("notes")>>}

\* A table whose name is one commit_staged_csvs uses in the stage directory.
ReservedDir ==
  Holding(   Csv("__commit_0")    :> NotesRows
          @@ Csv("users")         :> UsersRows
          @@ Schema("users")      :> UsersSchema)
ReservedDirs   == {ReservedDir}
ReservedScript == "p" :> {<<Insert("__commit_0", <<>>, <<S("n2")>>)>>,
                          <<Insert("__commit_0", <<>>, <<S("n2")>>), InsertUser>>,
                          <<InsertUser, Insert("__commit_0", <<>>, <<S("n2")>>)>>}
=============================================================================
