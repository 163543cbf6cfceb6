--------------------------- MODULE RefinementProofs ---------------------------
(***************************************************************************)
(* ScriptExec implements AtomicScript, for every set of processes, tables, *)
(* scripts and data directories, under the premise ApartAndUndoable: the   *)
(* commit, the rollback and a kill between any two file operations come to *)
(* one instant at which the whole script happens, or to none.              *)
(*                                                                         *)
(* Sound says that what a process has done so far is what ScriptSemantics  *)
(* makes of the statements it has run; Settled is the data directory a     *)
(* recovery would leave, and it is what the refinement mapping shows.      *)
(***************************************************************************)
EXTENDS ScriptExecProps, ScriptExecProofs

----------------------------------------------------------------------------
(***************************************************************************)
(* What the statements of a script make of a directory, one by one.        *)
(***************************************************************************)
\* The recursion of Progress is well defined: where it starts, how it goes on.
LEMMA ProgressSteps ==
  ASSUME NEW dir, NEW s, Len(s) \in Nat
  PROVE  /\ Progress(dir, s)[0] = {Fresh(dir)}
         /\ \A k \in 1 .. Len(s) : Progress(dir, s)[k] = {Do(st, s[k]) : st \in Progress(dir, s)[k - 1]}
<1> DEFINE After(X, k) == {Do(st, s[k]) : st \in X}
           F(f, m) == [k \in 0 .. m |-> IF k = 0 THEN {Fresh(dir)} ELSE After(f[k - 1], k)]
           S == {m \in Nat : \E f : f = F(f, m)}
<1>1. Progress(dir, s) = CHOOSE f : f = F(f, Len(s))
  BY DEF Progress
<1> HIDE DEF After
<1>2. 0 \in S
  <2> DEFINE g == [k \in 0 .. 0 |-> {Fresh(dir)}]
  <2>1. g = F(g, 0)
    OBVIOUS
  <2> QED
    BY <2>1
<1>3. ASSUME NEW m \in Nat, m \in S
      PROVE  m + 1 \in S
  <2>1. PICK f : f = F(f, m)
    BY <1>3
  <2> DEFINE g == [k \in 0 .. (m + 1) |-> IF k = m + 1 THEN After(f[m], m + 1) ELSE f[k]]
  <2>2. /\ g[m + 1] = After(f[m], m + 1)
        /\ \A k \in 0 .. m : g[k] = f[k]
    OBVIOUS
  <2>3. f[0] = {Fresh(dir)} /\ \A k \in 1 .. m : f[k] = After(f[k - 1], k)
    <3>1. \A k \in 0 .. m : f[k] = F(f, m)[k]
      BY <2>1
    <3>2. \A k \in 0 .. m : F(f, m)[k] = IF k = 0 THEN {Fresh(dir)} ELSE After(f[k - 1], k)
      OBVIOUS
    <3> HIDE DEF F
    <3> QED
      BY <3>1, <3>2
  <2> HIDE DEF g
  <2>4. \A k \in 0 .. (m + 1) : g[k] = IF k = 0 THEN {Fresh(dir)} ELSE After(g[k - 1], k)
    <3>1. 0 \in 0 .. m
      OBVIOUS
    <3>2. g[0] = {Fresh(dir)}
      BY <2>2, <2>3, <3>1
    <3>3. ASSUME NEW k \in 1 .. m
          PROVE  g[k] = After(g[k - 1], k)
      BY <2>2, <2>3
    <3>4. g[m + 1] = After(g[(m + 1) - 1], m + 1)
      BY <2>2
    <3>5. ASSUME NEW k \in 0 .. (m + 1)
          PROVE  k = 0 \/ k \in 1 .. m \/ k = m + 1
      OBVIOUS
    <3>6. ASSUME NEW k \in 0 .. (m + 1)
          PROVE  g[k] = IF k = 0 THEN {Fresh(dir)} ELSE After(g[k - 1], k)
      <4>1. CASE k = 0
        BY <3>2, <4>1
      <4>2. CASE k \in 1 .. m
        BY <3>3, <4>2
      <4>3. CASE k = m + 1
        BY <3>4, <4>3
      <4> QED
        BY <3>5, <4>1, <4>2, <4>3
    <3> QED
      BY <3>6
  <2>5. g = F(g, m + 1)
    BY <2>4 DEF g
  <2> QED
    BY <2>5
<1>4. Len(s) \in S
  <2> HIDE DEF S
  <2> QED
    BY <1>2, <1>3, NatSetInduction
<1>5. \E f : f = F(f, Len(s))
  BY <1>4
<1>6. Progress(dir, s) = F(Progress(dir, s), Len(s))
  BY <1>1, <1>5
<1> DEFINE P == Progress(dir, s)
<1> HIDE DEF P
<1>7. P[0] = {Fresh(dir)}
  BY <1>6 DEF P
<1>8. ASSUME NEW k \in 1 .. Len(s)
      PROVE  P[k] = After(P[k - 1], k)
  <2>1. P = F(P, Len(s))
    BY <1>6 DEF P
  <2>2. F(P, Len(s))[k] = After(P[k - 1], k)
    OBVIOUS
  <2> HIDE DEF F
  <2> QED
    BY <2>1, <2>2
<1> QED
  BY <1>7, <1>8 DEF After, P

\* What a script has made of a directory so far.
ScriptState == [dir : DataDir, lines : Content, ok : BOOLEAN]

\* A statement that is accepted adds its lines and, if it is an INSERT, its row.
LEMMA DoAccepted ==
  ASSUME NEW st \in ScriptState, NEW stmt \in Statement, st.ok,
         Accepts(st.dir[Schema(stmt.table)], st.dir[Csv(stmt.table)], stmt)
  PROVE  LET s == st.dir[Schema(stmt.table)]
             n == Csv(stmt.table)
             r == Do(st, stmt)
         IN  /\ r \in ScriptState
             /\ r.ok
             /\ r.lines = st.lines \o Reply(s, st.dir[n], stmt)
             /\ r.dir[n] = FileAfter(s, st.dir[n], stmt)
             /\ \A m \in TableFiles : m # n => r.dir[m] = st.dir[m]
<1> DEFINE s == st.dir[Schema(stmt.table)]
           n == Csv(stmt.table)
           f == FileAfter(s, st.dir[n], stmt)
           l == Reply(s, st.dir[n], stmt)
<1>1. st.dir \in [TableFiles -> File] /\ st.lines \in Content /\ st.ok \in BOOLEAN
  BY DEF ScriptState, DataDir
<1>2. n \in TableFiles /\ Schema(stmt.table) \in TableFiles
  BY StageNames DEF Statement
<1>3. f \in File /\ l \in Content
  BY <1>1, <1>2, StatementTypes
<1>4. Do(st, stmt) = [st EXCEPT !.dir[n] = f, !.lines = @ \o l]
  BY DEF Do
<1> HIDE DEF f, l, n, s
<1>5. Do(st, stmt) = [dir |-> [st.dir EXCEPT ![n] = f], lines |-> st.lines \o l, ok |-> st.ok]
  BY <1>4 DEF ScriptState
<1>6. st.lines \o l \in Content
  BY <1>1, <1>3 DEF Content
<1>7. [st.dir EXCEPT ![n] = f] \in DataDir
  BY <1>1, <1>3 DEF DataDir
<1>8. [st.dir EXCEPT ![n] = f][n] = f /\ \A m \in TableFiles : m # n => [st.dir EXCEPT ![n] = f][m] = st.dir[m]
  BY <1>1, <1>2
<1> QED
  BY <1>1, <1>5, <1>6, <1>7, <1>8 DEF ScriptState, f, l, n, s

\* One that is rejected, or comes after one that was, changes nothing.
LEMMA DoRejected ==
  ASSUME NEW st \in ScriptState, NEW stmt \in Statement,
         ~(st.ok /\ Accepts(st.dir[Schema(stmt.table)], st.dir[Csv(stmt.table)], stmt))
  PROVE  LET r == Do(st, stmt)
         IN  r \in ScriptState /\ ~r.ok /\ r.lines = st.lines /\ r.dir = st.dir
<1>1. Do(st, stmt) = [st EXCEPT !.ok = FALSE]
  BY DEF Do
<1> QED
  BY <1>1 DEF ScriptState

\* There is always a state to go on from, and it has its type.
LEMMA ProgressType ==
  ASSUME NEW dir \in DataDir, NEW s \in Seq(Statement)
  PROVE  \A k \in 0 .. Len(s) : Progress(dir, s)[k] \subseteq ScriptState /\ Progress(dir, s)[k] # {}
<1> DEFINE P == Progress(dir, s)
           S == {k \in Nat : k <= Len(s) => P[k] \subseteq ScriptState /\ P[k] # {}}
<1>1. Len(s) \in Nat /\ DOMAIN s = 1 .. Len(s)
  BY LenProperties
<1>2. P[0] = {Fresh(dir)} /\ \A k \in 1 .. Len(s) : P[k] = {Do(st, s[k]) : st \in P[k - 1]}
  BY <1>1, ProgressSteps
<1> HIDE DEF P
<1>3. 0 \in S
  <2>1. Fresh(dir) \in ScriptState
    BY DEF Fresh, ScriptState, Content
  <2> QED
    BY <1>2, <2>1
<1>4. ASSUME NEW k \in Nat, k \in S
      PROVE  k + 1 \in S
  <2> SUFFICES ASSUME k + 1 <= Len(s)
               PROVE  P[k + 1] \subseteq ScriptState /\ P[k + 1] # {}
    OBVIOUS
  <2>1. P[k] \subseteq ScriptState /\ P[k] # {}
    BY <1>1, <1>4
  <2>2. k + 1 \in 1 .. Len(s) /\ (k + 1) - 1 = k
    BY <1>1
  <2>3. P[k + 1] = {Do(st, s[k + 1]) : st \in P[k]}
    BY <1>2, <2>2
  <2>4. s[k + 1] \in Statement
    BY <2>2, ElementOfSeq
  <2>5. \A st \in P[k] : Do(st, s[k + 1]) \in ScriptState
    BY <2>1, <2>4, DoAccepted, DoRejected
  <2> QED
    BY <2>1, <2>3, <2>5
<1>5. Nat \subseteq S
  <2> HIDE DEF S
  <2> QED
    BY <1>3, <1>4, NatSetInduction
<1> QED
  BY <1>1, <1>5 DEF P

----------------------------------------------------------------------------
(***************************************************************************)
(* A script depends on the files it uses, and changes only those it writes.*)
(***************************************************************************)
Alike(p, a, b) == a.ok = b.ok /\ a.lines = b.lines /\ \A n \in Uses(p) : a.dir[n] = b.dir[n]

\* The same of one statement.
LEMMA DoAlike ==
  ASSUME NEW p \in Procs, NEW s \in ScriptsOf[p], NEW k \in DOMAIN s,
         NEW a \in ScriptState, NEW b \in ScriptState, Alike(p, a, b)
  PROVE  /\ Alike(p, Do(a, s[k]), Do(b, s[k]))
         /\ \A n \in TableFiles \ Writes(p) : Do(b, s[k]).dir[n] = b.dir[n]
<1> DEFINE stmt == s[k]
           n == Csv(stmt.table)
           h == Schema(stmt.table)
<1>1. stmt \in Statement
  BY ScriptsFit, ElementOfSeq, LenProperties
<1>2. n \in TableFiles /\ h \in TableFiles
  BY <1>1, StageNames DEF Statement
<1>3. n \in Uses(p) /\ h \in Uses(p)
  BY <1>2 DEF Uses
<1>4. a.dir[n] = b.dir[n] /\ a.dir[h] = b.dir[h] /\ a.ok = b.ok /\ a.lines = b.lines
  BY <1>3 DEF Alike
<1>5. stmt.kind = "INSERT" => n \in Writes(p)
  BY <1>2 DEF Writes
<1>6. stmt.kind # "INSERT" => \A x, y : FileAfter(x, y, stmt) = y
  BY DEF FileAfter
<1> HIDE DEF stmt, n, h
<1>7. CASE a.ok /\ Accepts(a.dir[h], a.dir[n], stmt)
  <2> DEFINE ra == Do(a, stmt)
             rb == Do(b, stmt)
             f == FileAfter(a.dir[h], a.dir[n], stmt)
             l == Reply(a.dir[h], a.dir[n], stmt)
  <2>1. ra \in ScriptState /\ ra.ok /\ ra.lines = a.lines \o l /\ ra.dir[n] = f
        /\ \A m \in TableFiles : m # n => ra.dir[m] = a.dir[m]
    BY <1>1, <1>7, DoAccepted DEF n, h
  <2>2. rb \in ScriptState /\ rb.ok /\ rb.lines = b.lines \o l /\ rb.dir[n] = f
        /\ \A m \in TableFiles : m # n => rb.dir[m] = b.dir[m]
    <3>1. b.ok /\ Accepts(b.dir[h], b.dir[n], stmt)
      BY <1>4, <1>7 DEF n, h
    <3>2. FileAfter(b.dir[h], b.dir[n], stmt) = f /\ Reply(b.dir[h], b.dir[n], stmt) = l
      BY <1>4 DEF n, h
    <3> QED
      BY <1>1, <3>1, <3>2, DoAccepted DEF n, h
  <2>3. n \notin Writes(p) => f = b.dir[n]
    BY <1>4, <1>5, <1>6
  <2>4. ra.ok = TRUE /\ rb.ok = TRUE
    BY <2>1, <2>2 DEF ScriptState
  <2> HIDE DEF ra, rb, f, l
  <2>5. \A m \in Uses(p) : ra.dir[m] = rb.dir[m]
    BY <1>4, <2>1, <2>2, UsesNames DEF Alike
  <2>6. \A m \in TableFiles \ Writes(p) : rb.dir[m] = b.dir[m]
    BY <2>2, <2>3
  <2>7. ra.lines = rb.lines
    BY <1>4, <2>1, <2>2
  <2> QED
    BY <2>4, <2>5, <2>6, <2>7 DEF Alike, ra, rb, stmt
<1>8. CASE ~(a.ok /\ Accepts(a.dir[h], a.dir[n], stmt))
  <2>1. Do(a, stmt) \in ScriptState /\ ~Do(a, stmt).ok /\ Do(a, stmt).lines = a.lines
        /\ Do(a, stmt).dir = a.dir
    BY <1>1, <1>8, DoRejected DEF n, h
  <2>2. Do(b, stmt) \in ScriptState /\ ~Do(b, stmt).ok /\ Do(b, stmt).lines = b.lines
        /\ Do(b, stmt).dir = b.dir
    BY <1>1, <1>4, <1>8, DoRejected DEF n, h
  <2>3. Do(a, stmt).ok = FALSE /\ Do(b, stmt).ok = FALSE
    BY <2>1, <2>2 DEF ScriptState
  <2> QED
    BY <1>4, <2>1, <2>2, <2>3 DEF Alike, stmt
<1> QED
  BY <1>7, <1>8

\* Two directories that agree on the files p uses are as good as each other to it.
LEMMA ScriptIsLocal ==
  ASSUME NEW p \in Procs, NEW s \in ScriptsOf[p], NEW d \in DataDir, NEW e \in DataDir,
         \A n \in Uses(p) : d[n] = e[n]
  PROVE  \A k \in 0 .. Len(s) : \A a \in Progress(d, s)[k] : \E b \in Progress(e, s)[k] :
           Alike(p, a, b) /\ \A n \in TableFiles \ Writes(p) : b.dir[n] = e[n]
<1> DEFINE P == Progress(d, s)
           Q == Progress(e, s)
           Local(a, b) == Alike(p, a, b) /\ \A n \in TableFiles \ Writes(p) : b.dir[n] = e[n]
           S == {k \in Nat : k <= Len(s) => \A a \in P[k] : \E b \in Q[k] : Local(a, b)}
<1>1. s \in Seq(Statement) /\ Len(s) \in Nat /\ DOMAIN s = 1 .. Len(s)
  BY ScriptsFit, LenProperties
<1>2. /\ P[0] = {Fresh(d)} /\ \A k \in 1 .. Len(s) : P[k] = {Do(st, s[k]) : st \in P[k - 1]}
      /\ Q[0] = {Fresh(e)} /\ \A k \in 1 .. Len(s) : Q[k] = {Do(st, s[k]) : st \in Q[k - 1]}
  <2>1. P[0] = {Fresh(d)} /\ \A k \in 1 .. Len(s) : P[k] = {Do(st, s[k]) : st \in P[k - 1]}
    BY <1>1, ProgressSteps
  <2>2. Q[0] = {Fresh(e)} /\ \A k \in 1 .. Len(s) : Q[k] = {Do(st, s[k]) : st \in Q[k - 1]}
    BY <1>1, ProgressSteps
  <2> QED
    BY <2>1, <2>2
<1>3. \A k \in 0 .. Len(s) : P[k] \subseteq ScriptState /\ Q[k] \subseteq ScriptState
  BY <1>1, ProgressType
<1> HIDE DEF P, Q
<1>4. 0 \in S
  <2>1. Local(Fresh(d), Fresh(e))
    BY DEF Fresh, Alike
  <2> QED
    BY <1>2, <2>1
<1>5. ASSUME NEW k \in Nat, k \in S
      PROVE  k + 1 \in S
  <2> SUFFICES ASSUME k + 1 <= Len(s), NEW a \in P[k + 1]
               PROVE  \E b \in Q[k + 1] : Local(a, b)
    OBVIOUS
  <2>1. k \in 0 .. Len(s) /\ k + 1 \in 1 .. Len(s) /\ (k + 1) - 1 = k
    BY <1>1
  <2>2. P[k + 1] = {Do(st, s[k + 1]) : st \in P[k]} /\ Q[k + 1] = {Do(st, s[k + 1]) : st \in Q[k]}
    BY <1>2, <2>1
  <2>3. PICK x \in P[k] : a = Do(x, s[k + 1])
    BY <2>2
  <2>4. PICK y \in Q[k] : Local(x, y)
    BY <1>5, <2>1, <2>3
  <2>5. x \in ScriptState /\ y \in ScriptState
    BY <1>3, <2>1
  <2>6. Local(a, Do(y, s[k + 1]))
    BY <1>1, <2>1, <2>3, <2>4, <2>5, DoAlike
  <2>7. Do(y, s[k + 1]) \in Q[k + 1]
    BY <2>2
  <2> QED
    BY <2>6, <2>7
<1>6. Nat \subseteq S
  <2> HIDE DEF S
  <2> QED
    BY <1>4, <1>5, NatSetInduction
<1> QED
  BY <1>1, <1>6 DEF P, Q

----------------------------------------------------------------------------
(***************************************************************************)
(* How far a script has got: what its stage holds at each label is what    *)
(* its statements so far make of the tables as it found them, in d.        *)
(***************************************************************************)
EndLabels  == {"commitCopy", "commitCheck", "backup", "replace", "flush"}
WorkLabels == StatementLabels \cup EndLabels

\* The file p's statements work on.
View(p, d, n) == IF Staging(p) /\ stage[p][n] # NoFile THEN stage[p][n] ELSE d[n]

\* A script starts with an empty stage.
FreshStage(p) ==
  pc[p] \in {"mkdir", "buffer"} => idx[p] = 1 /\ \A n \in StageFiles : stage[p][n] = NoFile

\* A stage copy that no statement has changed is a copy of what was found.
CopiesFaithful(p, d) ==
  pc[p] \in WorkLabels => \A n \in TableFiles \ Touched(p) : stage[p][n] \in {NoFile, d[n]}

\* No copy is taken twice, and none is missing when the statement is executed.
CopiesInHand(p, d) ==
  LET n == Csv(Stmt(p).table)
      h == Schema(Stmt(p).table)
  IN  /\ pc[p] = "copyCsv" => stage[p][n] = NoFile
      /\ pc[p] \in {"stageSchema", "exec"} /\ Staging(p) /\ stage[p][n] = NoFile => d[n] = NoFile
      /\ pc[p] = "exec" /\ Staging(p) /\ stage[p][h] = NoFile => d[h] = NoFile

\* The statements so far have been accepted, and done what they are to do.
WorkDone(p, d) ==
  pc[p] \in WorkLabels =>
    \E r \in Progress(d, script[p])[idx[p] - 1] :
      r.ok /\ r.lines = buf[p] /\ \A n \in Uses(p) : r.dir[n] = View(p, d, n)

\* The commit begins after the last statement and puts the stage copies in place.
PutInPlace(p) ==
  /\ pc[p] \in EndLabels =>
       /\ idx[p] = Len(script[p]) + 1
       /\ \A k \in 1 .. committed[p] : live[touched[p][k]] = stage[p][touched[p][k]]
  /\ pc[p] \in {"commitCheck", "backup", "replace"} => stage[p][Temp(p)] = stage[p][Target(p)]
  /\ pc[p] = "flush" => committed[p] = Len(touched[p])

\* There is a backup of no table but those moved away and not yet put back.
NoStrayBackup(p) ==
  \A i \in Index :
    stage[p][Rollback(i)] # NoFile =>
      /\ pc[p] \notin EarlyLabels
      /\ pc[p] \in CommitLabels \cup UndoLabels \cup {"flush"} =>
           /\ i \in hadOriginal[p]
           /\ i < committed[p] \/ (i = committed[p] /\ pc[p] \in {"replace", "restore"})

\* Nothing is shown before the end, and then what the statements have made.
Told(p, d) ==
  /\ Outcome[p] = "running" => out[p] = <<>>
  /\ Outcome[p] = "ok" =>
       \E r \in Results(d, script[p]) :
         r.ok /\ r.lines = out[p] /\ \A n \in Uses(p) : r.dir[n] = live[n]

Sound(p, d) ==
  /\ FreshStage(p)
  /\ CopiesFaithful(p, d)
  /\ CopiesInHand(p, d)
  /\ WorkDone(p, d)
  /\ PutInPlace(p)
  /\ NoStrayBackup(p)
  /\ Told(p, d)

\* The data directory a recovery would leave: the tables of the scripts that
\* have succeeded, and of the others as they were found.
Settled ==
  [n \in TableFiles |->
     IF \E p \in Procs : n \in Writes(p) /\ Outcome[p] = "ok" THEN live[n] ELSE orig[n]]

----------------------------------------------------------------------------
(***************************************************************************)
(* Undoing the commits in doubt leaves the tables as they were found.      *)
(***************************************************************************)
\* The k-th touched CSV file has a backup name.
LEMMA TouchedIndex ==
  ASSUME NEW p \in Procs, TypeOK, ListsInStep, NEW k \in DOMAIN touched[p]
  PROVE  /\ k \in Nat \ {0} /\ k - 1 \in Index /\ k <= Len(touched[p])
         /\ touched[p][k] \in TableFiles
<1>1. touched[p] \in Seq(CsvFiles) /\ idx[p] \in 1 .. (MaxStatements + 1)
  BY DEF TypeOK
<1>2. DOMAIN touched[p] = 1 .. Len(touched[p]) /\ Len(touched[p]) \in Nat /\ Len(touched[p]) < idx[p]
  BY <1>1, LenProperties DEF ListsInStep, InStep
<1>3. k \in Nat \ {0} /\ k - 1 \in Index /\ k <= Len(touched[p])
  BY <1>1, <1>2, MaxStatementsIsPositive DEF Index
<1> QED
  BY <1>3, TouchedNames

\* What the mapping puts back is what was found.
LEMMA UndoGivesBack ==
  ASSUME NEW p \in Procs, TypeOK, ListsInStep, Guarded(p, orig), NoStrayBackup(p),
         p \in InDoubt, NEW n \in DOMAIN Undo(p)
  PROVE  n \in Writes(p) /\ Outcome[p] # "ok" /\ Undo(p)[n] = orig[n]
<1> USE DEF CommitLabels, UndoLabels
<1>1. pc[p] \in CommitLabels \cup UndoLabels \cup {"flush"}
  BY DEF InDoubt, Committing
<1>2. PICK k \in Moved(p) \cup Created(p) : n = touched[p][k]
  BY DEF Undo
<1>3. k \in DOMAIN touched[p]
  <2>1. touched[p] \in Seq(CsvFiles) /\ committed[p] \in Nat /\ committed[p] <= Len(touched[p])
    BY DEF TypeOK, ListsInStep, InStep
  <2>2. DOMAIN touched[p] = 1 .. Len(touched[p]) /\ Len(touched[p]) \in Nat
    BY <2>1, LenProperties
  <2>3. Moved(p) \subseteq DOMAIN touched[p] /\ Created(p) \subseteq 1 .. committed[p]
    BY DEF Moved, Created
  <2> QED
    BY <2>1, <2>2, <2>3
<1>4. Undo(p)[n] = stage[p][Rollback(k - 1)]
  <2>1. (CHOOSE j \in DOMAIN touched[p] : touched[p][j] = n) = k
    BY <1>2, <1>3 DEF Guarded, TouchedStaged
  <2> QED
    BY <2>1 DEF Undo
<1>5. k \in Nat \ {0} /\ k - 1 \in Index /\ committed[p] \in Nat
  <2>1. committed[p] \in Nat
    BY MaxStatementsIsPositive DEF TypeOK
  <2> QED
    BY <1>3, <2>1, TouchedIndex
<1>6. \A j \in 1 .. committed[p] : Kept(p, orig, j)
  BY <1>1 DEF Guarded, OriginalsKept
<1>7. Undo(p)[n] = orig[n]
  <2>1. CASE stage[p][Rollback(k - 1)] # NoFile
    <3>1. /\ k - 1 \in hadOriginal[p]
          /\ k - 1 < committed[p] \/ (k - 1 = committed[p] /\ pc[p] \in {"replace", "restore"})
      BY <1>1, <1>5, <2>1 DEF NoStrayBackup
    <3>2. CASE k - 1 < committed[p]
      <4>1. k \in 1 .. committed[p]
        BY <1>5, <3>2
      <4> QED
        BY <1>2, <1>4, <1>6, <3>1, <4>1 DEF Kept
    <3>3. CASE k - 1 = committed[p] /\ pc[p] \in {"replace", "restore"}
      <4>1. KeptInHand(p, orig)
        BY <3>3 DEF Guarded, OriginalsKept
      <4>2. committed[p] + 1 = k
        BY <1>5, <3>3
      <4> QED
        BY <1>2, <1>4, <3>1, <3>3, <4>1, <4>2 DEF KeptInHand, Target, Backup
    <3> QED
      BY <3>1, <3>2, <3>3
  <2>2. CASE stage[p][Rollback(k - 1)] = NoFile
    <3>1. k \in Created(p)
      BY <1>2, <2>2 DEF Moved
    <3>2. k \in 1 .. committed[p] /\ (k - 1) \notin hadOriginal[p]
      BY <3>1 DEF Created
    <3> QED
      BY <1>2, <1>4, <1>6, <2>2, <3>2 DEF Kept
  <2> QED
    BY <2>1, <2>2
<1>8. n \in Writes(p)
  BY <1>2, <1>3 DEF Guarded, TouchedStaged, Touched
<1>9. Outcome[p] # "ok"
  BY <1>1 DEF Outcome
<1> QED
  BY <1>7, <1>8, <1>9

\* And what it does not put back has not been changed.
LEMMA ChangedIsUndone ==
  ASSUME NEW p \in Procs, TypeOK, ListsInStep, Guarded(p, orig), NEW n \in Touched(p),
         Outcome[p] # "ok", live[n] # orig[n]
  PROVE  p \in InDoubt /\ n \in DOMAIN Undo(p)
<1> USE DEF EarlyLabels, StatementLabels, CommitLabels, UndoLabels, Labels
<1>1. n \in Uses(p) /\ pc[p] \in Labels
  BY UsesNames DEF Guarded, TouchedStaged, TypeOK
<1>2. pc[p] \in CommitLabels \cup UndoLabels \cup {"flush"}
  <2>1. pc[p] \in {"cleanup", "done"} => err[p] # "none"
    BY DEF Outcome
  <2> QED
    BY <1>1, <2>1 DEF Guarded, OriginalsKept, AsFound
<1>3. p \in InDoubt
  BY <1>2 DEF InDoubt, Committing
<1>4. ASSUME NEW k \in 1 .. committed[p], touched[p][k] = n
      PROVE  n \in DOMAIN Undo(p)
  <2>1. Kept(p, orig, k)
    BY <1>2 DEF Guarded, OriginalsKept
  <2>2. k \in DOMAIN touched[p]
    <3>1. touched[p] \in Seq(CsvFiles) /\ committed[p] \in Nat /\ committed[p] <= Len(touched[p])
      BY DEF TypeOK, ListsInStep, InStep
    <3> QED
      BY <3>1, LenProperties
  <2>3. k \in Moved(p) \cup Created(p)
    BY <2>1, <2>2 DEF Kept, Moved, Created
  <2> QED
    BY <1>4, <2>3 DEF Undo
<1>5. CASE pc[p] \notin {"replace", "restore"}
  <2>1. RestAsFound(p, orig, committed[p])
    BY <1>2, <1>5 DEF Guarded, OriginalsKept
  <2>2. \E k \in 1 .. committed[p] : touched[p][k] = n
    BY <1>1, <2>1 DEF RestAsFound
  <2> QED
    BY <1>3, <1>4, <2>2
<1>6. CASE pc[p] \in {"replace", "restore"}
  <2>1. RestAsFound(p, orig, committed[p] + 1) /\ KeptInHand(p, orig)
    BY <1>6 DEF Guarded, OriginalsKept
  <2>2. PICK k \in 1 .. (committed[p] + 1) : touched[p][k] = n
    BY <1>1, <2>1 DEF RestAsFound
  <2>3. CASE k \in 1 .. committed[p]
    BY <1>3, <1>4, <2>2, <2>3
  <2>4. CASE k = committed[p] + 1
    <3>1. Target(p) = n
      BY <2>2, <2>4 DEF Target
    <3>2. committed[p] \in hadOriginal[p]
      <4>1. CASE pc[p] = "replace"
        <5>1. live[n] = NoFile
          BY <3>1, <4>1 DEF Guarded, OriginalsKept
        <5> QED
          BY <2>1, <3>1, <5>1 DEF KeptInHand
      <4>2. CASE pc[p] = "restore"
        BY <4>2 DEF Guarded, OriginalsKept
      <4> QED
        BY <1>6, <4>1, <4>2
    <3>3. stage[p][Rollback(committed[p])] # NoFile
      BY <2>1, <3>2 DEF KeptInHand, Backup
    <3>4. k \in DOMAIN touched[p] /\ k - 1 = committed[p]
      <4>1. touched[p] \in Seq(CsvFiles) /\ committed[p] \in Nat /\ committed[p] < Len(touched[p])
        BY <1>6 DEF TypeOK, ListsInStep, InStep
      <4> QED
        BY <2>4, <4>1, LenProperties
    <3>5. k \in Moved(p)
      BY <3>3, <3>4 DEF Moved
    <3> QED
      BY <1>3, <2>2, <3>5 DEF Undo
  <2>5. committed[p] \in Nat
    BY DEF TypeOK
  <2> QED
    BY <2>3, <2>4, <2>5
<1> QED
  BY <1>5, <1>6

\* The directory of the refinement is the settled one.
LEMMA LogicalIsSettled ==
  ASSUME Apart, AllGuarded, \A p \in Procs : NoStrayBackup(p)
  PROVE  Logical = Settled
<1> SUFFICES ASSUME NEW n \in TableFiles
             PROVE  Logical[n] = Settled[n]
  BY DEF Logical, Settled
<1>1. TypeOK /\ ListsInStep
  BY DEF AllGuarded, Typed
<1>2. CASE InDoubtFor(n) # {}
  <2> DEFINE p == CHOOSE q \in InDoubtFor(n) : TRUE
  <2>1. p \in InDoubtFor(n)
    BY <1>2
  <2>2. Logical[n] = Undo(p)[n]
    BY <1>2 DEF Logical
  <2> HIDE DEF p
  <2>3. p \in Procs /\ p \in InDoubt /\ n \in DOMAIN Undo(p)
    BY <2>1 DEF InDoubtFor, InDoubt
  <2>4. n \in Writes(p) /\ Outcome[p] # "ok" /\ Undo(p)[n] = orig[n]
    BY <1>1, <2>3, UndoGivesBack DEF AllGuarded
  <2>5. \A q \in Procs : n \in Writes(q) => q = p
    BY <2>3, <2>4, UsesNames DEF Apart
  <2> QED
    BY <2>2, <2>4, <2>5 DEF Settled
<1>3. CASE InDoubtFor(n) = {}
  <2>1. Logical[n] = live[n]
    BY <1>3 DEF Logical
  <2>2. ASSUME \A p \in Procs : ~(n \in Writes(p) /\ Outcome[p] = "ok"), live[n] # orig[n]
        PROVE  FALSE
    <3>1. PICK p \in Procs : n \in Touched(p)
      BY <2>2 DEF AllGuarded, OthersAsFound
    <3>2. Outcome[p] # "ok"
      BY <2>2, <3>1 DEF AllGuarded, Guarded, TouchedStaged
    <3>3. p \in InDoubt /\ n \in DOMAIN Undo(p)
      BY <1>1, <2>2, <3>1, <3>2, ChangedIsUndone DEF AllGuarded
    <3> QED
      BY <1>3, <3>3 DEF InDoubtFor
  <2> QED
    BY <2>1, <2>2 DEF Settled
<1> QED
  BY <1>2, <1>3

----------------------------------------------------------------------------
(***************************************************************************)
(* Steps that end a script or undo it.                                     *)
(***************************************************************************)
\* What the steps of p rely on.
Steady(p, d) == Typed /\ WritesAreStaged /\ Guarded(p, d)

\* Nothing is asked of a script that has failed and is over.
LEMMA FailedSound ==
  ASSUME NEW p \in Procs, NEW d \in DataDir, pc'[p] \in {"cleanup", "done"}, err'[p] # "none"
  PROVE  Sound(p, d)'
<1> USE DEF EarlyLabels, StatementLabels, CommitLabels, UndoLabels, EndLabels, WorkLabels
<1>1. FreshStage(p)' /\ CopiesFaithful(p, d)' /\ CopiesInHand(p, d)' /\ WorkDone(p, d)' /\ PutInPlace(p)'
  BY DEF FreshStage, CopiesFaithful, CopiesInHand, WorkDone, PutInPlace
<1>2. NoStrayBackup(p)'
  BY DEF NoStrayBackup
<1>3. Told(p, d)'
  BY DEF Told, Outcome
<1> QED
  BY <1>1, <1>2, <1>3 DEF Sound

\* And of one that is being undone, only that there is no stray backup.
LEMMA UndoingSound ==
  ASSUME NEW p \in Procs, NEW d \in DataDir, pc'[p] \in UndoLabels, err'[p] # "none", NoStrayBackup(p)'
  PROVE  Sound(p, d)'
<1> USE DEF EarlyLabels, StatementLabels, CommitLabels, UndoLabels, EndLabels, WorkLabels
<1>1. FreshStage(p)' /\ CopiesFaithful(p, d)' /\ CopiesInHand(p, d)' /\ WorkDone(p, d)' /\ PutInPlace(p)'
  BY DEF FreshStage, CopiesFaithful, CopiesInHand, WorkDone, PutInPlace
<1>2. Told(p, d)'
  BY DEF Told, Outcome
<1> QED
  BY <1>1, <1>2 DEF Sound

\* Nothing is shown on the way.
LEMMA StillSilent ==
  ASSUME NEW p \in Procs, NEW d \in DataDir, Told(p, d), pc[p] \notin {"cleanup", "done"},
         pc'[p] \notin {"cleanup", "done"},
         err'[p] = err[p], alive'[p] = alive[p], out'[p] = out[p]
  PROVE  Told(p, d)'
  BY DEF Told, Outcome

\* And there is no backup before the commit.
LEMMA NoBackupYet ==
  ASSUME NEW p \in Procs, NoStrayBackup(p), pc[p] \in EarlyLabels,
         \A i \in Index : stage'[p][Rollback(i)] = stage[p][Rollback(i)]
  PROVE  NoStrayBackup(p)'
  BY DEF NoStrayBackup

\* restore_current_original, rollback_committed_csvs.
LEMMA RestoreCurrentSound ==
  ASSUME NEW p \in Procs, NEW d \in DataDir, Steady(p, d), Sound(p, d), RestoreCurrent(p)
  PROVE  Sound(p, d)'
<1> USE DEF EarlyLabels, StatementLabels, CommitLabels, UndoLabels
<1>1. TypeOK /\ ListsInStep /\ pc[p] = "restore" /\ err[p] # "none" /\ committed[p] \in Index
  <2>1. TypeOK /\ ListsInStep /\ pc[p] = "restore" /\ err[p] # "none"
    BY DEF Steady, Typed, Guarded, ErrorInStep, RestoreCurrent
  <2> QED
    BY <2>1, FileInHand
<1>2. (pc'[p] = "rollback" /\ err'[p] = err[p]) \/ (pc'[p] = "cleanup" /\ err'[p] = "rollback")
  BY <1>1, Moves DEF RestoreCurrent
<1>3. CASE pc'[p] = "cleanup"
  BY <1>1, <1>2, <1>3, FailedSound
<1>4. CASE pc'[p] = "rollback"
  <2>1. PutStaged(p, Backup(p), NoFile)
    <3>1. ~Fail(p, "rollback", "cleanup")
      BY <1>1, <1>4, Moves
    <3> QED
      BY <3>1 DEF RestoreCurrent
  <2>2. Backup(p) \in StageFiles /\ \A i \in Index : Rollback(i) \in StageFiles
    BY <1>1, StageNames DEF Backup
  <2>3. stage'[p][Backup(p)] = NoFile /\ \A m \in StageFiles : m # Backup(p) => stage'[p][m] = stage[p][m]
    BY <1>1, <2>1, <2>2, OneStaged
  <2>4. hadOriginal'[p] = hadOriginal[p] /\ committed'[p] = committed[p]
    BY DEF RestoreCurrent, lists
  <2>5. NoStrayBackup(p)'
    <3> SUFFICES ASSUME NEW i \in Index, stage'[p][Rollback(i)] # NoFile
                 PROVE  i \in hadOriginal[p] /\ i < committed[p]
      BY <1>4, <2>4 DEF NoStrayBackup
    <3>1. Rollback(i) # Backup(p) /\ stage[p][Rollback(i)] # NoFile
      BY <2>2, <2>3
    <3>2. i \in hadOriginal[p] /\ (i < committed[p] \/ i = committed[p])
      BY <1>1, <3>1 DEF Sound, NoStrayBackup
    <3> QED
      BY <3>1, <3>2 DEF Backup
  <2> QED
    BY <1>1, <1>2, <1>4, <2>5, UndoingSound
<1> QED
  BY <1>2, <1>3, <1>4

\* rollback_committed_csvs, removing the new file.
LEMMA RollbackRemoveSound ==
  ASSUME NEW p \in Procs, NEW d \in DataDir, Steady(p, d), Sound(p, d),
         RollbackCheck(p) \/ RollbackRemove(p)
  PROVE  Sound(p, d)'
<1> USE DEF EarlyLabels, StatementLabels, CommitLabels, UndoLabels
<1>1. TypeOK /\ ListsInStep /\ pc[p] \in {"rollback", "rollbackRemove"} /\ err[p] # "none"
  BY DEF Steady, Typed, Guarded, ErrorInStep, RollbackCheck, RollbackRemove
<1>2. committed[p] \in Nat /\ UNCHANGED <<stage, hadOriginal>>
  BY <1>1, MaxStatementsIsPositive DEF TypeOK, RollbackCheck, RollbackRemove
<1>3. \/ /\ pc'[p] \in {"rollbackRemove", "rollbackMove"} /\ err'[p] = err[p]
         /\ committed'[p] = committed[p]
      \/ /\ pc'[p] = "rollback" /\ err'[p] = err[p] /\ committed'[p] = committed[p] - 1
         /\ committed[p] - 1 \notin hadOriginal[p]
      \/ pc'[p] = "cleanup" /\ err'[p] = "rollback"
  BY <1>1, Moves DEF RollbackCheck, RollbackRemove, Removed, Undone, TypeOK
<1>4. CASE pc'[p] = "cleanup"
  BY <1>1, <1>3, <1>4, FailedSound
<1>5. CASE pc'[p] \in {"rollback", "rollbackRemove", "rollbackMove"}
  <2>1. NoStrayBackup(p)'
    <3> SUFFICES ASSUME NEW i \in Index, stage[p][Rollback(i)] # NoFile
                 PROVE  i \in hadOriginal[p] /\ i < committed'[p]
      BY <1>2, <1>5 DEF NoStrayBackup
    <3>1. i \in hadOriginal[p] /\ i < committed[p]
      BY <1>1 DEF Sound, NoStrayBackup
    <3>2. i \in Nat
      BY MaxStatementsIsPositive DEF Index
    <3> QED
      BY <1>2, <1>3, <1>5, <3>1, <3>2
  <2> QED
    BY <1>1, <1>3, <1>5, <2>1, UndoingSound
<1> QED
  BY <1>3, <1>4, <1>5

\* rollback_committed_csvs, moving the original back.
LEMMA RollbackMoveSound ==
  ASSUME NEW p \in Procs, NEW d \in DataDir, Steady(p, d), Sound(p, d), RollbackMove(p)
  PROVE  Sound(p, d)'
<1> USE DEF EarlyLabels, StatementLabels, CommitLabels, UndoLabels
<1> DEFINE b == Rollback(committed[p] - 1)
<1>1. TypeOK /\ ListsInStep /\ pc[p] = "rollbackMove" /\ err[p] # "none"
  BY DEF Steady, Typed, Guarded, ErrorInStep, RollbackMove
<1>2. committed[p] \in Nat /\ committed[p] - 1 \in Index /\ hadOriginal' = hadOriginal
  <2>1. committed[p] \in 0 .. MaxStatements /\ committed[p] > 0
    BY <1>1 DEF TypeOK, ListsInStep, InStep
  <2> QED
    BY <2>1, IndexBounds, MaxStatementsIsPositive DEF RollbackMove
<1>3. \/ /\ pc'[p] = "rollback" /\ err'[p] = err[p] /\ committed'[p] = committed[p] - 1
         /\ PutStaged(p, b, NoFile)
      \/ pc'[p] = "cleanup" /\ err'[p] = "rollback"
  BY <1>1, Moves DEF RollbackMove, Undone, TypeOK
<1>4. CASE pc'[p] = "cleanup"
  BY <1>1, <1>3, <1>4, FailedSound
<1>5. CASE pc'[p] = "rollback"
  <2>1. stage'[p][b] = NoFile /\ \A m \in StageFiles : m # b => stage'[p][m] = stage[p][m]
    BY <1>1, <1>2, <1>3, <1>5, StageNames, OneStaged
  <2>2. NoStrayBackup(p)'
    <3> SUFFICES ASSUME NEW i \in Index, stage'[p][Rollback(i)] # NoFile
                 PROVE  i \in hadOriginal[p] /\ i < committed[p] - 1
      BY <1>2, <1>3, <1>5 DEF NoStrayBackup
    <3>1. i # committed[p] - 1 /\ stage[p][Rollback(i)] # NoFile
      BY <2>1, StageNames
    <3>2. i \in hadOriginal[p] /\ i < committed[p]
      BY <1>1, <3>1 DEF Sound, NoStrayBackup
    <3>3. i \in Nat
      BY MaxStatementsIsPositive DEF Index
    <3> QED
      BY <1>2, <3>1, <3>2, <3>3
  <2> QED
    BY <1>1, <1>3, <1>5, <2>2, UndoingSound
<1> QED
  BY <1>3, <1>4, <1>5

\* rollback_committed_csvs, at its end.
LEMMA RollbackEndsSound ==
  ASSUME NEW p \in Procs, NEW d \in DataDir, Steady(p, d), RollbackEnds(p)
  PROVE  Sound(p, d)'
<1>1. TypeOK /\ err[p] # "none"
  BY DEF Steady, Typed, Guarded, ErrorInStep, RollbackEnds, UndoLabels
<1>2. pc'[p] = "cleanup" /\ err'[p] = err[p]
  BY <1>1, Moves DEF RollbackEnds
<1> QED
  BY <1>1, <1>2, FailedSound

\* The sweep, and a kill in the middle of it.
LEMMA SweptSound ==
  ASSUME NEW p \in Procs, NEW d \in DataDir, Sound(p, d), pc[p] = "cleanup",
         pc'[p] \in {"cleanup", "done"}, err'[p] = err[p], UNCHANGED <<orig, script, live, out>>
  PROVE  Sound(p, d)'
<1>1. CASE err[p] # "none"
  BY <1>1, FailedSound
<1>2. CASE err[p] = "none"
  <2> USE DEF EarlyLabels, StatementLabels, CommitLabels, UndoLabels, EndLabels, WorkLabels
  <2>1. FreshStage(p)' /\ CopiesFaithful(p, d)' /\ CopiesInHand(p, d)' /\ WorkDone(p, d)' /\ PutInPlace(p)'
    BY DEF FreshStage, CopiesFaithful, CopiesInHand, WorkDone, PutInPlace
  <2>2. NoStrayBackup(p)'
    BY DEF NoStrayBackup
  <2>3. Outcome[p] = "ok" /\ Outcome'[p] = "ok"
    BY <1>2 DEF Outcome
  <2>4. Told(p, d)'
    BY <2>3 DEF Sound, Told
  <2> QED
    BY <2>1, <2>2, <2>4 DEF Sound
<1> QED
  BY <1>1, <1>2

\* cleanup_stage_dir.
LEMMA CleanupSound ==
  ASSUME NEW p \in Procs, NEW d \in DataDir, Steady(p, d), Sound(p, d), Cleanup(p)
  PROVE  Sound(p, d)'
<1>1. TypeOK /\ pc[p] = "cleanup"
  BY DEF Steady, Typed, Cleanup
<1>2. pc'[p] = "done" /\ err'[p] = err[p]
  BY <1>1, Moves DEF Cleanup
<1>3. UNCHANGED <<orig, script, live, out>>
  BY DEF Cleanup, program
<1> QED
  BY <1>1, <1>2, <1>3, SweptSound

----------------------------------------------------------------------------
(***************************************************************************)
(* Steps that fill the stage.                                              *)
(***************************************************************************)
\* The files at hand are those of a table the script may use.
LEMMA HandUses ==
  ASSUME NEW p \in Procs, TypeOK, ListsInStep, pc[p] \in StatementLabels, script[p] \in ScriptsOf[p]
  PROVE  /\ Csv(Stmt(p).table) \in Uses(p) /\ Schema(Stmt(p).table) \in Uses(p)
         /\ Csv(Stmt(p).table) \in CsvFiles /\ Csv(Stmt(p).table) \in StageFiles
         /\ Schema(Stmt(p).table) \in StageFiles
         /\ Csv(Stmt(p).table) # Schema(Stmt(p).table)
         /\ idx[p] \in DOMAIN script[p] /\ idx[p] \in 1 .. Len(script[p])
<1>1. script[p] \in Seq(Statement) /\ idx[p] \in Nat /\ idx[p] >= 1 /\ idx[p] <= Len(script[p])
  BY DEF TypeOK, ListsInStep, InStep, EarlyLabels
<1>2. idx[p] \in DOMAIN script[p] /\ idx[p] \in 1 .. Len(script[p])
  BY <1>1, LenProperties
<1>3. /\ Csv(Stmt(p).table) \in CsvFiles /\ Csv(Stmt(p).table) \in TableFiles
      /\ Schema(Stmt(p).table) \in TableFiles
  BY StmtAtHand, StageNames
<1>4. Csv(Stmt(p).table) \in Uses(p) /\ Schema(Stmt(p).table) \in Uses(p)
  BY <1>2, <1>3 DEF Uses, Stmt
<1>5. Csv(Stmt(p).table) # Schema(Stmt(p).table)
  BY DEF Csv, Schema
<1> QED
  BY <1>2, <1>3, <1>4, <1>5, StageNames

\* No file of a table is a backup.
LEMMA OwnBackups ==
  ASSUME Undoable
  PROVE  \A i \in Index, n \in TableFiles : Rollback(i) # n /\ Commit(i) # n
  BY DEF Undoable, NamesFree

\* The work so far stands as long as the files the statements see do.
LEMMA WorkStands ==
  ASSUME NEW p \in Procs, NEW d \in DataDir, WorkDone(p, d), pc[p] \in WorkLabels,
         UNCHANGED <<orig, script>>,
         idx'[p] = idx[p], buf'[p] = buf[p], \A n \in Uses(p) : View(p, d, n)' = View(p, d, n)
  PROVE  WorkDone(p, d)'
<1>1. PICK r \in Progress(d, script[p])[idx[p] - 1] :
        r.ok /\ r.lines = buf[p] /\ \A n \in Uses(p) : r.dir[n] = View(p, d, n)
  BY DEF WorkDone
<1>2. \A n \in Uses(p) : r.dir[n] = View(p, d, n)'
  BY <1>1
<1>3. r \in Progress(d, script'[p])[idx'[p] - 1] /\ r.lines = buf'[p]
  BY <1>1
<1> HIDE DEF View
<1> QED
  BY <1>1, <1>2, <1>3 DEF WorkDone

\* create_stage_dir.
LEMMA MakeStageDirSound ==
  ASSUME NEW p \in Procs, NEW d \in DataDir, Steady(p, d), Sound(p, d), MakeStageDir(p)
  PROVE  Sound(p, d)'
<1> USE DEF EarlyLabels, StatementLabels, CommitLabels, UndoLabels, EndLabels, WorkLabels
<1>1. TypeOK /\ pc[p] = "mkdir"
  BY DEF Steady, Typed, MakeStageDir
<1>2. (pc'[p] = "buffer" /\ err'[p] = err[p]) \/ (pc'[p] = "done" /\ err'[p] = "io")
  BY <1>1, Moves DEF MakeStageDir
<1>3. UNCHANGED <<idx, stage, out, alive, script, orig>>
  BY DEF MakeStageDir, program, output
<1>4. CASE pc'[p] = "done"
  BY <1>2, <1>4, FailedSound
<1>5. CASE pc'[p] = "buffer"
  <2>1. FreshStage(p)' /\ CopiesFaithful(p, d)' /\ CopiesInHand(p, d)' /\ WorkDone(p, d)' /\ PutInPlace(p)'
    BY <1>1, <1>3, <1>5 DEF Sound, FreshStage, CopiesFaithful, CopiesInHand, WorkDone, PutInPlace
  <2>2. NoStrayBackup(p)'
    BY <1>1, <1>3, NoBackupYet DEF Sound
  <2>3. Told(p, d)'
    BY <1>1, <1>2, <1>3, <1>5, StillSilent DEF Sound
  <2> QED
    BY <2>1, <2>2, <2>3 DEF Sound
<1> QED
  BY <1>2, <1>4, <1>5

\* create_temp_file_in_dir: what no statement has touched is as it was found.
LEMMA OpenBufferSound ==
  ASSUME NEW p \in Procs, NEW d \in DataDir, Steady(p, d), Sound(p, d), OpenBuffer(p)
  PROVE  Sound(p, d)'
<1> USE DEF EarlyLabels, StatementLabels, CommitLabels, UndoLabels, EndLabels, WorkLabels
<1>1. TypeOK /\ ListsInStep /\ pc[p] = "buffer"
  BY DEF Steady, Typed, OpenBuffer
<1>2. \/ pc'[p] = FirstLabel(p) /\ err'[p] = err[p] /\ buf'[p] = <<>>
      \/ pc'[p] = "cleanup" /\ err'[p] = "io"
  BY <1>1, Moves DEF OpenBuffer, TypeOK
<1>3. UNCHANGED <<idx, stage, out, alive, script, orig>>
  BY DEF OpenBuffer, program
<1>4. idx[p] = 1 /\ \A n \in StageFiles : stage[p][n] = NoFile
  BY <1>1 DEF Sound, FreshStage
<1>5. CASE pc'[p] = "cleanup"
  BY <1>2, <1>5, FailedSound DEF FirstLabel
<1>6. CASE pc'[p] = FirstLabel(p) /\ err'[p] = err[p] /\ buf'[p] = <<>>
  <2>1. pc'[p] = IF Staging(p) THEN "stageCsv" ELSE "exec"
    BY <1>6 DEF FirstLabel
  <2>2. Staging(p)' = Staging(p)
    BY <1>3 DEF Staging
  <2>3. CopiesFaithful(p, d)' /\ CopiesInHand(p, d)'
    BY <1>3, <1>4, <2>1, <2>2, StageNames DEF CopiesFaithful, CopiesInHand
  <2>4. FreshStage(p)' /\ PutInPlace(p)'
    BY <2>1 DEF FreshStage, PutInPlace
  <2>5. WorkDone(p, d)'
    <3>1. script[p] \in Seq(Statement) /\ Len(script[p]) \in Nat
      BY <1>1, LenProperties DEF TypeOK
    <3>2. Fresh(d) \in Progress(d, script[p])[0]
      BY <3>1, ProgressSteps
    <3>3. idx'[p] - 1 = 0
      BY <1>3, <1>4
    <3>4. Fresh(d).ok /\ Fresh(d).lines = <<>> /\ Fresh(d).dir = d
      BY DEF Fresh
    <3>5. \A n \in Uses(p) : View(p, d, n)' = d[n]
      BY <1>3, <1>4, UsesNames, StageNames DEF View
    <3>6. Fresh(d) \in Progress(d, script'[p])[idx'[p] - 1]
      BY <1>3, <3>2, <3>3
    <3> QED
      BY <1>6, <3>4, <3>5, <3>6 DEF WorkDone
  <2>6. NoStrayBackup(p)'
    BY <1>1, <1>3, NoBackupYet DEF Sound
  <2>7. Told(p, d)'
    BY <1>1, <1>3, <1>6, <2>1, StillSilent DEF Sound
  <2> QED
    BY <2>3, <2>4, <2>5, <2>6, <2>7 DEF Sound
<1> QED
  BY <1>2, <1>5, <1>6

\* A step of ensure_staged_table: one stage file at most is written, and holds
\* what was found.
LEMMA StagingSound ==
  ASSUME NEW p \in Procs, NEW d \in DataDir, Steady(p, d), Sound(p, d),
         pc[p] \in {"stageCsv", "copyCsv", "stageSchema"},
         pc'[p] \in StatementLabels, err'[p] = err[p],
         UNCHANGED <<orig, script, alive, idx, touched, out, buf>>,
         CopiesInHand(p, d)', NEW n \in TableFiles \cap StageFiles,
         \A m \in StageFiles : m # n => stage'[p][m] = stage[p][m],
         stage'[p][n] = stage[p][n] \/ (stage[p][n] = NoFile /\ stage'[p][n] = d[n]),
         \A i \in Index : Rollback(i) # n
  PROVE  Sound(p, d)'
<1> USE DEF EarlyLabels, StatementLabels, CommitLabels, UndoLabels, EndLabels, WorkLabels
<1>1. \A m \in Uses(p) : View(p, d, m)' = View(p, d, m)
  <2>1. Staging(p)' = Staging(p)
    BY DEF Staging
  <2> QED
    BY <2>1, UsesNames, StageNames DEF View
<1>2. CopiesFaithful(p, d)'
  <2>1. Touched(p)' = Touched(p)
    BY DEF Touched
  <2> QED
    BY <2>1, StageNames DEF Sound, CopiesFaithful
<1>3. WorkDone(p, d)'
  BY <1>1, WorkStands DEF Sound
<1>4. FreshStage(p)' /\ PutInPlace(p)'
  BY DEF FreshStage, PutInPlace
<1>5. NoStrayBackup(p)'
  BY NoBackupYet, StageNames DEF Sound
<1>6. Told(p, d)'
  BY StillSilent DEF Sound
<1> QED
  BY <1>2, <1>3, <1>4, <1>5, <1>6 DEF Sound

\* ensure_staged_table, recording the names.
LEMMA StageCsvSound ==
  ASSUME NEW p \in Procs, NEW d \in DataDir, Undoable, Steady(p, d), Sound(p, d), StageCsv(p)
  PROVE  Sound(p, d)'
<1> DEFINE n == Csv(Stmt(p).table)
<1>1. TypeOK /\ ListsInStep /\ pc[p] = "stageCsv" /\ script[p] \in ScriptsOf[p]
  BY DEF Steady, Typed, StageCsv, WritesAreStaged
<1>2. n \in Uses(p) /\ n \in TableFiles /\ n \in StageFiles
  BY <1>1, HandUses, UsesNames DEF StatementLabels
<1>3. Proceed(p, CopyLabel(WantsCopy(p, n)))
  BY NoSuchFault DEF StageCsv, GivesUp
<1>4. pc'[p] = CopyLabel(WantsCopy(p, n)) /\ err'[p] = err[p]
  BY <1>1, <1>3, Moves
<1>5. UNCHANGED <<orig, script, alive, live, idx, stage, touched, out, buf>>
  BY DEF StageCsv, program, lists, output
<1>6. live[n] = d[n]
  BY <1>1, <1>2 DEF Steady, Guarded, OriginalsKept, AsFound, EarlyLabels, StatementLabels
<1>7. CopiesInHand(p, d)'
  <2>1. Csv(Stmt(p).table)' = n
    BY <1>5 DEF Stmt
  <2> HIDE DEF n
  <2> QED
    BY <1>4, <1>5, <1>6, <2>1 DEF CopiesInHand, CopyLabel, WantsCopy
<1>8. pc'[p] \in StatementLabels
  BY <1>4 DEF CopyLabel, StatementLabels
<1> QED
  BY <1>1, <1>2, <1>4, <1>5, <1>7, <1>8, OwnBackups, StagingSound

\* ensure_staged_table, copying the CSV file.
LEMMA CopyCsvSound ==
  ASSUME NEW p \in Procs, NEW d \in DataDir, Undoable, Steady(p, d), Sound(p, d), CopyCsv(p)
  PROVE  Sound(p, d)'
<1> DEFINE n == Csv(Stmt(p).table)
<1>1. TypeOK /\ ListsInStep /\ pc[p] = "copyCsv" /\ script[p] \in ScriptsOf[p]
  BY DEF Steady, Typed, CopyCsv, WritesAreStaged
<1>2. n \in Uses(p) /\ n \in TableFiles /\ n \in StageFiles
  BY <1>1, HandUses, UsesNames DEF StatementLabels
<1>3. \/ /\ live[n] # NoFile /\ PutStaged(p, n, live[n])
         /\ pc'[p] = "stageSchema" /\ err'[p] = err[p]
      \/ pc'[p] = "cleanup" /\ err'[p] = "io"
  BY <1>1, Moves DEF CopyCsv
<1>4. UNCHANGED <<orig, script, alive, idx, touched, out, buf>>
  BY DEF CopyCsv, program, lists, output
<1>5. CASE pc'[p] = "cleanup"
  BY <1>3, <1>5, FailedSound
<1>6. CASE /\ live[n] # NoFile /\ PutStaged(p, n, live[n])
           /\ pc'[p] = "stageSchema" /\ err'[p] = err[p]
  <2>1. live[n] = d[n]
    BY <1>1, <1>2 DEF Steady, Guarded, OriginalsKept, AsFound, EarlyLabels, StatementLabels
  <2>2. stage'[p][n] = d[n] /\ \A m \in StageFiles : m # n => stage'[p][m] = stage[p][m]
    BY <1>1, <1>2, <1>6, <2>1, OneStaged
  <2>3. stage[p][n] = NoFile
    BY <1>1 DEF Sound, CopiesInHand
  <2>4. CopiesInHand(p, d)'
    <3>1. Csv(Stmt(p).table)' = n
      BY <1>4 DEF Stmt
    <3> HIDE DEF n
    <3> QED
      BY <1>6, <2>1, <2>2, <3>1 DEF CopiesInHand
  <2>5. pc'[p] \in StatementLabels
    BY <1>6 DEF StatementLabels
  <2> QED
    BY <1>1, <1>2, <1>4, <1>6, <2>2, <2>3, <2>4, <2>5, OwnBackups, StagingSound
<1> QED
  BY <1>3, <1>5, <1>6

\* ensure_staged_table, copying the schema file.
LEMMA StageSchemaSound ==
  ASSUME NEW p \in Procs, NEW d \in DataDir, Undoable, Steady(p, d), Sound(p, d), StageSchema(p)
  PROVE  Sound(p, d)'
<1> DEFINE n == Csv(Stmt(p).table)
           h == Schema(Stmt(p).table)
<1>1. TypeOK /\ ListsInStep /\ pc[p] = "stageSchema" /\ script[p] \in ScriptsOf[p]
  BY DEF Steady, Typed, StageSchema, WritesAreStaged
<1>2. h \in Uses(p) /\ h \in TableFiles /\ h \in StageFiles /\ n \in StageFiles /\ n # h
  BY <1>1, HandUses, UsesNames DEF StatementLabels
<1>3. \/ /\ IF WantsCopy(p, h) THEN PutStaged(p, h, live[h]) ELSE UNCHANGED stage
         /\ pc'[p] = "exec" /\ err'[p] = err[p]
      \/ pc'[p] = "cleanup" /\ err'[p] = "io"
  BY <1>1, Moves, NoSuchFault DEF StageSchema, GivesUp
<1>4. UNCHANGED <<orig, script, alive, idx, touched, out, buf>>
  BY DEF StageSchema, program, lists, output
<1>5. CASE pc'[p] = "cleanup"
  BY <1>3, <1>5, FailedSound
<1>6. CASE /\ IF WantsCopy(p, h) THEN PutStaged(p, h, live[h]) ELSE UNCHANGED stage
           /\ pc'[p] = "exec" /\ err'[p] = err[p]
  <2>1. live[h] = d[h]
    BY <1>1, <1>2 DEF Steady, Guarded, OriginalsKept, AsFound, EarlyLabels, StatementLabels
  <2>2. /\ \A m \in StageFiles : m # h => stage'[p][m] = stage[p][m]
        /\ stage'[p][h] = stage[p][h] \/ (stage[p][h] = NoFile /\ stage'[p][h] = d[h])
        /\ stage'[p][h] = NoFile => d[h] = NoFile
    <3>1. CASE WantsCopy(p, h)
      <4>1. stage'[p][h] = d[h] /\ \A m \in StageFiles : m # h => stage'[p][m] = stage[p][m]
        BY <1>1, <1>2, <1>6, <2>1, <3>1, OneStaged
      <4> QED
        BY <3>1, <4>1 DEF WantsCopy
    <3>2. CASE ~WantsCopy(p, h)
      BY <1>6, <2>1, <3>2 DEF WantsCopy
    <3> QED
      BY <3>1, <3>2
  <2>3. CopiesInHand(p, d)'
    <3>1. Csv(Stmt(p).table)' = n /\ Schema(Stmt(p).table)' = h /\ Staging(p)' = Staging(p)
      BY <1>4 DEF Stmt, Staging
    <3>2. Staging(p) /\ stage[p][n] = NoFile => d[n] = NoFile
      BY <1>1 DEF Sound, CopiesInHand
    <3>3. stage'[p][n] = stage[p][n]
      BY <1>2, <2>2
    <3> HIDE DEF n, h
    <3> QED
      BY <1>4, <1>6, <2>2, <3>1, <3>2, <3>3 DEF CopiesInHand
  <2>4. pc'[p] \in StatementLabels
    BY <1>6 DEF StatementLabels
  <2> QED
    BY <1>1, <1>2, <1>4, <1>6, <2>2, <2>3, <2>4, OwnBackups, StagingSound
<1> QED
  BY <1>3, <1>5, <1>6

----------------------------------------------------------------------------
(***************************************************************************)
(* The statements.                                                         *)
(***************************************************************************)
\* A statement sees the files as the statements before it have left them.
LEMMA ExecSeesView ==
  ASSUME NEW p \in Procs, NEW d \in DataDir, Steady(p, d), Sound(p, d), pc[p] = "exec"
  PROVE  /\ ExecDir(p)[Csv(Stmt(p).table)] = View(p, d, Csv(Stmt(p).table))
         /\ ExecDir(p)[Schema(Stmt(p).table)] = View(p, d, Schema(Stmt(p).table))
<1> DEFINE n == Csv(Stmt(p).table)
           h == Schema(Stmt(p).table)
<1>1. TypeOK /\ ListsInStep /\ script[p] \in ScriptsOf[p]
  BY DEF Steady, Typed, WritesAreStaged
<1>2. n \in Uses(p) /\ h \in Uses(p)
  BY <1>1, HandUses DEF StatementLabels
<1>3. AsFound(p, d)
  BY DEF Steady, Guarded, OriginalsKept, EarlyLabels, StatementLabels
<1>4. live[n] = d[n] /\ live[h] = d[h]
  BY <1>2, <1>3 DEF AsFound
<1>5. Staging(p) => (stage[p][n] = NoFile => d[n] = NoFile) /\ (stage[p][h] = NoFile => d[h] = NoFile)
  BY DEF Sound, CopiesInHand
<1> HIDE DEF n, h
<1>6. ExecDir(p)[n] = View(p, d, n) /\ ExecDir(p)[h] = View(p, d, h)
  BY <1>4, <1>5 DEF ExecDir, View
<1> QED
  BY <1>6 DEF n, h

\* A statement that takes effect does to the stage what it is to do to the tables.
LEMMA PerformDoes ==
  ASSUME NEW p \in Procs, NEW d \in DataDir, Steady(p, d), Sound(p, d), pc[p] = "exec",
         Perform(p, View(p, d, Schema(Stmt(p).table)), View(p, d, Csv(Stmt(p).table))),
         UNCHANGED <<orig, script>>
  PROVE  /\ idx'[p] = idx[p] + 1
         /\ \E r \in Progress(d, script[p])[idx[p]] :
              r.ok /\ r.lines = buf'[p] /\ \A n \in Uses(p) : r.dir[n] = View(p, d, n)'
<1> DEFINE n == Csv(Stmt(p).table)
           h == Schema(Stmt(p).table)
           i == idx[p]
           s == script[p]
<1>1. TypeOK /\ ListsInStep /\ s \in ScriptsOf[p] /\ s \in Seq(Statement) /\ d \in DataDir
  BY DEF Steady, Typed, WritesAreStaged, TypeOK
<1>2. /\ n \in Uses(p) /\ h \in Uses(p) /\ n \in CsvFiles /\ n \in StageFiles
      /\ i \in DOMAIN s /\ i \in 1 .. Len(s)
  BY <1>1, HandUses DEF StatementLabels
<1>3. PICK q \in Progress(d, s)[i - 1] : q.ok /\ q.lines = buf[p] /\ \A m \in Uses(p) : q.dir[m] = View(p, d, m)
  BY DEF Sound, WorkDone, WorkLabels, StatementLabels
<1>4. q \in ScriptState
  <2>1. i - 1 \in 0 .. Len(s)
    BY <1>1, <1>2, LenProperties
  <2> QED
    BY <1>1, <1>3, <2>1, ProgressType
<1>5. Stmt(p) = s[i] /\ Stmt(p) \in Statement
  BY <1>1, <1>2, StmtAtHand DEF Stmt, StatementLabels
<1>6. q.dir[n] = View(p, d, n) /\ q.dir[h] = View(p, d, h)
  BY <1>2, <1>3
<1>7. Accepts(q.dir[h], q.dir[n], Stmt(p))
  BY <1>6 DEF Perform
<1> DEFINE r == Do(q, Stmt(p))
<1>8. r \in Progress(d, s)[i]
  <2>1. Len(s) \in Nat
    BY <1>1, LenProperties
  <2>2. Progress(d, s)[i] = {Do(st, s[i]) : st \in Progress(d, s)[i - 1]}
    BY <1>2, <2>1, ProgressSteps
  <2> QED
    BY <1>3, <1>5, <2>2
<1>9. /\ r.ok
      /\ r.lines = q.lines \o Reply(q.dir[h], q.dir[n], Stmt(p))
      /\ r.dir[n] = FileAfter(q.dir[h], q.dir[n], Stmt(p))
      /\ \A m \in TableFiles : m # n => r.dir[m] = q.dir[m]
  BY <1>3, <1>4, <1>5, <1>7, DoAccepted
<1> HIDE DEF r
<1>10. idx'[p] = i + 1 /\ buf'[p] = buf[p] \o Reply(View(p, d, h), View(p, d, n), Stmt(p))
  BY <1>1 DEF Perform, TypeOK
<1>11. r.lines = buf'[p]
  BY <1>3, <1>6, <1>9, <1>10
<1>12. \A m \in Uses(p) : r.dir[m] = View(p, d, m)'
  <2>1. Staging(p)' = Staging(p)
    BY DEF Staging
  <2>2. CASE Stmt(p).kind = "INSERT"
    <3> DEFINE f == FileAfter(View(p, d, h), View(p, d, n), Stmt(p))
    <3>1. PutStaged(p, n, f)
      BY <2>2 DEF Perform
    <3>2. f \in Content /\ r.dir[n] = f
      <4>1. View(p, d, h) \in File /\ View(p, d, n) \in File
        BY <1>2, <1>4, <1>6, UsesNames DEF ScriptState, DataDir
      <4>2. AppendAccepts(View(p, d, h), View(p, d, n), Stmt(p))
        BY <1>6, <1>7, <2>2 DEF Accepts
      <4> QED
        BY <1>5, <1>6, <1>9, <2>2, <4>1, <4>2, AppendedFileType DEF FileAfter
    <3>3. Staging(p)
      BY <1>2, <1>5, <2>2 DEF Staging
    <3> HIDE DEF f
    <3>4. stage'[p][n] = f /\ \A m \in StageFiles : m # n => stage'[p][m] = stage[p][m]
      BY <1>1, <1>2, <3>1, OneStaged
    <3>5. ASSUME NEW m \in Uses(p), m = n
          PROVE  r.dir[m] = View(p, d, m)'
      <4>1. stage'[p][m] = f /\ f # NoFile
        BY <3>2, <3>4, <3>5, NoFileIsNoContent
      <4>2. View(p, d, m)' = f
        BY <2>1, <3>3, <4>1 DEF View
      <4> QED
        BY <3>2, <3>5, <4>2
    <3>6. ASSUME NEW m \in Uses(p), m # n
          PROVE  r.dir[m] = View(p, d, m)'
      <4>1. m \in TableFiles /\ m \in StageFiles
        BY UsesNames, StageNames
      <4>2. View(p, d, m)' = View(p, d, m)
        BY <2>1, <3>4, <3>6, <4>1 DEF View
      <4> QED
        BY <1>3, <1>9, <3>6, <4>1, <4>2
    <3> QED
      BY <3>5, <3>6
  <2>3. CASE Stmt(p).kind # "INSERT"
    <3>1. UNCHANGED stage
      BY <2>3 DEF Perform
    <3>2. r.dir[n] = q.dir[n]
      BY <1>9, <2>3 DEF FileAfter
    <3>3. ASSUME NEW m \in Uses(p)
          PROVE  r.dir[m] = View(p, d, m)'
      <4>1. View(p, d, m)' = View(p, d, m)
        BY <2>1, <3>1 DEF View
      <4>2. r.dir[m] = q.dir[m]
        BY <1>9, <3>2, UsesNames
      <4> QED
        BY <1>3, <4>1, <4>2
    <3> QED
      BY <3>3
  <2> QED
    BY <2>2, <2>3
<1> QED
  BY <1>8, <1>9, <1>10, <1>11, <1>12

\* A statement that takes effect.
LEMMA PerformSound ==
  ASSUME NEW p \in Procs, NEW d \in DataDir, Steady(p, d), Sound(p, d), pc[p] = "exec",
         Perform(p, View(p, d, Schema(Stmt(p).table)), View(p, d, Csv(Stmt(p).table))),
         UNCHANGED <<orig, script, alive, live, committed, hadOriginal, out>>, Typed',
         NamesFree
  PROVE  Sound(p, d)'
<1> USE DEF EarlyLabels, StatementLabels, CommitLabels, UndoLabels, EndLabels, WorkLabels
<1>1. TypeOK /\ ListsInStep /\ script[p] \in ScriptsOf[p] /\ script[p] \in Seq(Statement)
      /\ idx[p] \in Nat /\ Len(script[p]) \in Nat /\ idx[p] <= Len(script[p]) /\ committed[p] = 0
  <2>1. TypeOK /\ ListsInStep /\ script[p] \in ScriptsOf[p]
    BY DEF Steady, Typed, WritesAreStaged
  <2>2. script[p] \in Seq(Statement) /\ idx[p] \in Nat
    BY <2>1 DEF TypeOK
  <2>3. idx[p] <= Len(script[p]) /\ committed[p] = 0
    BY <2>1 DEF ListsInStep, InStep
  <2> QED
    BY <2>1, <2>2, <2>3, LenProperties
<1>2. pc'[p] = NextLabel(p) /\ err'[p] = err[p]
  BY <1>1, Moves DEF Perform
<1>3. /\ idx'[p] = idx[p] + 1
      /\ \E r \in Progress(d, script[p])[idx[p]] :
           r.ok /\ r.lines = buf'[p] /\ \A n \in Uses(p) : r.dir[n] = View(p, d, n)'
  BY PerformDoes
<1>4. Staging(p)' = Staging(p)
  BY DEF Staging
<1>5. \/ pc'[p] = FirstLabel(p)
      \/ pc'[p] = (IF Staging(p) THEN "commitCopy" ELSE "flush") /\ idx[p] = Len(script[p])
  BY <1>1, <1>2 DEF NextLabel
<1>6. WorkDone(p, d)'
  <2>1. idx'[p] - 1 = idx[p]
    BY <1>1, <1>3
  <2> HIDE DEF View
  <2> QED
    BY <1>3, <2>1 DEF WorkDone
<1>7. FreshStage(p)'
  BY <1>5 DEF FreshStage, FirstLabel
<1>8. CopiesInHand(p, d)'
  BY <1>4, <1>5 DEF CopiesInHand, FirstLabel
<1>9. /\ \A m \in TableFiles \ Touched(p)' : stage'[p][m] = stage[p][m] /\ m \notin Touched(p)
      /\ \A i \in Index : stage'[p][Rollback(i)] = stage[p][Rollback(i)]
      /\ ~Staging(p) => touched'[p] = <<>>
  <2>1. CASE Stmt(p).kind = "INSERT"
    <3> DEFINE n == Csv(Stmt(p).table)
               f == FileAfter(View(p, d, Schema(Stmt(p).table)), View(p, d, n), Stmt(p))
    <3>1. n \in CsvFiles /\ n \in StageFiles /\ n \in TableFiles /\ idx[p] \in DOMAIN script[p]
      BY <1>1, HandUses, StageNames
    <3>2. PutStaged(p, n, f) /\ touched'[p] = AppendUnique(touched[p], n)
      BY <1>1, <2>1 DEF Perform, TypeOK
    <3>3. Staging(p)
      BY <2>1, <3>1 DEF Staging, Stmt
    <3> HIDE DEF f, n
    <3>4. \A m \in StageFiles : m # n => stage'[p][m] = stage[p][m]
      BY <1>1, <3>1, <3>2, OneStaged
    <3>5. touched[p] \in Seq(CsvFiles)
      BY <1>1 DEF TypeOK
    <3>6. n \in Touched(p)' /\ Touched(p) \subseteq Touched(p)'
      <4>1. CASE \E k \in DOMAIN touched[p] : touched[p][k] = n
        BY <3>2, <4>1 DEF AppendUnique, Touched
      <4>2. CASE touched'[p] = Append(touched[p], n)
        <5>1. /\ Len(touched[p]) + 1 \in DOMAIN touched'[p]
              /\ touched'[p][Len(touched[p]) + 1] = n
              /\ \A k \in DOMAIN touched[p] : k \in DOMAIN touched'[p] /\ touched'[p][k] = touched[p][k]
          BY <3>1, <3>5, <4>2, AppendProperties, LenProperties
        <5> QED
          BY <5>1 DEF Touched
      <4> QED
        BY <3>2, <4>1, <4>2 DEF AppendUnique
    <3>7. \A i \in Index : Rollback(i) # n /\ Rollback(i) \in StageFiles
      BY <3>1, StageNames DEF NamesFree
    <3> QED
      BY <3>3, <3>4, <3>6, <3>7, StageNames
  <2>2. CASE Stmt(p).kind # "INSERT"
    <3>1. UNCHANGED <<stage, touched>>
      BY <2>2 DEF Perform
    <3>2. ~Staging(p) => touched[p] = <<>>
      BY DEF Steady, WritesAreStaged
    <3> QED
      BY <3>1, <3>2 DEF Touched
  <2> QED
    BY <2>1, <2>2
<1>10. CopiesFaithful(p, d)'
  BY <1>9 DEF Sound, CopiesFaithful
<1>11. PutInPlace(p)'
  <2>1. pc'[p] \in EndLabels => idx'[p] = Len(script'[p]) + 1 /\ committed'[p] = 0
    BY <1>1, <1>3, <1>5 DEF FirstLabel
  <2>2. pc'[p] = "flush" => committed'[p] = Len(touched'[p])
    BY <1>1, <1>5, <1>9, EmptySeq DEF FirstLabel
  <2>3. pc'[p] \notin {"commitCheck", "backup", "replace"}
    BY <1>5 DEF FirstLabel
  <2> QED
    BY <2>1, <2>2, <2>3 DEF PutInPlace
<1>12. NoStrayBackup(p)'
  BY <1>9, NoBackupYet DEF Sound
<1>13. Told(p, d)'
  <2>1. pc'[p] \notin {"cleanup", "done"}
    BY <1>5 DEF FirstLabel
  <2> QED
    BY <1>2, <2>1, StillSilent DEF Sound
<1> QED
  BY <1>6, <1>7, <1>8, <1>10, <1>11, <1>12, <1>13 DEF Sound

\* execute_statement_unstaged.
LEMMA ExecuteStatementSound ==
  ASSUME NEW p \in Procs, NEW d \in DataDir, Undoable, Steady(p, d), Sound(p, d),
         ExecuteStatement(p), Typed'
  PROVE  Sound(p, d)'
<1> DEFINE n == Csv(Stmt(p).table)
           h == Schema(Stmt(p).table)
<1>1. TypeOK /\ pc[p] = "exec"
  BY DEF Steady, Typed, ExecuteStatement
<1>2. ExecDir(p)[n] = View(p, d, n) /\ ExecDir(p)[h] = View(p, d, h)
  BY <1>1, ExecSeesView
<1>3. Perform(p, View(p, d, h), View(p, d, n)) \/ Fail(p, "statement", "cleanup") \/ Fail(p, "io", "cleanup")
  <2>1. ~Fault("exists")
    BY NoSuchFault DEF GivesUp
  <2> QED
    BY <1>2, <2>1 DEF ExecuteStatement, Reject
<1>4. CASE Fail(p, "statement", "cleanup") \/ Fail(p, "io", "cleanup")
  <2>1. pc'[p] = "cleanup" /\ err'[p] # "none"
    BY <1>1, <1>4, Moves
  <2> QED
    BY <2>1, FailedSound
<1>5. UNCHANGED <<orig, script, alive, live, committed, hadOriginal, out>>
  BY DEF ExecuteStatement, program
<1> QED
  BY <1>1, <1>3, <1>4, <1>5, PerformSound DEF Undoable

----------------------------------------------------------------------------
(***************************************************************************)
(* The commit.                                                             *)
(***************************************************************************)
\* A step of the commit that writes reserved stage files only.
LEMMA CommitStands ==
  ASSUME NEW p \in Procs, NEW d \in DataDir, Sound(p, d), pc[p] \in EndLabels,
         pc'[p] \in EndLabels, err'[p] = err[p],
         UNCHANGED <<orig, script, alive, idx, touched, out, buf>>,
         \A n \in TableFiles : stage'[p][n] = stage[p][n],
         PutInPlace(p)', NoStrayBackup(p)'
  PROVE  Sound(p, d)'
<1> USE DEF EndLabels, WorkLabels
<1>1. \A n \in Uses(p) : View(p, d, n)' = View(p, d, n)
  <2>1. Staging(p)' = Staging(p)
    BY DEF Staging
  <2> QED
    BY <2>1, UsesNames DEF View
<1>2. WorkDone(p, d)'
  BY <1>1, WorkStands DEF Sound
<1>3. CopiesFaithful(p, d)'
  <2>1. Touched(p)' = Touched(p)
    BY DEF Touched
  <2> QED
    BY <2>1 DEF Sound, CopiesFaithful
<1>4. FreshStage(p)' /\ CopiesInHand(p, d)'
  BY DEF FreshStage, CopiesInHand
<1>5. Told(p, d)'
  BY StillSilent DEF Sound
<1> QED
  BY <1>2, <1>3, <1>4, <1>5 DEF Sound

\* The reserved files are apart from those of the tables, and from each other.
LEMMA ReservedInHand ==
  ASSUME NEW p \in Procs, NEW d \in DataDir, Undoable, Steady(p, d), pc[p] \in CommitLabels
  PROVE  /\ committed[p] \in Index
         /\ Target(p) \in TableFiles /\ Target(p) \in StageFiles
         /\ Backup(p) \in StageFiles /\ Temp(p) \in StageFiles /\ Backup(p) # Temp(p)
         /\ \A n \in TableFiles : n \in StageFiles /\ n # Backup(p) /\ n # Temp(p)
         /\ \A i \in Index : Rollback(i) \in StageFiles /\ Rollback(i) # Temp(p)
<1>1. committed[p] \in Index
  BY FileInHand DEF Steady, Typed
<1>2. Target(p) \in TableFiles /\ Target(p) \in StageFiles
  BY ReservedApart DEF Steady
<1>3. \A n \in TableFiles : n # Backup(p) /\ n # Temp(p)
  BY <1>1, OwnBackups DEF Backup, Temp
<1>4. \A i \in Index : Rollback(i) # Temp(p)
  BY <1>1, ReservedNamesDistinct DEF Temp
<1> QED
  BY <1>1, <1>2, <1>3, <1>4, StageNames DEF Backup, Temp

\* The touched CSV files before the one in hand are other ones.
LEMMA EarlierTouched ==
  ASSUME NEW p \in Procs, NEW d \in DataDir, Undoable, Steady(p, d), pc[p] \in CommitLabels,
         NEW k \in 1 .. committed[p]
  PROVE  touched[p][k] \in TableFiles /\ touched[p][k] # Target(p)
<1>1. k \in DOMAIN touched[p] /\ touched[p][k] # Target(p)
  BY ReservedApart DEF Steady
<1> QED
  BY <1>1, TouchedNames DEF Steady, Typed

\* commit_staged_csvs, copying the staged file.
LEMMA CommitCopySound ==
  ASSUME NEW p \in Procs, NEW d \in DataDir, Undoable, Steady(p, d), Sound(p, d), CommitCopy(p)
  PROVE  Sound(p, d)'
<1> USE DEF EarlyLabels, StatementLabels, CommitLabels, UndoLabels, EndLabels
<1>1. TypeOK /\ pc[p] = "commitCopy"
  BY DEF Steady, Typed, CommitCopy
<1>2. UNCHANGED <<live, orig, script, alive, idx, touched, committed, hadOriginal, out, buf>>
  BY DEF CommitCopy, program, lists, output
<1>3. \/ pc'[p] = "commitCheck" /\ err'[p] = err[p] /\ PutStaged(p, Temp(p), CopiedForCommit(p))
      \/ pc'[p] = "cleanup" /\ err'[p] = "io"
  BY <1>1, Moves DEF CommitCopy
<1>4. CASE pc'[p] = "cleanup"
  BY <1>3, <1>4, FailedSound
<1>5. CASE pc'[p] = "commitCheck" /\ err'[p] = err[p] /\ PutStaged(p, Temp(p), CopiedForCommit(p))
  <2>1. CopiedForCommit(p) = stage[p][Target(p)]
    BY <1>1, ReservedInHand DEF CopiedForCommit
  <2>2. /\ stage'[p][Temp(p)] = stage[p][Target(p)]
        /\ \A m \in StageFiles : m # Temp(p) => stage'[p][m] = stage[p][m]
    BY <1>1, <1>5, <2>1, ReservedInHand, OneStaged
  <2>3. /\ \A n \in TableFiles : stage'[p][n] = stage[p][n]
        /\ \A i \in Index : stage'[p][Rollback(i)] = stage[p][Rollback(i)]
    BY <1>1, <2>2, ReservedInHand
  <2>4. PutInPlace(p)'
    <3>1. Temp(p)' = Temp(p) /\ Target(p)' = Target(p)
      BY <1>2 DEF Temp, Target
    <3>2. stage'[p][Temp(p)'] = stage'[p][Target(p)']
      BY <1>1, <2>2, <2>3, <3>1, ReservedInHand
    <3>3. \A k \in 1 .. committed[p] : live[touched[p][k]] = stage'[p][touched[p][k]]
      BY <1>1, <2>3, EarlierTouched DEF Sound, PutInPlace
    <3>4. idx'[p] = Len(script'[p]) + 1
      BY <1>1, <1>2 DEF Sound, PutInPlace
    <3> QED
      BY <1>2, <1>5, <3>2, <3>3, <3>4 DEF PutInPlace
  <2>5. NoStrayBackup(p)'
    BY <1>1, <1>2, <1>5, <2>3 DEF Sound, NoStrayBackup
  <2> QED
    BY <1>1, <1>2, <1>5, <2>3, <2>4, <2>5, CommitStands
<1> QED
  BY <1>3, <1>4, <1>5

\* commit_staged_csvs, looking for an original.
LEMMA CommitCheckSound ==
  ASSUME NEW p \in Procs, NEW d \in DataDir, Undoable, Steady(p, d), Sound(p, d), CommitCheck(p)
  PROVE  Sound(p, d)'
<1> USE DEF EarlyLabels, StatementLabels, CommitLabels, UndoLabels, EndLabels
<1>1. TypeOK /\ pc[p] = "commitCheck"
  BY DEF Steady, Typed, CommitCheck
<1>2. UNCHANGED <<live, orig, script, alive, idx, stage, touched, committed, out, buf>>
  BY DEF CommitCheck, program, output
<1>3. pc'[p] \in {"backup", "replace"} /\ err'[p] = err[p] /\ hadOriginal[p] \subseteq hadOriginal'[p]
  <2>1. pc'[p] \in {"backup", "replace"} /\ err'[p] = err[p]
    BY <1>1, Moves DEF CommitCheck
  <2>2. hadOriginal[p] \subseteq hadOriginal'[p]
    BY <1>1 DEF CommitCheck, TypeOK
  <2> QED
    BY <2>1, <2>2
<1>4. PutInPlace(p)'
  <2>1. Temp(p)' = Temp(p) /\ Target(p)' = Target(p)
    BY <1>2 DEF Temp, Target
  <2> QED
    BY <1>1, <1>2, <1>3, <2>1 DEF Sound, PutInPlace
<1>5. NoStrayBackup(p)'
  BY <1>1, <1>2, <1>3 DEF Sound, NoStrayBackup
<1> QED
  BY <1>1, <1>2, <1>3, <1>4, <1>5, CommitStands

\* commit_staged_csvs, moving the original away.
LEMMA BackUpOriginalSound ==
  ASSUME NEW p \in Procs, NEW d \in DataDir, Undoable, Steady(p, d), Sound(p, d), BackUpOriginal(p)
  PROVE  Sound(p, d)'
<1> USE DEF EarlyLabels, StatementLabels, CommitLabels, UndoLabels, EndLabels
<1>1. TypeOK /\ pc[p] = "backup"
  BY DEF Steady, Typed, BackUpOriginal
<1>2. UNCHANGED <<orig, script, alive, idx, touched, committed, hadOriginal, out, buf>>
  BY DEF BackUpOriginal, program, lists, output
<1>3. \/ /\ pc'[p] = "replace" /\ err'[p] = err[p]
         /\ PutStaged(p, Backup(p), live[Target(p)]) /\ PutLive(Target(p), NoFile)
      \/ pc'[p] = "cleanup" /\ err'[p] = "io"
  BY <1>1, Moves DEF BackUpOriginal
<1>4. CASE pc'[p] = "cleanup"
  BY <1>3, <1>4, FailedSound
<1>5. CASE /\ pc'[p] = "replace" /\ err'[p] = err[p]
           /\ PutStaged(p, Backup(p), live[Target(p)]) /\ PutLive(Target(p), NoFile)
  <2>1. \A m \in StageFiles : m # Backup(p) => stage'[p][m] = stage[p][m]
    BY <1>1, <1>5, ReservedInHand, OneStaged
  <2>2. \A m \in TableFiles : m # Target(p) => live'[m] = live[m]
    BY <1>1, <1>5, ReservedInHand, OneLive
  <2>3. \A n \in TableFiles : stage'[p][n] = stage[p][n]
    BY <1>1, <2>1, ReservedInHand
  <2>4. PutInPlace(p)'
    <3>1. Temp(p)' = Temp(p) /\ Target(p)' = Target(p)
      BY <1>2 DEF Temp, Target
    <3>2. stage'[p][Temp(p)] = stage[p][Temp(p)] /\ stage'[p][Target(p)] = stage[p][Target(p)]
      BY <1>1, <2>1, ReservedInHand
    <3>3. \A k \in 1 .. committed[p] : live'[touched[p][k]] = stage'[p][touched[p][k]]
      BY <1>1, <2>2, <2>3, EarlierTouched DEF Sound, PutInPlace
    <3> QED
      BY <1>1, <1>2, <1>5, <3>1, <3>2, <3>3 DEF Sound, PutInPlace
  <2>5. NoStrayBackup(p)'
    <3> SUFFICES ASSUME NEW i \in Index, stage'[p][Rollback(i)] # NoFile
                 PROVE  i \in hadOriginal[p] /\ (i < committed[p] \/ i = committed[p])
      BY <1>2, <1>5 DEF NoStrayBackup
    <3>1. CASE i = committed[p]
      BY <1>1, <3>1 DEF Steady, Guarded, OriginalsKept
    <3>2. CASE i # committed[p]
      <4>1. Rollback(i) # Backup(p) /\ Rollback(i) \in StageFiles
        BY <1>1, <3>2, ReservedInHand, ReservedNamesDistinct DEF Backup
      <4>2. stage[p][Rollback(i)] # NoFile
        BY <2>1, <4>1
      <4> QED
        BY <1>1, <4>2 DEF Sound, NoStrayBackup
    <3> QED
      BY <3>1, <3>2
  <2> QED
    BY <1>1, <1>2, <1>5, <2>3, <2>4, <2>5, CommitStands
<1> QED
  BY <1>3, <1>4, <1>5

\* commit_staged_csvs, moving the copy into place.
LEMMA ReplaceSound ==
  ASSUME NEW p \in Procs, NEW d \in DataDir, Undoable, Steady(p, d), Sound(p, d), Replace(p)
  PROVE  Sound(p, d)'
<1> USE DEF EarlyLabels, StatementLabels, CommitLabels, UndoLabels, EndLabels
<1>1. TypeOK /\ ListsInStep /\ pc[p] = "replace" /\ committed[p] \in Nat /\ Len(touched[p]) \in Nat
  <2>1. TypeOK /\ ListsInStep /\ pc[p] = "replace"
    BY DEF Steady, Typed, Replace
  <2>2. committed[p] \in Nat /\ touched[p] \in Seq(CsvFiles)
    BY <2>1, MaxStatementsIsPositive DEF TypeOK
  <2> QED
    BY <2>1, <2>2, LenProperties
<1>2. UNCHANGED <<orig, script, alive, idx, touched, hadOriginal, out, buf>>
  BY DEF Replace, program, output
<1>3. CASE /\ PutLive(Target(p), stage[p][Temp(p)])
           /\ PutStaged(p, Temp(p), NoFile)
           /\ committed' = [committed EXCEPT ![p] = @ + 1]
           /\ Proceed(p, IF committed[p] + 1 < Len(touched[p]) THEN "commitCopy" ELSE "flush")
  <2>1. /\ pc'[p] = (IF committed[p] + 1 < Len(touched[p]) THEN "commitCopy" ELSE "flush")
        /\ err'[p] = err[p] /\ committed'[p] = committed[p] + 1
    BY <1>1, <1>3, Moves DEF TypeOK
  <2>2. \A m \in StageFiles : m # Temp(p) => stage'[p][m] = stage[p][m]
    BY <1>1, <1>3, ReservedInHand, OneStaged
  <2>3. /\ live'[Target(p)] = stage[p][Temp(p)]
        /\ \A m \in TableFiles : m # Target(p) => live'[m] = live[m]
    BY <1>1, <1>3, ReservedInHand, OneLive
  <2>4. /\ \A n \in TableFiles : stage'[p][n] = stage[p][n]
        /\ \A i \in Index : stage'[p][Rollback(i)] = stage[p][Rollback(i)]
    BY <1>1, <2>2, ReservedInHand
  <2>5. PutInPlace(p)'
    <3>1. ASSUME NEW k \in 1 .. (committed[p] + 1)
          PROVE  live'[touched[p][k]] = stage'[p][touched[p][k]]
      <4>1. CASE k \in 1 .. committed[p]
        BY <1>1, <2>3, <2>4, <4>1, EarlierTouched DEF Sound, PutInPlace
      <4>2. CASE k = committed[p] + 1
        <5>1. touched[p][k] = Target(p) /\ stage[p][Temp(p)] = stage[p][Target(p)]
          BY <1>1, <4>2 DEF Target, Sound, PutInPlace
        <5> QED
          BY <1>1, <2>3, <2>4, <5>1, ReservedInHand
      <4> QED
        BY <1>1, <4>1, <4>2
    <3>2. pc'[p] = "flush" => committed'[p] = Len(touched[p])
      <4>1. committed[p] < Len(touched[p])
        BY <1>1 DEF ListsInStep, InStep
      <4> QED
        BY <1>1, <2>1, <4>1
    <3>3. idx[p] = Len(script[p]) + 1
      BY <1>1 DEF Sound, PutInPlace
    <3> QED
      BY <1>2, <2>1, <3>1, <3>2, <3>3 DEF PutInPlace
  <2>6. NoStrayBackup(p)'
    <3> SUFFICES ASSUME NEW i \in Index, stage'[p][Rollback(i)] # NoFile
                 PROVE  i \in hadOriginal[p] /\ i < committed[p] + 1
      BY <1>2, <2>1 DEF NoStrayBackup
    <3>1. i \in hadOriginal[p] /\ (i < committed[p] \/ i = committed[p])
      BY <1>1, <2>4 DEF Sound, NoStrayBackup
    <3>2. i \in Nat
      BY MaxStatementsIsPositive DEF Index
    <3> QED
      BY <1>1, <3>1, <3>2
  <2>7. pc'[p] \in EndLabels
    BY <2>1
  <2> QED
    BY <1>1, <1>2, <2>1, <2>4, <2>5, <2>6, <2>7, CommitStands
<1>4. CASE /\ Fail(p, "io", IF committed[p] \in hadOriginal[p] THEN "restore" ELSE "rollback")
           /\ UNCHANGED <<live, stage, committed>>
  <2>1. err'[p] = "io" /\ pc'[p] = IF committed[p] \in hadOriginal[p] THEN "restore" ELSE "rollback"
    BY <1>1, <1>4, Moves
  <2>2. NoStrayBackup(p)'
    <3> SUFFICES ASSUME NEW i \in Index, stage[p][Rollback(i)] # NoFile
                 PROVE  /\ i \in hadOriginal[p]
                        /\ i < committed[p] \/ (i = committed[p] /\ pc'[p] = "restore")
      BY <1>2, <1>4, <2>1 DEF NoStrayBackup
    <3>1. i \in hadOriginal[p] /\ (i < committed[p] \/ i = committed[p])
      BY <1>1 DEF Sound, NoStrayBackup
    <3> QED
      BY <2>1, <3>1
  <2> QED
    BY <2>1, <2>2, UndoingSound
<1> QED
  BY <1>3, <1>4 DEF Replace

\* When the output is due, the tables are what the whole script makes of them,
\* and the buffer is all it prints.
LEMMA FlushIsWhole ==
  ASSUME NEW p \in Procs, NEW d \in DataDir, Steady(p, d), Sound(p, d), pc[p] = "flush"
  PROVE  \E r \in Results(d, script[p]) :
           r.ok /\ r.lines = buf[p] /\ \A n \in Uses(p) : r.dir[n] = live[n]
<1> USE DEF EndLabels, WorkLabels
<1>1. TypeOK /\ ListsInStep /\ touched[p] \in Seq(CsvFiles) /\ script[p] \in Seq(Statement)
  BY DEF Steady, Typed, TypeOK
<1>2. idx[p] = Len(script[p]) + 1 /\ committed[p] = Len(touched[p])
  BY DEF Sound, PutInPlace
<1>3. idx[p] - 1 = Len(script[p])
  BY <1>1, <1>2, LenProperties
<1>4. PICK r \in Progress(d, script[p])[idx[p] - 1] :
        r.ok /\ r.lines = buf[p] /\ \A n \in Uses(p) : r.dir[n] = View(p, d, n)
  BY DEF Sound, WorkDone
<1>5. r \in Results(d, script[p])
  BY <1>3, <1>4 DEF Results
<1>6. ASSUME NEW n \in Uses(p)
      PROVE  View(p, d, n) = live[n]
  <2>1. n \in TableFiles
    BY UsesNames
  <2>2. CASE n \in Touched(p)
    <3>1. PICK k \in DOMAIN touched[p] : touched[p][k] = n
      BY <2>2 DEF Touched
    <3>2. k \in 1 .. committed[p]
      BY <1>1, <1>2, LenProperties
    <3>3. live[n] = stage[p][n]
      BY <3>1, <3>2 DEF Sound, PutInPlace
    <3>4. stage[p][n] # NoFile
      BY <3>1 DEF Steady, Guarded, TouchedStaged
    <3>5. Staging(p)
      <4>1. touched[p] # <<>>
        BY <1>1, <3>1, LenProperties, EmptySeq
      <4> QED
        BY <4>1 DEF Steady, WritesAreStaged
    <3> QED
      BY <3>3, <3>4, <3>5 DEF View
  <2>3. CASE n \notin Touched(p)
    <3>1. stage[p][n] \in {NoFile, d[n]}
      BY <2>1, <2>3 DEF Sound, CopiesFaithful
    <3>2. \A k \in 1 .. committed[p] : touched[p][k] # n
      BY <1>1, <1>2, <2>3, LenProperties DEF Touched
    <3>3. live[n] = d[n]
      BY <3>2 DEF Steady, Guarded, OriginalsKept, RestAsFound
    <3> QED
      BY <3>1, <3>3 DEF View
  <2> QED
    BY <2>2, <2>3
<1> HIDE DEF View
<1> QED
  BY <1>4, <1>5, <1>6

\* flush_and_copy_output.
LEMMA FlushSound ==
  ASSUME NEW p \in Procs, NEW d \in DataDir, Steady(p, d), Sound(p, d), Flush(p)
  PROVE  Sound(p, d)'
<1> USE DEF EarlyLabels, StatementLabels, CommitLabels, UndoLabels, EndLabels, WorkLabels
<1>1. TypeOK /\ pc[p] = "flush" /\ err[p] = "none"
  BY DEF Steady, Typed, Flush, Guarded, ErrorInStep, Labels
<1>2. UNCHANGED <<orig, script, alive, live, stage, committed, hadOriginal>>
  BY DEF Flush, program, lists
<1>3. \/ pc'[p] = "cleanup" /\ err'[p] = "none" /\ out'[p] = buf[p]
      \/ err'[p] = "output" /\ pc'[p] \in {"rollback", "cleanup"}
  BY <1>1, Moves DEF Flush, TypeOK
<1>4. CASE err'[p] = "output" /\ pc'[p] = "cleanup"
  BY <1>4, FailedSound
<1>5. CASE err'[p] = "output" /\ pc'[p] = "rollback"
  <2>1. NoStrayBackup(p)'
    BY <1>1, <1>2, <1>5 DEF Sound, NoStrayBackup
  <2> QED
    BY <1>5, <2>1, UndoingSound
<1>6. CASE pc'[p] = "cleanup" /\ err'[p] = "none" /\ out'[p] = buf[p]
  <2>1. FreshStage(p)' /\ CopiesFaithful(p, d)' /\ CopiesInHand(p, d)' /\ WorkDone(p, d)' /\ PutInPlace(p)'
    BY <1>6 DEF FreshStage, CopiesFaithful, CopiesInHand, WorkDone, PutInPlace
  <2>2. NoStrayBackup(p)'
    BY <1>6 DEF NoStrayBackup
  <2>3. Told(p, d)'
    <3>1. Outcome'[p] = "ok"
      BY <1>6 DEF Outcome
    <3>2. PICK r \in Results(d, script[p]) :
            r.ok /\ r.lines = buf[p] /\ \A n \in Uses(p) : r.dir[n] = live[n]
      BY <1>1, FlushIsWhole
    <3>3. r \in Results(d, script'[p]) /\ r.lines = out'[p] /\ \A n \in Uses(p) : r.dir[n] = live'[n]
      BY <1>2, <1>6, <3>2
    <3> QED
      BY <3>1, <3>2, <3>3 DEF Told
  <2> QED
    BY <2>1, <2>2, <2>3 DEF Sound
<1> QED
  BY <1>3, <1>4, <1>5, <1>6

----------------------------------------------------------------------------
(***************************************************************************)
(* The other processes, and a kill.                                        *)
(***************************************************************************)
\* A step that changes nothing of p's, nothing p uses, and no more than whether
\* p is alive and, if that ends it, its output.
LEMMA StillSound ==
  ASSUME NEW p \in Procs, NEW d \in DataDir, Steady(p, d), Sound(p, d), UNCHANGED <<orig, script>>,
         pc'[p] = pc[p], idx'[p] = idx[p], stage'[p] = stage[p], touched'[p] = touched[p],
         committed'[p] = committed[p], hadOriginal'[p] = hadOriginal[p],
         buf'[p] = buf[p], err'[p] = err[p],
         \/ alive'[p] = alive[p] /\ out'[p] = out[p]
         \/ alive'[p] = FALSE /\ (out'[p] = out[p] \/ pc[p] = "flush"),
         \A n \in Uses(p) : live'[n] = live[n]
  PROVE  Sound(p, d)'
<1>1. Staging(p)' = Staging(p) /\ Stmt(p)' = Stmt(p) /\ Temp(p)' = Temp(p) /\ Target(p)' = Target(p)
      /\ Touched(p)' = Touched(p)
  BY DEF Staging, Stmt, Temp, Target, Touched
<1>2. FreshStage(p)' /\ CopiesFaithful(p, d)' /\ CopiesInHand(p, d)' /\ NoStrayBackup(p)'
  BY <1>1 DEF Sound, FreshStage, CopiesFaithful, CopiesInHand, NoStrayBackup
<1>3. WorkDone(p, d)'
  <2>1. CASE pc[p] \in WorkLabels
    <3>1. \A n \in Uses(p) : View(p, d, n)' = View(p, d, n)
      BY <1>1 DEF View
    <3> QED
      BY <2>1, <3>1, WorkStands DEF Sound
  <2>2. CASE pc[p] \notin WorkLabels
    BY <2>2 DEF WorkDone
  <2> QED
    BY <2>1, <2>2
<1>4. PutInPlace(p)'
  <2>1. ASSUME pc[p] \in EndLabels, NEW k \in 1 .. committed[p]
        PROVE  live'[touched[p][k]] = stage[p][touched[p][k]]
    <3>1. touched[p] \in Seq(CsvFiles) /\ committed[p] \in Nat /\ committed[p] <= Len(touched[p])
      BY MaxStatementsIsPositive DEF Steady, Typed, TypeOK, ListsInStep, InStep
    <3>2. k \in DOMAIN touched[p]
      BY <3>1, LenProperties
    <3>3. touched[p][k] \in Uses(p)
      BY <3>2, UsesNames DEF Steady, Guarded, TouchedStaged, Touched
    <3> QED
      BY <2>1, <3>3 DEF Sound, PutInPlace
  <2> QED
    BY <1>1, <2>1 DEF Sound, PutInPlace
<1>5. Told(p, d)'
  <2>1. Outcome'[p] = "running" => Outcome[p] = "running" /\ out'[p] = out[p]
    BY DEF Outcome
  <2>2. Outcome'[p] = "ok" => Outcome[p] = "ok" /\ out'[p] = out[p]
    BY DEF Outcome
  <2> QED
    BY <2>1, <2>2 DEF Sound, Told
<1> QED
  BY <1>2, <1>3, <1>4, <1>5 DEF Sound

\* A step of another process changes nothing p uses.
LEMMA OthersSound ==
  ASSUME NEW p \in Procs, NEW d \in DataDir, NEW q \in Procs \ {p}, ApartAndUndoable,
         Steady(p, d), TouchedStaged(q), Sound(p, d), Step(q) \/ Crash(q)
  PROVE  Sound(p, d)'
<1>1. \A n \in Uses(p) : live'[n] = live[n]
  BY OthersLive DEF Steady
<1>2. /\ UNCHANGED <<orig, script>>
      /\ pc'[p] = pc[p] /\ alive'[p] = alive[p] /\ idx'[p] = idx[p]
      /\ stage'[p] = stage[p] /\ touched'[p] = touched[p]
      /\ committed'[p] = committed[p] /\ hadOriginal'[p] = hadOriginal[p]
      /\ buf'[p] = buf[p] /\ out'[p] = out[p] /\ err'[p] = err[p]
  <2>1. Typed
    BY DEF Steady
  <2> QED
    BY <2>1, OthersStay
<1> QED
  BY <1>1, <1>2, StillSound

\* A step of p's own.
LEMMA OwnSound ==
  ASSUME NEW p \in Procs, NEW d \in DataDir, Undoable, Steady(p, d), Sound(p, d), Typed',
         Step(p) \/ Crash(p)
  PROVE  Sound(p, d)'
<1>1. CASE DieOnSchema(p)
  <2>1. TypeOK
    BY DEF Steady, Typed
  <2> QED
    BY <1>1, <2>1, StillSound DEF DieOnSchema, lists, output, TypeOK
<1>2. CASE Crash(p)
  <2>1. TypeOK
    BY DEF Steady, Typed
  <2> QED
    <3> USE <1>2, <2>1 DEF Crash, lists, TypeOK
    <3>1. CASE UNCHANGED <<buf, stage>>
      BY <3>1, StillSound
    <3>2. CASE pc[p] = "cleanup" /\ UNCHANGED out
      BY <3>2, SweptSound
    <3> QED
      BY <3>1, <3>2
<1> QED
  BY <1>1, <1>2, MakeStageDirSound, OpenBufferSound, StageCsvSound, CopyCsvSound,
     StageSchemaSound, ExecuteStatementSound, CommitCopySound, CommitCheckSound,
     BackUpOriginalSound, ReplaceSound, RestoreCurrentSound, RollbackRemoveSound,
     RollbackMoveSound, RollbackEndsSound, FlushSound, CleanupSound DEF Step

\* To begin with nothing is staged and nothing is shown.
LEMMA UnbegunSound ==
  ASSUME NEW p \in Procs, NEW d \in DataDir, Unbegun(p)
  PROVE  Sound(p, d)
<1>1. /\ pc[p] \in {"mkdir", "buffer"} /\ err[p] = "none" /\ out[p] = <<>> /\ idx[p] = 1
      /\ \A n \in StageFiles : stage[p][n] = NoFile
  BY DEF Unbegun
<1> USE DEF EarlyLabels, StatementLabels, CommitLabels, UndoLabels, EndLabels, WorkLabels
<1>2. FreshStage(p) /\ CopiesFaithful(p, d) /\ CopiesInHand(p, d) /\ WorkDone(p, d) /\ PutInPlace(p)
  BY <1>1 DEF FreshStage, CopiesFaithful, CopiesInHand, WorkDone, PutInPlace
<1>3. NoStrayBackup(p)
  BY <1>1, StageNames DEF NoStrayBackup
<1>4. Told(p, d)
  BY <1>1 DEF Told, Outcome
<1> QED
  BY <1>2, <1>3, <1>4 DEF Sound

LEMMA NextSound ==
  ASSUME ApartAndUndoable, AllGuarded, \A p \in Procs : Sound(p, orig), [Next]_vars, Typed'
  PROVE  (\A p \in Procs : Sound(p, orig))'
<1>1. PICK d \in DataDir : d = orig
  BY DEF AllGuarded, Typed, TypeOK
<1>2. Undoable /\ \A p \in Procs : Steady(p, d) /\ Sound(p, d)
  BY <1>1 DEF AllGuarded, ApartAndUndoable, Steady
<1>3. CASE UNCHANGED vars
  <2>1. \A p \in Procs : Sound(p, d)'
    BY <1>2, <1>3, StillSound DEF vars
  <2>2. orig' = d
    BY <1>1, <1>3 DEF vars
  <2> QED
    BY <2>1, <2>2
<1>4. ASSUME NEW q \in Procs, Step(q) \/ Crash(q)
      PROVE  (\A p \in Procs : Sound(p, orig))'
  <2>1. ASSUME NEW p \in Procs
        PROVE  Sound(p, d)'
    <3>1. CASE p = q
      BY <1>2, <1>4, <3>1, OwnSound
    <3>2. CASE p # q
      BY <1>2, <1>4, <3>2, OthersSound DEF Steady, Guarded
    <3> QED
      BY <3>1, <3>2
  <2>2. orig' = d
    BY <1>1, <1>4, OthersStay DEF AllGuarded
  <2> QED
    BY <2>1, <2>2
<1> QED
  BY <1>3, <1>4 DEF Next, Terminated

\* Every script has done in every state what its statements are to do.
AllSound == AllGuarded /\ \A p \in Procs : Sound(p, orig)

LEMMA AlwaysSound ==
  ASSUME ApartAndUndoable
  PROVE  Spec => []AllSound
<1>1. Init => \A p \in Procs : Sound(p, orig)
  BY InitUnbegun, UnbegunSound, DataDirsHoldFiles DEF Init
<1>2. AllGuarded /\ Typed' /\ (\A p \in Procs : Sound(p, orig)) /\ [Next]_vars
        => (\A p \in Procs : Sound(p, orig))'
  BY NextSound
<1> QED
  BY <1>1, <1>2, AlwaysGuarded, TypedCorrect, PTL DEF Spec, AllSound

----------------------------------------------------------------------------
(***************************************************************************)
(* Each step is a whole script, the end of one that changes nothing, or no *)
(* step at all.                                                            *)
(***************************************************************************)
\* How one step can change how its script stands for its caller.
Continues(p) ==
  /\ Outcome'[p] = Outcome[p] /\ out'[p] = out[p]
  /\ Outcome[p] = "ok" => live' = live

Succeeds(p) ==
  /\ Outcome[p] = "running" /\ Outcome'[p] = "ok"
  /\ pc[p] = "flush" /\ out'[p] = buf[p] /\ live' = live

Fails(p) ==
  /\ Outcome[p] = "running" /\ Outcome'[p] = "failed"
  /\ \/ out'[p] = out[p]
     \/ pc[p] = "flush" /\ \E k \in 0 .. Len(buf[p]) : out'[p] = SubSeq(buf[p], 1, k)

LEMMA StepOutcome ==
  ASSUME NEW p \in Procs, AllGuarded, Typed', Step(p) \/ Crash(p)
  PROVE  Continues(p) \/ Succeeds(p) \/ Fails(p)
<1> USE DEF Continues, Succeeds, Fails, Outcome
<1>1. TypeOK /\ TypeOK' /\ pc[p] \in Labels
  BY DEF AllGuarded, Typed, TypeOK
<1>2. pc[p] \in (Labels \ UndoLabels) \ {"cleanup", "done"} => err[p] = "none"
  BY DEF AllGuarded, Guarded, ErrorInStep
<1>3. pc[p] \in UndoLabels => err[p] # "none"
  BY DEF AllGuarded, Guarded, ErrorInStep
<1>4. alive[p]
  BY DEF Step, Crash
<1> USE <1>1, <1>2, <1>3, <1>4 DEF Labels, UndoLabels
<1>5. CASE Crash(p)
  <2>1. alive'[p] = FALSE /\ pc' = pc /\ err' = err /\ live' = live /\ pc[p] # "done"
    BY <1>5 DEF Crash, TypeOK
  <2>2. \/ out'[p] = out[p]
        \/ pc[p] = "flush" /\ \E k \in 1 .. Len(buf[p]) : out'[p] = SubSeq(buf[p], 1, k)
    BY <1>5 DEF Crash, Prefix, TypeOK
  <2> QED
    BY <2>1, <2>2
<1>6. CASE DieOnSchema(p)
  <2>1. alive'[p] = FALSE /\ pc' = pc /\ err' = err /\ out' = out /\ pc[p] = "exec"
    BY <1>6 DEF DieOnSchema, TypeOK, output
  <2> QED
    BY <2>1
<1>7. CASE Flush(p)
  <2>1. pc[p] = "flush" /\ live' = live /\ alive' = alive
    BY <1>7 DEF Flush, program
  <2>2. \/ pc'[p] = "cleanup" /\ err'[p] = "none" /\ out'[p] = buf[p]
        \/ err'[p] = "output" /\ \E k \in 0 .. Len(buf[p]) : out'[p] = SubSeq(buf[p], 1, k)
    BY <1>7, Moves DEF Flush, TypeOK, Prefix
  <2> QED
    BY <2>1, <2>2
<1>8. CASE Cleanup(p)
  <2>1. pc[p] = "cleanup" /\ pc'[p] = "done" /\ err'[p] = err[p] /\ live' = live /\ alive' = alive /\ out' = out
    BY <1>8, Moves DEF Cleanup, program
  <2> QED
    BY <2>1
<1> DEFINE Works == /\ pc[p] \notin {"cleanup", "done", "flush"} /\ alive' = alive /\ out' = out
                    /\ \/ err'[p] = err[p] /\ (err[p] = "none" => pc'[p] \notin {"cleanup", "done"})
                       \/ err'[p] # "none"
<1>9. Works => Continues(p) \/ Fails(p)
  OBVIOUS
<1>10. CASE MakeStageDir(p) \/ OpenBuffer(p) \/ StageCsv(p) \/ CopyCsv(p) \/ StageSchema(p)
  <2>1. Works
    BY <1>10, Moves DEF MakeStageDir, OpenBuffer, StageCsv, CopyCsv, StageSchema, program, output,
                        FirstLabel, CopyLabel
  <2> QED
    BY <1>9, <2>1
<1>11. CASE ExecuteStatement(p)
  <2>1. pc[p] = "exec" /\ alive' = alive /\ out' = out
    BY <1>11 DEF ExecuteStatement, program
  <2>2. \/ \E l \in {"stageCsv", "exec", "commitCopy", "flush"} : Proceed(p, l)
        \/ \E e \in {"statement", "io"} : Fail(p, e, "cleanup")
    <3>1. Len(script[p]) \in Nat /\ idx[p] \in Nat
      BY MaxStatementsIsPositive, LenProperties DEF TypeOK
    <3>2. NextLabel(p) \in {"stageCsv", "exec", "commitCopy", "flush"}
      BY <3>1 DEF NextLabel, FirstLabel
    <3> QED
      BY <1>11, <3>2 DEF ExecuteStatement, Perform, Reject
  <2> QED
    BY <1>9, <2>1, <2>2, Moves
<1>12. CASE CommitCopy(p) \/ CommitCheck(p) \/ BackUpOriginal(p) \/ Replace(p)
  <2>1. Works
    BY <1>12, Moves DEF CommitCopy, CommitCheck, BackUpOriginal, Replace, program, output
  <2> QED
    BY <1>9, <2>1
<1>13. CASE RestoreCurrent(p) \/ RollbackMove(p) \/ RollbackEnds(p)
  <2>1. Works
    BY <1>13, Moves DEF RestoreCurrent, RollbackMove, RollbackEnds, Undone, program, output
  <2> QED
    BY <1>9, <2>1
<1>14. CASE RollbackCheck(p) \/ RollbackRemove(p)
  <2>1. Works
    BY <1>14, Moves DEF RollbackCheck, RollbackRemove, Removed, Undone, program, output
  <2> QED
    BY <1>9, <2>1
<1> QED
  BY <1>5, <1>6, <1>7, <1>8, <1>10, <1>11, <1>12, <1>13, <1>14 DEF Step

\* A step of p leaves the other scripts where they stand.
LEMMA OthersOutcome ==
  ASSUME NEW p \in Procs, AllGuarded, Step(p) \/ Crash(p), NEW q \in Procs \ {p}
  PROVE  Outcome'[q] = Outcome[q] /\ out'[q] = out[q]
<1>1. Typed
  BY DEF AllGuarded
<1>2. pc'[q] = pc[q] /\ alive'[q] = alive[q] /\ err'[q] = err[q] /\ out'[q] = out[q]
  BY <1>1, OthersStay
<1> QED
  BY <1>2 DEF Outcome

\* The tables of the scripts that have succeeded stay as they are.
LEMMA SettledStays ==
  ASSUME NEW p \in Procs, ApartAndUndoable, AllGuarded, Step(p) \/ Crash(p),
         (Outcome'[p] = "ok") <=> (Outcome[p] = "ok"), Outcome[p] = "ok" => live' = live
  PROVE  Settled' = Settled
<1>1. orig' = orig
  <2>1. Typed
    BY DEF AllGuarded
  <2> QED
    BY <2>1, OthersStay
<1>2. \A q \in Procs : (Outcome'[q] = "ok") <=> (Outcome[q] = "ok")
  BY OthersOutcome
<1>3. ASSUME NEW q \in Procs, NEW n \in Writes(q), Outcome[q] = "ok"
      PROVE  live'[n] = live[n]
  <2>1. CASE q = p
    BY <1>3, <2>1
  <2>2. CASE q # p
    BY <2>2, UsesNames, OthersLive DEF AllGuarded, Guarded
  <2> QED
    BY <2>1, <2>2
<1>4. ASSUME NEW n \in TableFiles
      PROVE  (IF \E q \in Procs : n \in Writes(q) /\ Outcome'[q] = "ok" THEN live'[n] ELSE orig'[n])
               = (IF \E q \in Procs : n \in Writes(q) /\ Outcome[q] = "ok" THEN live[n] ELSE orig[n])
  BY <1>1, <1>2, <1>3
<1> QED
  BY <1>4 DEF Settled

\* What p uses is settled as it was found until its script succeeds, and p
\* alone changes what it writes.
LEMMA SettledUses ==
  ASSUME NEW p \in Procs, Apart, NEW n \in Uses(p), Outcome[p] # "ok"
  PROVE  Settled[n] = orig[n]
<1>1. n \in TableFiles
  BY UsesNames
<1>2. \A q \in Procs : n \in Writes(q) => q = p
  BY DEF Apart
<1> QED
  BY <1>1, <1>2 DEF Settled

LEMMA SettledType ==
  ASSUME AllGuarded
  PROVE  Settled \in DataDir
<1>1. live \in DataDir /\ orig \in DataDir
  BY DEF AllGuarded, Typed, TypeOK
<1> QED
  BY <1>1 DEF Settled, DataDir

\* The output reaches the caller with all the script's changes.
LEMMA SuccessCommits ==
  ASSUME NEW p \in Procs, ApartAndUndoable, AllGuarded, Sound(p, orig), Step(p) \/ Crash(p), Succeeds(p)
  PROVE  \E r \in Results(Settled, script[p]) :
           r.ok /\ r.lines = out'[p] /\ Settled' = r.dir
<1>1. /\ orig' = orig /\ orig \in DataDir /\ script[p] \in ScriptsOf[p]
      /\ live' = live /\ out'[p] = buf[p]
  <2>1. Typed
    BY DEF AllGuarded
  <2> QED
    BY <2>1, OthersStay DEF Succeeds, AllGuarded, WritesAreStaged, Typed, TypeOK
<1>2. PICK a \in Results(orig, script[p]) :
        a.ok /\ a.lines = buf[p] /\ \A n \in Uses(p) : a.dir[n] = live[n]
  BY FlushIsWhole DEF Succeeds, AllGuarded, Steady, Typed, TypeOK
<1>3. Settled \in DataDir /\ \A n \in Uses(p) : orig[n] = Settled[n]
  BY SettledType, SettledUses DEF Succeeds, ApartAndUndoable
<1>4. PICK b \in Results(Settled, script[p]) :
        Alike(p, a, b) /\ \A n \in TableFiles \ Writes(p) : b.dir[n] = Settled[n]
  <2>1. Len(script[p]) \in 0 .. Len(script[p])
    BY <1>1, ScriptsFit, LenProperties
  <2> QED
    BY <1>1, <1>2, <1>3, <2>1, ScriptIsLocal DEF Results
<1>5. b.ok /\ b.lines = out'[p]
  BY <1>1, <1>2, <1>4 DEF Alike
<1>6. b.dir \in DataDir
  <2>1. script[p] \in Seq(Statement)
    BY <1>1, ScriptsFit
  <2>2. b \in ScriptState
    BY <1>3, <1>4, <2>1, ProgressType, LenProperties DEF Results
  <2> QED
    BY <2>2 DEF ScriptState
<1>7. ASSUME NEW n \in TableFiles
      PROVE  Settled'[n] = b.dir[n]
  <2>1. \A q \in Procs \ {p} : Outcome'[q] = Outcome[q]
    BY OthersOutcome
  <2>2. CASE n \in Writes(p)
    <3>1. Settled'[n] = live[n]
      BY <1>1, <2>2 DEF Settled, Succeeds
    <3>2. b.dir[n] = live[n]
      BY <1>2, <1>4, <2>2, UsesNames DEF Alike
    <3> QED
      BY <3>1, <3>2
  <2>3. CASE n \notin Writes(p)
    <3>1. Settled'[n] = Settled[n]
      BY <1>1, <2>1, <2>3 DEF Settled
    <3> QED
      BY <1>4, <2>3, <3>1
  <2> QED
    BY <2>2, <2>3
<1>8. Settled' = b.dir
  BY <1>6, <1>7 DEF Settled, DataDir
<1> QED
  BY <1>4, <1>5, <1>8

\* Or the script fails with nothing shown but a beginning of its output.
LEMMA FailureShowsABeginning ==
  ASSUME NEW p \in Procs, ApartAndUndoable, AllGuarded, Sound(p, orig), Fails(p)
  PROVE  \E r \in Results(Settled, script[p]) :
           \E k \in 0 .. (IF r.ok THEN Len(r.lines) ELSE 0) : out'[p] = SubSeq(r.lines, 1, k)
<1>1. orig \in DataDir /\ script[p] \in ScriptsOf[p] /\ script[p] \in Seq(Statement)
  BY ScriptsFit DEF AllGuarded, WritesAreStaged, Typed, TypeOK
<1>2. Settled \in DataDir /\ \A n \in Uses(p) : orig[n] = Settled[n]
  BY SettledType, SettledUses DEF Fails, ApartAndUndoable
<1>3. Len(script[p]) \in Nat
  BY <1>1, LenProperties
<1>4. \A r \in Results(Settled, script[p]) : r \in ScriptState
  BY <1>1, <1>2, <1>3, ProgressType DEF Results
<1>5. CASE out'[p] = out[p]
  <2>1. out'[p] = <<>>
    BY <1>5 DEF Sound, Told, Fails
  <2>2. PICK r : r \in Results(Settled, script[p])
    BY <1>1, <1>2, <1>3, ProgressType DEF Results
  <2>3. r.lines \in Seq(Record)
    BY <1>4, <2>2 DEF ScriptState, Content
  <2>4. SubSeq(r.lines, 1, 0) = <<>>
    BY <2>3
  <2>5. 0 \in 0 .. (IF r.ok THEN Len(r.lines) ELSE 0)
    BY <2>3, LenProperties
  <2> QED
    BY <2>1, <2>2, <2>4, <2>5
<1>6. ASSUME pc[p] = "flush", NEW k \in 0 .. Len(buf[p]), out'[p] = SubSeq(buf[p], 1, k)
      PROVE  \E r \in Results(Settled, script[p]) :
               \E j \in 0 .. (IF r.ok THEN Len(r.lines) ELSE 0) : out'[p] = SubSeq(r.lines, 1, j)
  <2>1. PICK a \in Results(orig, script[p]) :
          a.ok /\ a.lines = buf[p] /\ \A n \in Uses(p) : a.dir[n] = live[n]
    BY <1>6, FlushIsWhole DEF AllGuarded, Steady, Typed, TypeOK
  <2>2. PICK b \in Results(Settled, script[p]) : Alike(p, a, b)
    <3>1. Len(script[p]) \in 0 .. Len(script[p])
      BY <1>3
    <3> QED
      BY <1>1, <1>2, <2>1, <3>1, ScriptIsLocal DEF Results
  <2>3. b.ok /\ b.lines = buf[p]
    BY <2>1, <2>2 DEF Alike
  <2> QED
    BY <1>6, <2>2, <2>3
<1> QED
  BY <1>5, <1>6 DEF Fails

\* The mapping is the settled directory in every state.
Mapped == AllSound /\ Logical = Settled

LEMMA AlwaysMapped ==
  ASSUME ApartAndUndoable
  PROVE  Spec => []Mapped
<1>1. Apart
  BY DEF ApartAndUndoable
<1>2. AllSound => Mapped
  BY <1>1, LogicalIsSettled DEF AllSound, Sound, Mapped
<1> QED
  BY <1>2, AlwaysSound, PTL

LEMMA NextIsAtomic ==
  ASSUME ApartAndUndoable, Mapped, Mapped', [Next]_vars
  PROVE  [Atomic!Next]_(Atomic!avars)
<1>1. AllSound /\ AllSound' /\ Logical = Settled /\ Logical' = Settled'
  BY DEF Mapped
<1>2. CASE UNCHANGED vars
  <2>1. Settled' = Settled /\ Outcome' = Outcome /\ UNCHANGED <<script, out>>
    BY <1>2 DEF vars, Settled, Outcome
  <2> QED
    BY <1>1, <2>1 DEF Atomic!avars
<1>3. ASSUME NEW p \in Procs, Step(p) \/ Crash(p)
      PROVE  [Atomic!Next]_(Atomic!avars)
  <2>1. AllGuarded /\ Sound(p, orig) /\ Typed' /\ Typed
    BY <1>1 DEF AllSound, AllGuarded
  <2>2. Continues(p) \/ Succeeds(p) \/ Fails(p)
    BY <1>3, <2>1, StepOutcome
  <2>3. script' = script
    BY <1>3, <2>1, OthersStay
  <2>4. out \in [Procs -> Content] /\ out' \in [Procs -> Content]
    BY <2>1 DEF Typed, TypeOK
  <2>5. \A q \in Procs \ {p} : Outcome'[q] = Outcome[q] /\ out'[q] = out[q]
    BY <1>3, <2>1, OthersOutcome
  <2>6. out' = [out EXCEPT ![p] = out'[p]]
    BY <2>4, <2>5
  <2>7. Outcome' = [Outcome EXCEPT ![p] = Outcome'[p]]
    BY <2>5 DEF Outcome
  <2>8. CASE Continues(p)
    <3>1. Settled' = Settled
      BY <1>3, <2>1, <2>8, SettledStays DEF Continues
    <3>2. out' = out
      BY <2>4, <2>5, <2>8 DEF Continues
    <3>3. Outcome' = Outcome
      BY <2>5, <2>8 DEF Continues, Outcome
    <3> QED
      BY <1>1, <2>3, <3>1, <3>2, <3>3 DEF Atomic!avars
  <2>9. CASE Succeeds(p)
    <3>1. PICK r \in Results(Settled, script[p]) : r.ok /\ r.lines = out'[p] /\ Settled' = r.dir
      BY <1>3, <2>1, <2>9, SuccessCommits
    <3>2. Outcome[p] = "running" /\ Outcome'[p] = "ok"
      BY <2>9 DEF Succeeds
    <3>3. Atomic!Commit(p)
      BY <1>1, <2>3, <2>6, <2>7, <3>1, <3>2 DEF Atomic!Commit
    <3> QED
      BY <3>3 DEF Atomic!Next
  <2>10. CASE Fails(p)
    <3>1. PICK r \in Results(Settled, script[p]) :
            \E k \in 0 .. (IF r.ok THEN Len(r.lines) ELSE 0) : out'[p] = SubSeq(r.lines, 1, k)
      BY <2>1, <2>10, FailureShowsABeginning
    <3>2. Outcome[p] = "running" /\ Outcome'[p] = "failed"
      BY <2>10 DEF Fails
    <3>3. Settled' = Settled
      BY <1>3, <2>1, <3>2, SettledStays
    <3>4. Atomic!Abort(p)
      BY <1>1, <2>3, <2>6, <2>7, <3>1, <3>2, <3>3 DEF Atomic!Abort
    <3> QED
      BY <3>4 DEF Atomic!Next
  <2> QED
    BY <2>2, <2>8, <2>9, <2>10
<1> QED
  BY <1>2, <1>3 DEF Next, Terminated

LEMMA InitIsAtomic ==
  ASSUME Init, Mapped
  PROVE  Atomic!Init
<1>1. Logical = Settled /\ AllSound
  BY DEF Mapped
<1>2. \A p \in Procs : Outcome[p] = "running"
  BY DEF Init, Outcome
<1>3. Settled = orig
  <2>1. orig \in DataDir
    BY <1>1 DEF AllSound, AllGuarded, Typed, TypeOK
  <2> QED
    BY <1>2, <2>1 DEF Settled, DataDir
<1>4. Logical \in DataDirs
  BY <1>1, <1>3 DEF Init
<1>5. Outcome = [p \in Procs |-> "running"]
  BY <1>2 DEF Outcome
<1> QED
  BY <1>4, <1>5 DEF Init, Atomic!Init

\* Every script is atomic: each step is the whole of a script, with all its
\* changes and all its output, or the end of one that changes no table and
\* shows at most a beginning of its output, or no step at all, wherever
\* processes are killed and whichever of the failures the code undoes happen
\* (execute_script and its stage, commit and rollback).
THEOREM ScriptsAreAtomic ==
  ASSUME ApartAndUndoable
  PROVE  Spec => StepsAreAtomic
<1>1. Init /\ Mapped => Atomic!Init
  BY InitIsAtomic
<1>2. Mapped /\ Mapped' /\ [Next]_vars => [Atomic!Next]_(Atomic!avars)
  BY NextIsAtomic
<1> QED
  BY <1>1, <1>2, AlwaysMapped, PTL DEF Spec, StepsAreAtomic

----------------------------------------------------------------------------
(***************************************************************************)
(* What a script that reports success has done.                            *)
(***************************************************************************)
\* The file it has worked on, whole, is in place, and it has left every other
\* as it was.
LEMMA SuccessIsResult ==
  ASSUME NEW p \in Procs, AllGuarded, Sound(p, orig), Succeeded(p)
  PROVE  \E r \in Results(orig, script[p]) :
           /\ r.ok /\ out[p] = r.lines
           /\ \A n \in TableFiles \ ByOthers(p) : live[n] = r.dir[n]
<1>1. /\ orig \in DataDir /\ script[p] \in ScriptsOf[p] /\ script[p] \in Seq(Statement)
      /\ Len(script[p]) \in 0 .. Len(script[p])
  BY ScriptsFit, LenProperties DEF AllGuarded, WritesAreStaged, Typed, TypeOK
<1>2. Outcome[p] = "ok"
  BY DEF Succeeded, Returned, Outcome
<1>3. PICK a \in Results(orig, script[p]) :
        a.ok /\ a.lines = out[p] /\ \A n \in Uses(p) : a.dir[n] = live[n]
  BY <1>2 DEF Sound, Told
<1>4. PICK b \in Results(orig, script[p]) :
        Alike(p, a, b) /\ \A n \in TableFiles \ Writes(p) : b.dir[n] = orig[n]
  BY <1>1, <1>3, ScriptIsLocal DEF Results
<1>5. b.ok /\ b.lines = out[p] /\ \A n \in Uses(p) : b.dir[n] = live[n]
  BY <1>3, <1>4 DEF Alike
<1>6. ASSUME NEW n \in TableFiles \ ByOthers(p)
      PROVE  live[n] = b.dir[n]
  <2>1. CASE n \in Uses(p)
    BY <1>5, <2>1
  <2>2. CASE n \notin Uses(p)
    <3>1. n \notin Writes(p) /\ n \notin Touched(p)
      BY <2>2, UsesNames DEF AllGuarded, Guarded, TouchedStaged
    <3>2. live[n] = orig[n]
      BY <3>1 DEF AllGuarded, OthersAsFound, ByOthers
    <3> QED
      BY <1>4, <3>1, <3>2
  <2> QED
    BY <2>1, <2>2
<1> QED
  BY <1>4, <1>5, <1>6

\* Success means all of it: a script that reports success has made exactly the
\* changes its statements make in order and shown exactly their output, as long
\* as no table has a name the commit uses (the run reserved_names shows that
\* this is needed) and no file passes for missing.
THEOREM SuccessIsComplete ==
  ASSUME ApartAndUndoable
  PROVE  Spec => []SuccessIsWhole
<1>1. AllSound => SuccessIsWhole
  BY SuccessIsResult DEF AllSound, SuccessIsWhole
<1> QED
  BY <1>1, AlwaysSound, PTL

LEMMA PrefixGrows ==
  ASSUME NEW s \in Content, NEW t \in Content, IsPrefix(s, t), NEW row \in Record
  PROVE  IsPrefix(s, Append(t, row))
<1>1. Len(s) \in Nat /\ Len(t) \in Nat /\ Len(s) <= Len(t)
  BY LenProperties DEF IsPrefix, Content
<1>2. Append(t, row) \in Content /\ Len(Append(t, row)) = Len(t) + 1
  BY DEF Content
<1>3. SubSeq(Append(t, row), 1, Len(s)) = SubSeq(t, 1, Len(s))
  BY <1>1 DEF Content
<1> QED
  BY <1>1, <1>2, <1>3 DEF IsPrefix

LEMMA PrefixOfPrefix ==
  ASSUME NEW s \in Content, NEW t \in Content, NEW u \in Content, IsPrefix(s, t), IsPrefix(t, u)
  PROVE  IsPrefix(s, u)
<1>1. /\ Len(s) \in Nat /\ Len(t) \in Nat /\ Len(u) \in Nat
      /\ Len(s) <= Len(t) /\ Len(t) <= Len(u)
  BY LenProperties DEF IsPrefix, Content
<1>2. SubSeq(s, 1, Len(s)) = SubSeq(t, 1, Len(s)) /\ SubSeq(t, 1, Len(t)) = SubSeq(u, 1, Len(t))
  BY DEF IsPrefix
<1>3. SubSeq(t, 1, Len(t)) = t
  BY DEF Content
<1>4. SubSeq(SubSeq(u, 1, Len(t)), 1, Len(s)) = SubSeq(u, 1, Len(s))
  BY <1>1 DEF Content
<1> QED
  BY <1>1, <1>2, <1>3, <1>4 DEF IsPrefix

\* An accepted statement keeps the rows of its CSV file.
LEMMA StatementKeepsRows ==
  ASSUME NEW s \in File, NEW c \in Content, NEW stmt \in Statement, Accepts(s, c, stmt)
  PROVE  FileAfter(s, c, stmt) \in Content /\ IsPrefix(c, FileAfter(s, c, stmt))
<1>1. IsPrefix(c, c)
  BY DEF IsPrefix, Content
<1>2. c # NoFile /\ c \in File
  BY NoFileIsNoContent DEF File
<1>3. CASE stmt.kind # "INSERT"
  BY <1>1, <1>3 DEF FileAfter
<1>4. CASE stmt.kind = "INSERT"
  <2> DEFINE vals == RowToStore(s, stmt)
             row  == [k \in DOMAIN vals |-> vals[k].text]
  <2>1. AppendAccepts(s, c, stmt)
    BY <1>4 DEF Accepts
  <2>2. FileAfter(s, c, stmt) = Append(c, row)
    BY <1>2, <1>4 DEF FileAfter, AppendedFile
  <2>3. row \in Record
    BY <1>2, <2>1, StoredRowType
  <2> HIDE DEF row
  <2>4. Append(c, row) \in Content
    BY <2>3 DEF Content
  <2> QED
    BY <1>1, <2>2, <2>3, <2>4, PrefixGrows
<1> QED
  BY <1>3, <1>4

\* And so does a script, statement by statement.
LEMMA ScriptKeepsRows ==
  ASSUME NEW d \in DataDir, NEW s \in Seq(Statement), NEW n \in CsvFiles, d[n] # NoFile
  PROVE  \A k \in 0 .. Len(s) : \A a \in Progress(d, s)[k] :
           a.dir[n] # NoFile /\ IsPrefix(d[n], a.dir[n])
<1> DEFINE P == Progress(d, s)
           Keeps(a) == a.dir[n] # NoFile /\ IsPrefix(d[n], a.dir[n])
           S == {k \in Nat : k <= Len(s) => \A a \in P[k] : Keeps(a)}
<1>1. Len(s) \in Nat /\ DOMAIN s = 1 .. Len(s)
  BY LenProperties
<1>2. P[0] = {Fresh(d)} /\ \A k \in 1 .. Len(s) : P[k] = {Do(st, s[k]) : st \in P[k - 1]}
  BY <1>1, ProgressSteps
<1>3. \A k \in 0 .. Len(s) : P[k] \subseteq ScriptState
  BY ProgressType
<1>4. n \in TableFiles /\ d[n] \in Content
  BY DEF TableFiles, DataDir, File
<1> HIDE DEF P
<1>5. 0 \in S
  <2>1. IsPrefix(d[n], d[n])
    BY <1>4 DEF IsPrefix, Content
  <2> QED
    BY <1>2, <2>1 DEF Fresh
<1>6. ASSUME NEW k \in Nat, k \in S
      PROVE  k + 1 \in S
  <2> SUFFICES ASSUME k + 1 <= Len(s), NEW b \in P[k + 1]
               PROVE  Keeps(b)
    OBVIOUS
  <2>1. k + 1 \in 1 .. Len(s) /\ k \in 0 .. Len(s) /\ (k + 1) - 1 = k
    BY <1>1
  <2>2. PICK a \in P[k] : b = Do(a, s[k + 1])
    BY <1>2, <2>1
  <2>3. Keeps(a) /\ a \in ScriptState
    BY <1>1, <1>3, <1>6, <2>1, <2>2
  <2>4. s[k + 1] \in Statement
    BY <1>1, <2>1, ElementOfSeq
  <2> DEFINE stmt == s[k + 1]
             h == Schema(stmt.table)
  <2> HIDE DEF stmt
  <2>5. CASE a.ok /\ Accepts(a.dir[h], a.dir[Csv(stmt.table)], stmt)
    <3>1. b.dir[Csv(stmt.table)] = FileAfter(a.dir[h], a.dir[Csv(stmt.table)], stmt)
          /\ \A m \in TableFiles : m # Csv(stmt.table) => b.dir[m] = a.dir[m]
      BY <2>2, <2>3, <2>4, <2>5, DoAccepted DEF stmt
    <3>2. CASE n # Csv(stmt.table)
      BY <1>4, <2>3, <3>1, <3>2
    <3>3. CASE n = Csv(stmt.table)
      <4>1. a.dir[n] \in Content /\ a.dir[h] \in File
        <5>1. h \in TableFiles
          BY <2>4, StageNames DEF Statement, stmt
        <5> QED
          BY <1>4, <2>3, <5>1 DEF ScriptState, DataDir, File
      <4>2. b.dir[n] \in Content /\ IsPrefix(a.dir[n], b.dir[n])
        BY <2>4, <2>5, <3>1, <3>3, <4>1, StatementKeepsRows DEF stmt
      <4>3. IsPrefix(d[n], b.dir[n])
        BY <1>4, <2>3, <4>1, <4>2, PrefixOfPrefix
      <4> QED
        BY <4>2, <4>3, NoFileIsNoContent
    <3> QED
      BY <3>2, <3>3
  <2>6. CASE ~(a.ok /\ Accepts(a.dir[h], a.dir[Csv(stmt.table)], stmt))
    <3>1. b.dir = a.dir
      BY <2>2, <2>3, <2>4, <2>6, DoRejected DEF stmt
    <3> QED
      BY <2>3, <3>1
  <2> QED
    BY <2>5, <2>6
<1>7. Nat \subseteq S
  <2> HIDE DEF S
  <2> QED
    BY <1>5, <1>6, NatSetInduction
<1> QED
  BY <1>1, <1>7 DEF P

\* A script that reports success has lost no row that was there when it began.
\* The premise is needed: the run unopenable shows rows lost once a file that
\* is there passes for missing.
THEOREM SuccessLosesNoRow ==
  ASSUME ApartAndUndoable
  PROVE  Spec => []SuccessKeepsRows
<1>1. AllSound => SuccessKeepsRows
  <2> SUFFICES ASSUME AllSound, NEW p \in Procs, NEW n \in CsvFiles \ ByOthers(p),
                      Succeeded(p), orig[n] # NoFile
               PROVE  live[n] # NoFile /\ IsPrefix(orig[n], live[n])
    BY DEF SuccessKeepsRows
  <2>1. AllGuarded /\ Sound(p, orig)
    BY DEF AllSound
  <2>2. PICK r \in Results(orig, script[p]) :
          \A m \in TableFiles \ ByOthers(p) : live[m] = r.dir[m]
    BY <2>1, SuccessIsResult
  <2>3. orig \in DataDir /\ script[p] \in Seq(Statement) /\ Len(script[p]) \in 0 .. Len(script[p])
    BY <2>1, LenProperties DEF AllGuarded, Typed, TypeOK
  <2>4. r.dir[n] # NoFile /\ IsPrefix(orig[n], r.dir[n])
    BY <2>2, <2>3, ScriptKeepsRows DEF Results
  <2>5. live[n] = r.dir[n]
    BY <2>2 DEF TableFiles
  <2> QED
    BY <2>4, <2>5
<1> QED
  BY <1>1, AlwaysSound, PTL
=============================================================================
