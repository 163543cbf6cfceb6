----------------------------- MODULE SharedProofs -----------------------------
(***************************************************************************)
(* Processes that write the same tables, or run one after the other.       *)
(*                                                                         *)
(* Shared says of every copy of a CSV file, live, staged or backed up,     *)
(* which scripts it can be the work of, and from which contents: what was  *)
(* found, nothing, or what one other script made of these.  Orderly says   *)
(* that the second of two scripts that do not overlap has the data         *)
(* directory for itself, as the first has left it.                         *)
(***************************************************************************)
EXTENDS ScriptOrder, RefinementProofs

----------------------------------------------------------------------------
(***************************************************************************)
(* What a script makes of a table and what a reader may show, statement by *)
(* statement.                                                              *)
(***************************************************************************)
\* The contents one more statement of p may make of table t.
NextVersions(p, t, k, X) ==
  IF script[p][k].table # t THEN X
  ELSE {FileAfter(orig[Schema(t)], c, script[p][k]) :
          c \in {d \in X : Accepts(orig[Schema(t)], d, script[p][k])}}

\* The recursion of Versions is well defined.
LEMMA VersionsSteps ==
  ASSUME NEW p, NEW t, NEW g, Len(script[p]) \in Nat
  PROVE  /\ Versions(p, t, g)[0] = {g}
         /\ \A k \in 1 .. Len(script[p]) :
              Versions(p, t, g)[k] = NextVersions(p, t, k, Versions(p, t, g)[k - 1])
<1> DEFINE After(X, k) == NextVersions(p, t, k, X)
           F(f, m) == [k \in 0 .. m |-> IF k = 0 THEN {g} ELSE After(f[k - 1], k)]
           S == {m \in Nat : \E f : f = F(f, m)}
<1>1. Versions(p, t, g) = CHOOSE f : f = F(f, Len(script[p]))
  BY DEF Versions, NextVersions
<1> HIDE DEF After
<1>2. 0 \in S
  <2> DEFINE h == [k \in 0 .. 0 |-> {g}]
  <2>1. h = F(h, 0)
    OBVIOUS
  <2> QED
    BY <2>1
<1>3. ASSUME NEW m \in Nat, m \in S
      PROVE  m + 1 \in S
  <2>1. PICK f : f = F(f, m)
    BY <1>3
  <2> DEFINE h == [k \in 0 .. (m + 1) |-> IF k = m + 1 THEN After(f[m], m + 1) ELSE f[k]]
  <2>2. /\ h[m + 1] = After(f[m], m + 1)
        /\ \A k \in 0 .. m : h[k] = f[k]
    OBVIOUS
  <2>3. f[0] = {g} /\ \A k \in 1 .. m : f[k] = After(f[k - 1], k)
    <3>1. \A k \in 0 .. m : f[k] = F(f, m)[k]
      BY <2>1
    <3>2. \A k \in 0 .. m : F(f, m)[k] = IF k = 0 THEN {g} ELSE After(f[k - 1], k)
      OBVIOUS
    <3> HIDE DEF F
    <3> QED
      BY <3>1, <3>2
  <2> HIDE DEF h
  <2>4. \A k \in 0 .. (m + 1) : h[k] = IF k = 0 THEN {g} ELSE After(h[k - 1], k)
    <3>1. 0 \in 0 .. m
      OBVIOUS
    <3>2. h[0] = {g}
      BY <2>2, <2>3, <3>1
    <3>3. ASSUME NEW k \in 1 .. m
          PROVE  h[k] = After(h[k - 1], k)
      BY <2>2, <2>3
    <3>4. h[m + 1] = After(h[(m + 1) - 1], m + 1)
      BY <2>2
    <3>5. ASSUME NEW k \in 0 .. (m + 1)
          PROVE  k = 0 \/ k \in 1 .. m \/ k = m + 1
      OBVIOUS
    <3>6. ASSUME NEW k \in 0 .. (m + 1)
          PROVE  h[k] = IF k = 0 THEN {g} ELSE After(h[k - 1], k)
      <4>1. CASE k = 0
        BY <3>2, <4>1
      <4>2. CASE k \in 1 .. m
        BY <3>3, <4>2
      <4>3. CASE k = m + 1
        BY <3>4, <4>3
      <4> QED
        BY <3>5, <4>1, <4>2, <4>3
    <3> QED
      BY <3>6
  <2>5. h = F(h, m + 1)
    BY <2>4 DEF h
  <2> QED
    BY <2>5
<1>4. Len(script[p]) \in S
  <2> HIDE DEF S
  <2> QED
    BY <1>2, <1>3, NatSetInduction
<1>5. \E f : f = F(f, Len(script[p]))
  BY <1>4
<1>6. Versions(p, t, g) = F(Versions(p, t, g), Len(script[p]))
  BY <1>1, <1>5
<1> DEFINE P == Versions(p, t, g)
<1> HIDE DEF P
<1>7. P[0] = {g}
  BY <1>6 DEF P
<1>8. ASSUME NEW k \in 1 .. Len(script[p])
      PROVE  P[k] = After(P[k - 1], k)
  <2>1. P = F(P, Len(script[p]))
    BY <1>6 DEF P
  <2>2. F(P, Len(script[p]))[k] = After(P[k - 1], k)
    OBVIOUS
  <2> HIDE DEF F
  <2> QED
    BY <2>1, <2>2
<1> QED
  BY <1>7, <1>8 DEF After, P

\* The lines that may have been shown once one more statement of p is done.
NextOutputs(p, k, X) ==
  {lines \o SelectOutput(orig[Schema(script[p][k].table)], c, script[p][k]) :
     lines \in X, c \in AnyVersion(script[p][k].table) \ {NoFile}}

\* The recursion of PossibleOutputs is well defined.
LEMMA OutputsSteps ==
  ASSUME NEW p, Len(script[p]) \in Nat
  PROVE  /\ PossibleOutputs(p)[0] = {<<>>}
         /\ \A k \in 1 .. Len(script[p]) :
              PossibleOutputs(p)[k] = NextOutputs(p, k, PossibleOutputs(p)[k - 1])
<1> DEFINE After(X, k) == NextOutputs(p, k, X)
           F(f, m) == [k \in 0 .. m |-> IF k = 0 THEN {<<>>} ELSE After(f[k - 1], k)]
           S == {m \in Nat : \E f : f = F(f, m)}
<1>1. PossibleOutputs(p) = CHOOSE f : f = F(f, Len(script[p]))
  BY DEF PossibleOutputs, NextOutputs
<1> HIDE DEF After
<1>2. 0 \in S
  <2> DEFINE g == [k \in 0 .. 0 |-> {<<>>}]
  <2>1. g = F(g, 0)
    OBVIOUS
  <2> QED
    BY <2>1
<1>3. ASSUME NEW m \in Nat, m \in S
      PROVE  m + 1 \in S
  <2>1. PICK f : f = F(f, m)
    BY <1>3
  <2> DEFINE g == [k \in 0 .. (m + 1) |-> IF k = m + 1 THEN After(f[m], m + 1) ELSE f[k]]
  <2>2. /\ g[m + 1] = After(f[m], m + 1)
        /\ \A k \in 0 .. m : g[k] = f[k]
    OBVIOUS
  <2>3. f[0] = {<<>>} /\ \A k \in 1 .. m : f[k] = After(f[k - 1], k)
    <3>1. \A k \in 0 .. m : f[k] = F(f, m)[k]
      BY <2>1
    <3>2. \A k \in 0 .. m : F(f, m)[k] = IF k = 0 THEN {<<>>} ELSE After(f[k - 1], k)
      OBVIOUS
    <3> HIDE DEF F
    <3> QED
      BY <3>1, <3>2
  <2> HIDE DEF g
  <2>4. \A k \in 0 .. (m + 1) : g[k] = IF k = 0 THEN {<<>>} ELSE After(g[k - 1], k)
    <3>1. 0 \in 0 .. m
      OBVIOUS
    <3>2. g[0] = {<<>>}
      BY <2>2, <2>3, <3>1
    <3>3. ASSUME NEW k \in 1 .. m
          PROVE  g[k] = After(g[k - 1], k)
      BY <2>2, <2>3
    <3>4. g[m + 1] = After(g[(m + 1) - 1], m + 1)
      BY <2>2
    <3>5. ASSUME NEW k \in 0 .. (m + 1)
          PROVE  k = 0 \/ k \in 1 .. m \/ k = m + 1
      OBVIOUS
    <3>6. ASSUME NEW k \in 0 .. (m + 1)
          PROVE  g[k] = IF k = 0 THEN {<<>>} ELSE After(g[k - 1], k)
      <4>1. CASE k = 0
        BY <3>2, <4>1
      <4>2. CASE k \in 1 .. m
        BY <3>3, <4>2
      <4>3. CASE k = m + 1
        BY <3>4, <4>3
      <4> QED
        BY <3>5, <4>1, <4>2, <4>3
    <3> QED
      BY <3>6
  <2>5. g = F(g, m + 1)
    BY <2>4 DEF g
  <2> QED
    BY <2>5
<1>4. Len(script[p]) \in S
  <2> HIDE DEF S
  <2> QED
    BY <1>2, <1>3, NatSetInduction
<1>5. \E f : f = F(f, Len(script[p]))
  BY <1>4
<1>6. PossibleOutputs(p) = F(PossibleOutputs(p), Len(script[p]))
  BY <1>1, <1>5
<1> DEFINE P == PossibleOutputs(p)
<1> HIDE DEF P
<1>7. P[0] = {<<>>}
  BY <1>6 DEF P
<1>8. ASSUME NEW k \in 1 .. Len(script[p])
      PROVE  P[k] = After(P[k - 1], k)
  <2>1. P = F(P, Len(script[p]))
    BY <1>6 DEF P
  <2>2. F(P, Len(script[p]))[k] = After(P[k - 1], k)
    OBVIOUS
  <2> HIDE DEF F
  <2> QED
    BY <2>1, <2>2
<1> QED
  BY <1>7, <1>8 DEF After, P

\* A statement on another table leaves t as it is; one on t adds to it.
LEMMA OneMoreVersion ==
  ASSUME NEW p, NEW t, NEW g, Len(script[p]) \in Nat, NEW k \in 1 .. Len(script[p]),
         NEW c \in Versions(p, t, g)[k - 1], NEW d,
         IF script[p][k].table # t THEN d = c
         ELSE /\ Accepts(orig[Schema(t)], c, script[p][k])
              /\ d = FileAfter(orig[Schema(t)], c, script[p][k])
  PROVE  d \in Versions(p, t, g)[k]
<1>1. Versions(p, t, g)[k] = NextVersions(p, t, k, Versions(p, t, g)[k - 1])
  BY VersionsSteps
<1> DEFINE X == Versions(p, t, g)[k - 1]
<1> HIDE DEF X
<1>2. c \in X /\ Versions(p, t, g)[k] = NextVersions(p, t, k, X)
  BY <1>1 DEF X
<1>3. CASE script[p][k].table # t
  BY <1>2, <1>3 DEF NextVersions
<1>4. CASE script[p][k].table = t
  BY <1>2, <1>4 DEF NextVersions
<1> QED
  BY <1>3, <1>4

\* Statements on other tables leave t as it was found.
LEMMA UnusedTable ==
  ASSUME NEW p, NEW t, NEW g, Len(script[p]) \in Nat, NEW m \in 0 .. Len(script[p]),
         \A j \in 1 .. m : script[p][j].table # t
  PROVE  g \in Versions(p, t, g)[m]
<1> DEFINE S == {k \in Nat : k <= m => g \in Versions(p, t, g)[k]}
<1>1. 0 \in S
  BY VersionsSteps
<1>2. ASSUME NEW k \in Nat, k \in S
      PROVE  k + 1 \in S
  <2>1. SUFFICES ASSUME k + 1 <= m
                 PROVE  g \in Versions(p, t, g)[k + 1]
    OBVIOUS
  <2>2. k + 1 \in 1 .. Len(script[p]) /\ (k + 1) - 1 = k /\ script[p][k + 1].table # t
    BY <2>1
  <2>3. g \in Versions(p, t, g)[(k + 1) - 1]
    BY <1>2, <2>1, <2>2
  <2> QED
    BY <2>2, <2>3, OneMoreVersion
<1>3. m \in S
  <2> HIDE DEF S
  <2> QED
    BY <1>1, <1>2, NatSetInduction
<1> QED
  BY <1>3

\* A SELECT adds what it reads of one version.
LEMMA OneMoreOutput ==
  ASSUME NEW p, Len(script[p]) \in Nat, NEW k \in 1 .. Len(script[p]),
         NEW lines \in PossibleOutputs(p)[k - 1],
         NEW c \in AnyVersion(script[p][k].table) \ {NoFile}
  PROVE  lines \o SelectOutput(orig[Schema(script[p][k].table)], c, script[p][k])
           \in PossibleOutputs(p)[k]
<1>1. PossibleOutputs(p)[k] = NextOutputs(p, k, PossibleOutputs(p)[k - 1])
  BY OutputsSteps
<1> DEFINE X == PossibleOutputs(p)[k - 1]
<1> HIDE DEF X
<1>2. lines \in X /\ PossibleOutputs(p)[k] = NextOutputs(p, k, X)
  BY <1>1 DEF X
<1> QED
  BY <1>2 DEF NextOutputs

----------------------------------------------------------------------------
(***************************************************************************)
(* Which scripts a copy of a table is the work of.                         *)
(***************************************************************************)
\* The processes that may have put a file of theirs in place.
Started == {p \in Procs : pc[p] \notin EarlyLabels}

\* The contents c of table t are as found, or the work of one script of W, or
\* that of two.
Descends(c, W, t) ==
  \/ c \in Found(t)
  \/ \E p \in W, f \in Found(t) : c \in WholeVersions(p, t, f)
  \/ \E p \in W : \E q \in W \ {p}, f \in Found(t) :
       \E g \in WholeVersions(q, t, f) : c \in WholeVersions(p, t, g)

\* The premise: no more scripts than AnyVersion counts on.
AtMostTwo == \E a, b : Procs = {a, b}

\* What nobody changes while the scripts run.
LEMMA VersionsStay ==
  ASSUME UNCHANGED <<orig, script>>
  PROVE  /\ \A p, t, f : Versions(p, t, f)' = Versions(p, t, f)
         /\ \A p, t, f : WholeVersions(p, t, f)' = WholeVersions(p, t, f)
         /\ \A p : PossibleOutputs(p)' = PossibleOutputs(p)
<1>1. \A p, t, f : Versions(p, t, f)' = Versions(p, t, f)
  BY DEF Versions
<1>2. \A p, t, f : WholeVersions(p, t, f)' = WholeVersions(p, t, f)
  BY <1>1 DEF WholeVersions
<1>3. \A t : AnyVersion(t)' = AnyVersion(t)
  BY <1>2 DEF AnyVersion, Found
<1>4. \A p : PossibleOutputs(p)' = PossibleOutputs(p)
  BY DEF PossibleOutputs, AnyVersion, Found, WholeVersions, Versions
<1> QED
  BY <1>1, <1>2, <1>4

\* More scripts may have done more.
LEMMA DescendsStays ==
  ASSUME NEW c, NEW W, NEW X, NEW t, Descends(c, W, t), W \subseteq X, UNCHANGED <<orig, script>>
  PROVE  Descends(c, X, t)'
<1>1. \A p, f : WholeVersions(p, t, f)' = WholeVersions(p, t, f)
  BY VersionsStay
<1>2. Found(t)' = Found(t)
  BY DEF Found
<1> QED
  BY <1>1, <1>2 DEF Descends

\* As one of two processes, p works on what the other may have left.
LEMMA PairDescends ==
  ASSUME AtMostTwo, NEW p \in Procs, NEW t, NEW f, Descends(f, Started \ {p}, t),
         NEW c \in WholeVersions(p, t, f), p \in Started
  PROVE  Descends(c, Started, t)
<1>1. \A q \in Started \ {p} : (Started \ {p}) \ {q} = {}
  BY DEF AtMostTwo, Started
<1>2. \/ f \in Found(t)
      \/ \E q \in Started \ {p}, g \in Found(t) : f \in WholeVersions(q, t, g)
  BY <1>1 DEF Descends
<1> QED
  BY <1>2 DEF Descends

\* There is no other version.
LEMMA DescendsIsVersion ==
  ASSUME NEW c, NEW t, Descends(c, Started, t)
  PROVE  c \in AnyVersion(t)
<1> DEFINE once  == UNION {WholeVersions(p, t, f) : p \in Procs, f \in Found(t)}
           twice == UNION {WholeVersions(p, t, f) : p \in Procs, f \in once}
<1>1. AnyVersion(t) = Found(t) \cup once \cup twice
  BY DEF AnyVersion
<1>2. Started \subseteq Procs
  BY DEF Started
<1>3. \A p \in Procs, f \in Found(t) : \A d \in WholeVersions(p, t, f) : d \in once
  OBVIOUS
<1>4. \A p \in Procs : \A f \in once : \A d \in WholeVersions(p, t, f) : d \in twice
  OBVIOUS
<1> HIDE DEF once, twice
<1>5. CASE c \in Found(t)
  BY <1>1, <1>5
<1>6. CASE \E p \in Started, f \in Found(t) : c \in WholeVersions(p, t, f)
  BY <1>1, <1>2, <1>3, <1>6
<1>7. CASE \E p \in Started : \E q \in Started \ {p}, f \in Found(t) :
             \E g \in WholeVersions(q, t, f) : c \in WholeVersions(p, t, g)
  <2>1. \E p \in Started, q \in Started, f \in Found(t) :
          \E g \in WholeVersions(q, t, f) : c \in WholeVersions(p, t, g)
    BY <1>7
  <2>2. PICK p \in Started, q \in Started, f \in Found(t) :
          \E g \in WholeVersions(q, t, f) : c \in WholeVersions(p, t, g)
    BY <2>1
  <2>4. PICK g \in WholeVersions(q, t, f) : c \in WholeVersions(p, t, g)
    BY <2>2
  <2>3. g \in once
    BY <1>2, <1>3, <2>2, <2>4
  <2> QED
    BY <1>1, <1>2, <1>4, <2>2, <2>3, <2>4
<1> QED
  BY <1>5, <1>6, <1>7 DEF Descends

----------------------------------------------------------------------------
(***************************************************************************)
(* The inductive invariant.                                                *)
(***************************************************************************)
\* The premise: two scripts, tables apart from the reserved names, and no file
\* that is there passes for missing.  Every other call may fail, and a process
\* be killed, anywhere.
TwoShare == AtMostTwo /\ NamesFree /\ "exists" \notin FaultPoints

\* Of every table the live files are some version, with the schema as found.
LiveDescends ==
  \A t \in Tables : Descends(live[Csv(t)], Started, t) /\ live[Schema(t)] = orig[Schema(t)]

\* So is every backup of a touched CSV file; there is none before the commit.
BackupsDescend(p) ==
  /\ pc[p] \in EarlyLabels => \A i \in Index : stage[p][Rollback(i)] = NoFile
  /\ \A k \in DOMAIN touched[p], t \in Tables :
       touched[p][k] = Csv(t) => Descends(stage[p][Rollback(k - 1)], Started, t)

\* Only a script with an INSERT stages and commits.
StagedOnly(p) ==
  pc[p] \in {"mkdir", "stageCsv", "copyCsv", "stageSchema"} \cup CommitLabels \cup UndoLabels
    => Staging(p)

\* A schema is staged as found, before a statement needs it.
SchemaCopies(p) ==
  /\ pc[p] \in StatementLabels => \A t \in Tables : stage[p][Schema(t)] \in {NoFile, orig[Schema(t)]}
  /\ pc[p] = "exec" /\ Staging(p) => stage[p][Schema(Stmt(p).table)] = orig[Schema(Stmt(p).table)]

\* The stage copy of t is what p's statements so far make of some version that
\* is not p's own; without a copy none of them was on t.
CopyDescends(p, t) ==
  LET c == stage[p][Csv(t)] IN
  IF c = NoFile THEN \A j \in 1 .. (idx[p] - 1) : script[p][j].table # t
  ELSE \E f : Descends(f, Started \ {p}, t) /\ c \in Versions(p, t, f)[idx[p] - 1]

CopiesDescend(p) ==
  /\ pc[p] \in WorkLabels /\ Staging(p) => \A t \in Tables : CopyDescends(p, t)
  /\ pc[p] = "copyCsv" => stage[p][Csv(Stmt(p).table)] = NoFile

\* The file to be moved into place is the finished stage copy.
TempReady(p) ==
  /\ pc[p] \in EndLabels => idx[p] = Len(script[p]) + 1
  /\ pc[p] \in {"commitCheck", "backup", "replace"} =>
       stage[p][Temp(p)] = stage[p][Target(p)] /\ stage[p][Temp(p)] # NoFile

\* A script that only reads has buffered, and in the end shown, whole versions.
ReadsVersions(p) ==
  ~Staging(p) =>
    /\ pc[p] = "exec" => buf[p] \in PossibleOutputs(p)[idx[p] - 1]
    /\ pc[p] = "flush" => buf[p] \in PossibleOutputs(p)[Len(script[p])]
    /\ pc[p] \in {"cleanup", "done"} /\ err[p] = "none" =>
         out[p] \in PossibleOutputs(p)[Len(script[p])]

Works(p) ==
  /\ FreshStage(p)
  /\ StagedOnly(p)
  /\ SchemaCopies(p)
  /\ CopiesDescend(p)
  /\ TempReady(p)
  /\ ReadsVersions(p)

Shared ==
  /\ Typed
  /\ WritesAreStaged
  /\ LiveDescends
  /\ \A p \in Procs : BackupsDescend(p) /\ Works(p)

----------------------------------------------------------------------------
(***************************************************************************)
(* Steps that leave most of it alone.                                      *)
(***************************************************************************)
\* Once started a script stays so, and a step starts no other.
LEMMA StartedStays ==
  ASSUME NEW p \in Procs, Typed, Step(p) \/ Crash(p)
  PROVE  Started \subseteq Started' /\ Started' \ {p} = Started \ {p}
<1>1. \A q \in Procs \ {p} : pc'[q] = pc[q]
  BY OthersStay
<1>2. pc[p] \notin EarlyLabels => pc'[p] \notin EarlyLabels
  <2> SUFFICES ASSUME pc[p] \notin EarlyLabels
               PROVE  pc'[p] \notin EarlyLabels
    OBVIOUS
  <2> USE DEF EarlyLabels, StatementLabels
  <2>1. TypeOK
    BY DEF Typed
  <2>2. CASE CommitCopy(p) \/ CommitCheck(p) \/ BackUpOriginal(p) \/ RestoreCurrent(p)
    BY <2>1, <2>2, Moves DEF CommitCopy, CommitCheck, BackUpOriginal, RestoreCurrent
  <2>3. CASE Replace(p) \/ Flush(p)
    BY <2>1, <2>3, Moves DEF Replace, Flush
  <2>4. CASE RollbackCheck(p) \/ RollbackRemove(p)
    BY <2>1, <2>4, Moves DEF RollbackCheck, RollbackRemove, Removed, Undone
  <2>5. CASE RollbackMove(p)
    BY <2>1, <2>5, Moves DEF RollbackMove, Undone
  <2>7. CASE RollbackEnds(p) \/ Cleanup(p)
    <3>1. Proceed(p, "cleanup") \/ Proceed(p, "done")
      BY <2>7 DEF RollbackEnds, Cleanup
    <3> QED
      BY <2>1, <3>1, Moves
  <2>6. CASE Crash(p)
    BY <2>6 DEF Crash
  <2> QED
    BY <2>2, <2>3, <2>4, <2>5, <2>6, <2>7 DEF Step, MakeStageDir, OpenBuffer, StageCsv, CopyCsv, StageSchema,
       ExecuteStatement, DieOnSchema
<1> QED
  BY <1>1, <1>2 DEF Started

\* A file that is left alone is still a version.
LEMMA StillDescends ==
  ASSUME NEW p \in Procs, Typed, Step(p) \/ Crash(p), NEW c, NEW t, Descends(c, Started, t)
  PROVE  Descends(c, Started, t)'
<1>1. Started \subseteq Started' /\ UNCHANGED <<orig, script>>
  BY StartedStays, OthersStay
<1> QED
  BY <1>1, DescendsStays

\* The stage copy of t is left alone, and so is the number of statements done.
LEMMA CopyStays ==
  ASSUME NEW p \in Procs, NEW q \in Procs, Typed, Step(q) \/ Crash(q), NEW t, CopyDescends(p, t),
         stage'[p][Csv(t)] = stage[p][Csv(t)], idx'[p] = idx[p]
  PROVE  CopyDescends(p, t)'
<1>1. Started \subseteq Started' /\ UNCHANGED <<orig, script>>
  BY StartedStays, OthersStay
<1>2. CASE stage[p][Csv(t)] = NoFile
  BY <1>1, <1>2 DEF CopyDescends
<1>3. CASE stage[p][Csv(t)] # NoFile
  <2>1. PICK f : Descends(f, Started \ {p}, t) /\ stage[p][Csv(t)] \in Versions(p, t, f)[idx[p] - 1]
    BY <1>3 DEF CopyDescends
  <2>2. Started \ {p} \subseteq Started' \ {p}
    BY <1>1
  <2>3. Descends(f, Started \ {p}, t)'
    BY <1>1, <2>1, <2>2, DescendsStays
  <2>4. Versions(p, t, f)' = Versions(p, t, f)
    BY <1>1, VersionsStay
  <2> QED
    BY <1>3, <2>1, <2>3, <2>4 DEF CopyDescends
<1> QED
  BY <1>2, <1>3

\* The live files are left alone.
LEMMA LiveStays ==
  ASSUME NEW p \in Procs, Typed, LiveDescends, Step(p) \/ Crash(p), live' = live
  PROVE  LiveDescends'
<1> SUFFICES ASSUME NEW t \in Tables
             PROVE  Descends(live[Csv(t)], Started, t)' /\ live'[Schema(t)] = orig'[Schema(t)]
  BY DEF LiveDescends
<1>1. UNCHANGED orig
  BY OthersStay
<1>2. Descends(live[Csv(t)], Started, t) /\ live[Schema(t)] = orig[Schema(t)]
  BY DEF LiveDescends
<1>3. PICK c : c = live[Csv(t)]
  OBVIOUS
<1>4. Descends(c, Started, t)'
  BY <1>2, <1>3, StillDescends
<1> QED
  BY <1>1, <1>2, <1>3, <1>4

\* One live CSV file is put in place or taken away.
LEMMA LivePut ==
  ASSUME NEW p \in Procs, Typed, LiveDescends, Step(p) \/ Crash(p),
         NEW u \in Tables, NEW c, PutLive(Csv(u), c), Descends(c, Started, u)
  PROVE  LiveDescends'
<1> SUFFICES ASSUME NEW t \in Tables
             PROVE  Descends(live[Csv(t)], Started, t)' /\ live'[Schema(t)] = orig'[Schema(t)]
  BY DEF LiveDescends
<1>1. UNCHANGED orig
  BY OthersStay
<1>2. Csv(u) \in TableFiles /\ Csv(t) \in TableFiles /\ Schema(t) \in TableFiles
  BY StageNames
<1>3. live'[Csv(u)] = c /\ \A m \in TableFiles : m # Csv(u) => live'[m] = live[m]
  BY <1>2, OneLive DEF Typed
<1>4. Schema(t) # Csv(u) /\ (t # u => Csv(t) # Csv(u))
  BY DEF Schema, Csv
<1>5. Descends(live[Csv(t)], Started, t) /\ live[Schema(t)] = orig[Schema(t)]
  BY DEF LiveDescends
<1>6. PICK d : d = live'[Csv(t)]
  OBVIOUS
<1>7. Descends(d, Started, t)
  BY <1>2, <1>3, <1>4, <1>5, <1>6
<1>8. Descends(d, Started, t)'
  BY <1>7, StillDescends
<1> QED
  BY <1>1, <1>2, <1>3, <1>4, <1>5, <1>6, <1>8

\* A missing file is always possible.
LEMMA NothingDescends ==
  ASSUME NEW W, NEW t
  PROVE  Descends(NoFile, W, t)
  BY DEF Descends, Found

\* The touched CSV files are those of tables.
LEMMA TouchedTable ==
  ASSUME NEW p \in Procs, TypeOK, NEW k \in DOMAIN touched[p]
  PROVE  \E u \in Tables : touched[p][k] = Csv(u)
  BY TouchedNames DEF CsvFiles

\* No backup is made, and the touched CSV files are left alone.
LEMMA BackupsStay ==
  ASSUME NEW p \in Procs, NEW q \in Procs, Typed, Step(q) \/ Crash(q), BackupsDescend(p),
         pc'[p] \in EarlyLabels => pc[p] \in EarlyLabels, touched'[p] = touched[p],
         \A i \in Index : stage'[p][Rollback(i)] \in {stage[p][Rollback(i)], NoFile}
  PROVE  BackupsDescend(p)'
<1>1. pc'[p] \in EarlyLabels => \A i \in Index : stage'[p][Rollback(i)] = NoFile
  BY DEF BackupsDescend
<1>2. ASSUME NEW k \in DOMAIN touched[p], NEW t \in Tables, touched[p][k] = Csv(t)
      PROVE  Descends(stage[p][Rollback(k - 1)], Started, t)'
  <2>1. k - 1 \in Index
    BY TouchedIndex DEF Typed
  <2>2. PICK c : c = stage'[p][Rollback(k - 1)]
    OBVIOUS
  <2>3. Descends(c, Started, t)
    BY <1>2, <2>1, <2>2, NothingDescends DEF BackupsDescend
  <2>4. Descends(c, Started, t)'
    BY <2>3, StillDescends
  <2> QED
    BY <2>2, <2>4
<1> QED
  BY <1>1, <1>2 DEF BackupsDescend

\* There is no backup before the commit.
LEMMA NoBackups ==
  ASSUME NEW p \in Procs, Typed', \A i \in Index : stage'[p][Rollback(i)] = NoFile
  PROVE  BackupsDescend(p)'
<1>1. ASSUME NEW k \in DOMAIN touched'[p], NEW t \in Tables
      PROVE  Descends(stage[p][Rollback(k - 1)], Started, t)'
  <2>1. /\ touched'[p] \in Seq(CsvFiles) /\ idx'[p] \in 1 .. (MaxStatements + 1)
        /\ Len(touched'[p]) < idx'[p]
    BY DEF Typed, TypeOK, ListsInStep, InStep
  <2>2. k \in 1 .. Len(touched'[p]) /\ Len(touched'[p]) \in Nat
    BY <2>1, LenProperties
  <2>3. k - 1 \in Index
    BY <2>1, <2>2, MaxStatementsIsPositive DEF Index
  <2>4. PICK c : c = stage'[p][Rollback(k - 1)]
    OBVIOUS
  <2>5. Descends(c, Started, t)'
    BY <2>3, <2>4 DEF Descends, Found
  <2> QED
    BY <2>4, <2>5
<1> QED
  BY <1>1 DEF BackupsDescend

\* A script that only cleans up, or undoes its commit, makes no version.
LEMMA OverWorks ==
  ASSUME NEW p \in Procs, pc'[p] \in UndoLabels \cup {"cleanup", "done"},
         pc'[p] \in UndoLabels => Staging(p)', ReadsVersions(p)'
  PROVE  Works(p)'
<1> USE DEF EarlyLabels, StatementLabels, CommitLabels, UndoLabels, EndLabels, WorkLabels
<1>1. FreshStage(p)' /\ StagedOnly(p)'
  BY DEF FreshStage, StagedOnly
<1>2. SchemaCopies(p)' /\ CopiesDescend(p)' /\ TempReady(p)'
  BY DEF SchemaCopies, CopiesDescend, TempReady
<1> QED
  BY <1>1, <1>2 DEF Works

\* A failed script shows nothing for success.
LEMMA FailedWorks ==
  ASSUME NEW p \in Procs, pc'[p] \in {"cleanup", "done"}, err'[p] # "none"
  PROVE  Works(p)'
<1>1. ReadsVersions(p)'
  BY DEF ReadsVersions
<1> QED
  BY <1>1, OverWorks DEF UndoLabels

\* The commit leaves the stage copies alone.
LEMMA CommitWorks ==
  ASSUME NEW p \in Procs, Typed, Works(p), Step(p), pc[p] \in EndLabels, pc'[p] \in EndLabels,
         Staging(p), idx'[p] = idx[p], \A n \in TableFiles : stage'[p][n] = stage[p][n],
         TempReady(p)'
  PROVE  Works(p)'
<1> USE DEF EarlyLabels, StatementLabels, CommitLabels, UndoLabels, EndLabels, WorkLabels
<1>1. Staging(p)'
  BY OthersStay DEF Staging
<1>2. FreshStage(p)' /\ StagedOnly(p)' /\ ReadsVersions(p)'
  BY <1>1 DEF FreshStage, StagedOnly, ReadsVersions
<1>3. SchemaCopies(p)'
  BY DEF SchemaCopies
<1>4. ASSUME NEW t \in Tables
      PROVE  CopyDescends(p, t)'
  <2>1. CopyDescends(p, t)
    BY DEF Works, CopiesDescend
  <2>2. stage'[p][Csv(t)] = stage[p][Csv(t)]
    BY StageNames
  <2> QED
    BY <2>1, <2>2, CopyStays
<1>5. CopiesDescend(p)'
  BY <1>4 DEF CopiesDescend
<1> QED
  BY <1>2, <1>3, <1>5 DEF Works

\* A script that takes no step of its own.
LEMMA StillWorks ==
  ASSUME NEW p \in Procs, NEW q \in Procs, Typed, Works(p), Step(q) \/ Crash(q),
         pc'[p] = pc[p], idx'[p] = idx[p], stage'[p] = stage[p], touched'[p] = touched[p],
         committed'[p] = committed[p], buf'[p] = buf[p], err'[p] = err[p],
         out'[p] = out[p] \/ pc[p] = "flush"
  PROVE  Works(p)'
<1>1. UNCHANGED <<orig, script>>
  BY OthersStay
<1>2. Staging(p)' = Staging(p) /\ Stmt(p)' = Stmt(p) /\ Target(p)' = Target(p) /\ Temp(p)' = Temp(p)
  BY <1>1 DEF Staging, Stmt, Target, Temp
<1>3. FreshStage(p)' /\ StagedOnly(p)' /\ TempReady(p)'
  BY <1>1, <1>2 DEF Works, FreshStage, StagedOnly, TempReady
<1>4. SchemaCopies(p)'
  BY <1>1, <1>2 DEF Works, SchemaCopies
<1>5. CopiesDescend(p)'
  <2>1. \A t \in Tables : CopyDescends(p, t) => CopyDescends(p, t)'
    BY CopyStays
  <2> QED
    BY <1>2, <2>1 DEF Works, CopiesDescend
<1>6. ReadsVersions(p)'
  <2>1. PossibleOutputs(p)' = PossibleOutputs(p)
    BY <1>1, VersionsStay
  <2> QED
    BY <1>1, <1>2, <2>1 DEF Works, ReadsVersions
<1> QED
  BY <1>3, <1>4, <1>5, <1>6 DEF Works

----------------------------------------------------------------------------
(***************************************************************************)
(* The steps before the commit.                                            *)
(***************************************************************************)
LEMMA EarlyStep ==
  ASSUME NEW p \in Procs, Shared, Typed', Step(p), pc[p] \in EarlyLabels, live' = live,
         \A i \in Index : stage'[p][Rollback(i)] = stage[p][Rollback(i)]
  PROVE  BackupsDescend(p)' /\ LiveDescends'
<1>1. \A i \in Index : stage'[p][Rollback(i)] = NoFile
  BY DEF Shared, BackupsDescend
<1> QED
  BY <1>1, NoBackups, LiveStays DEF Shared

\* create_stage_dir.
LEMMA MakeStageDirShares ==
  ASSUME NEW p \in Procs, TwoShare, Shared, Typed', MakeStageDir(p), Step(p)
  PROVE  Works(p)' /\ BackupsDescend(p)' /\ LiveDescends'
<1>1. TypeOK /\ pc[p] = "mkdir" /\ Works(p)
  BY DEF Shared, Typed, MakeStageDir
<1>2. UNCHANGED <<live, script, idx, stage>>
  BY DEF MakeStageDir, program
<1>3. BackupsDescend(p)' /\ LiveDescends'
  BY <1>1, <1>2, EarlyStep DEF EarlyLabels
<1>4. pc'[p] = "buffer" \/ (pc'[p] = "done" /\ err'[p] = "io")
  BY <1>1, Moves DEF MakeStageDir
<1>5. CASE pc'[p] = "done" /\ err'[p] = "io"
  BY <1>3, <1>5, FailedWorks
<1>6. CASE pc'[p] = "buffer"
  <2> USE DEF EarlyLabels, StatementLabels, CommitLabels, UndoLabels, EndLabels, WorkLabels
  <2>1. FreshStage(p)'
    BY <1>1, <1>2, <1>6 DEF Works, FreshStage
  <2>2. StagedOnly(p)' /\ SchemaCopies(p)' /\ CopiesDescend(p)' /\ TempReady(p)' /\ ReadsVersions(p)'
    BY <1>6 DEF StagedOnly, SchemaCopies, CopiesDescend, TempReady, ReadsVersions
  <2> QED
    BY <1>3, <2>1, <2>2 DEF Works
<1> QED
  BY <1>4, <1>5, <1>6

\* create_temp_file_in_dir.
LEMMA OpenBufferShares ==
  ASSUME NEW p \in Procs, TwoShare, Shared, Typed', OpenBuffer(p), Step(p)
  PROVE  Works(p)' /\ BackupsDescend(p)' /\ LiveDescends'
<1>1. TypeOK /\ pc[p] = "buffer" /\ Works(p)
  BY DEF Shared, Typed, OpenBuffer
<1>2. UNCHANGED <<live, orig, script, idx, stage>>
  BY DEF OpenBuffer, program
<1>3. BackupsDescend(p)' /\ LiveDescends'
  BY <1>1, <1>2, EarlyStep DEF EarlyLabels
<1>4. (buf'[p] = <<>> /\ pc'[p] = FirstLabel(p)) \/ (pc'[p] = "cleanup" /\ err'[p] = "io")
  BY <1>1, Moves DEF OpenBuffer, TypeOK
<1>5. CASE pc'[p] = "cleanup" /\ err'[p] = "io"
  BY <1>3, <1>5, FailedWorks
<1>6. CASE buf'[p] = <<>> /\ pc'[p] = FirstLabel(p)
  <2> USE DEF EarlyLabels, StatementLabels, CommitLabels, UndoLabels, EndLabels, WorkLabels, FirstLabel
  <2>1. idx'[p] = 1 /\ \A n \in StageFiles : stage'[p][n] = NoFile
    BY <1>1, <1>2 DEF Works, FreshStage
  <2>2. Staging(p)' = Staging(p)
    BY <1>2 DEF Staging
  <2>3. FreshStage(p)' /\ StagedOnly(p)' /\ TempReady(p)'
    BY <1>6, <2>2 DEF FreshStage, StagedOnly, TempReady
  <2>4. SchemaCopies(p)'
    BY <1>6, <2>1, <2>2, StageNames DEF SchemaCopies
  <2>5. CopiesDescend(p)'
    <3>1. \A t \in Tables : CopyDescends(p, t)'
      BY <2>1, StageNames DEF CopyDescends
    <3> QED
      BY <1>6, <3>1 DEF CopiesDescend
  <2>6. ReadsVersions(p)'
    <3>1. Len(script[p]) \in Nat
      BY <1>1, LenProperties DEF TypeOK
    <3>2. PossibleOutputs(p)[0] = {<<>>}
      BY <3>1, OutputsSteps
    <3>3. PossibleOutputs(p)' = PossibleOutputs(p)
      BY <1>2, VersionsStay
    <3>4. buf'[p] \in PossibleOutputs(p)'[idx'[p] - 1]
      BY <1>6, <2>1, <3>2, <3>3
    <3> QED
      BY <1>6, <3>4 DEF ReadsVersions
  <2> QED
    BY <1>3, <2>3, <2>4, <2>5, <2>6 DEF Works
<1> QED
  BY <1>4, <1>5, <1>6

\* A step of ensure_staged_table.
LEMMA StagingWorks ==
  ASSUME NEW p \in Procs, Typed, Works(p), Step(p), pc[p] \in {"stageCsv", "copyCsv", "stageSchema"},
         pc'[p] \in StatementLabels, idx'[p] = idx[p], SchemaCopies(p)',
         \A t \in Tables : CopyDescends(p, t)',
         pc'[p] = "copyCsv" => stage'[p][Csv(Stmt(p).table)] = NoFile
  PROVE  Works(p)'
<1> USE DEF EarlyLabels, StatementLabels, CommitLabels, UndoLabels, EndLabels, WorkLabels
<1>1. UNCHANGED <<orig, script>>
  BY OthersStay
<1>2. Staging(p)' = Staging(p) /\ Stmt(p)' = Stmt(p)
  BY <1>1 DEF Staging, Stmt
<1>3. Staging(p)
  BY DEF Works, StagedOnly
<1>4. FreshStage(p)' /\ StagedOnly(p)' /\ TempReady(p)' /\ ReadsVersions(p)'
  BY <1>2, <1>3 DEF FreshStage, StagedOnly, TempReady, ReadsVersions
<1>5. CopiesDescend(p)'
  BY <1>2 DEF CopiesDescend
<1> QED
  BY <1>4, <1>5 DEF Works

LEMMA StageCsvShares ==
  ASSUME NEW p \in Procs, TwoShare, Shared, Typed', StageCsv(p), Step(p)
  PROVE  Works(p)' /\ BackupsDescend(p)' /\ LiveDescends'
<1>1. TypeOK /\ pc[p] = "stageCsv" /\ Works(p) /\ ListsInStep
  BY DEF Shared, Typed, StageCsv
<1>2. UNCHANGED <<live, orig, script, idx, stage>>
  BY DEF StageCsv, program
<1>3. BackupsDescend(p)' /\ LiveDescends'
  BY <1>1, <1>2, EarlyStep DEF EarlyLabels, StatementLabels
<1>4. pc'[p] = CopyLabel(WantsCopy(p, Csv(Stmt(p).table)))
  BY <1>1, Moves DEF StageCsv, Fault, TwoShare
<1>5. \/ pc'[p] = "stageSchema"
      \/ pc'[p] = "copyCsv" /\ stage'[p][Csv(Stmt(p).table)] = NoFile
  BY <1>2, <1>4 DEF CopyLabel, WantsCopy
<1>6. SchemaCopies(p)'
  BY <1>1, <1>2, <1>5 DEF Works, SchemaCopies, StatementLabels
<1>7. \A t \in Tables : CopyDescends(p, t)'
  <2>1. \A t \in Tables : CopyDescends(p, t)
    BY <1>1 DEF Works, CopiesDescend, StagedOnly, WorkLabels, StatementLabels
  <2> QED
    BY <1>2, <2>1, CopyStays DEF Shared
<1> QED
  BY <1>1, <1>2, <1>3, <1>5, <1>6, <1>7, StagingWorks DEF StatementLabels, Shared

\* A write to the stage copy or schema of a table leaves the backups alone.
LEMMA BackupsApartFrom ==
  ASSUME NEW p \in Procs, TwoShare, TypeOK, NEW n \in TableFiles,
         UNCHANGED stage \/ \E f : PutStaged(p, n, f)
  PROVE  /\ \A i \in Index : stage'[p][Rollback(i)] = stage[p][Rollback(i)]
         /\ \A m \in StageFiles : m # n => stage'[p][m] = stage[p][m]
<1>1. n \in StageFiles /\ \A i \in Index : Rollback(i) \in StageFiles /\ Rollback(i) # n
  BY StageNames DEF TwoShare, NamesFree
<1> QED
  BY <1>1, OneStaged

\* copy_file_bytes: what is live is what p's script begins with.
LEMMA CopyCsvShares ==
  ASSUME NEW p \in Procs, TwoShare, Shared, Typed', CopyCsv(p), Step(p)
  PROVE  Works(p)' /\ BackupsDescend(p)' /\ LiveDescends'
<1> DEFINE u == Stmt(p).table
           n == Csv(u)
<1>1. TypeOK /\ ListsInStep /\ pc[p] = "copyCsv" /\ Works(p)
  BY DEF Shared, Typed, CopyCsv
<1>2. UNCHANGED <<live, orig, script, idx>>
  BY DEF CopyCsv, program
<1>3. u \in Tables /\ n \in TableFiles /\ n \in StageFiles
  BY <1>1, StmtAtHand, StageNames DEF StatementLabels
<1>4. UNCHANGED stage \/ \E f : PutStaged(p, n, f)
  BY DEF CopyCsv
<1>5. /\ \A i \in Index : stage'[p][Rollback(i)] = stage[p][Rollback(i)]
      /\ \A m \in StageFiles : m # n => stage'[p][m] = stage[p][m]
  BY <1>1, <1>3, <1>4, BackupsApartFrom
<1>6. BackupsDescend(p)' /\ LiveDescends'
  BY <1>1, <1>2, <1>5, EarlyStep DEF EarlyLabels, StatementLabels
<1>7. \/ live[n] # NoFile /\ PutStaged(p, n, live[n]) /\ pc'[p] = "stageSchema"
      \/ pc'[p] = "cleanup" /\ err'[p] = "io"
  BY <1>1, Moves DEF CopyCsv
<1>8. CASE pc'[p] = "cleanup" /\ err'[p] = "io"
  BY <1>6, <1>8, FailedWorks
<1>9. CASE live[n] # NoFile /\ PutStaged(p, n, live[n]) /\ pc'[p] = "stageSchema"
  <2> HIDE DEF n
  <2>1. stage'[p][n] = live[n] /\ live[n] # NoFile
    BY <1>1, <1>3, <1>9, OneStaged
  <2>2. \A t \in Tables : /\ Schema(t) # n /\ Schema(t) \in StageFiles /\ Csv(t) \in StageFiles
                          /\ t # u => Csv(t) # n
    BY StageNames DEF Schema, Csv, n
  <2>3. SchemaCopies(p)'
    BY <1>1, <1>2, <1>5, <1>9, <2>2 DEF Works, SchemaCopies, StatementLabels
  <2>4. \A t \in Tables : CopyDescends(p, t)
    BY <1>1 DEF Works, CopiesDescend, StagedOnly, WorkLabels, StatementLabels
  <2>5. ASSUME NEW t \in Tables, t # u
        PROVE  CopyDescends(p, t)'
    BY <1>2, <1>5, <2>2, <2>4, <2>5, CopyStays DEF Shared
  <2>6. ASSUME NEW v \in Tables, v = u
        PROVE  CopyDescends(p, v)'
    <3>1. stage[p][n] = NoFile
      BY <1>1 DEF Works, CopiesDescend, n
    <3>2. \A j \in 1 .. (idx[p] - 1) : script[p][j].table # u
      BY <1>3, <2>4, <3>1 DEF CopyDescends, n
    <3>3. Len(script[p]) \in Nat /\ idx[p] - 1 \in 0 .. Len(script[p])
      BY <1>1, LenProperties DEF TypeOK, ListsInStep, InStep
    <3>4. live[n] \in Versions(p, v, live[n])[idx[p] - 1]
      BY <3>2, <3>3, <2>6, UnusedTable
    <3>5. PICK c : c = live[n]
      OBVIOUS
    <3>6. Descends(c, Started, v)
      BY <1>3, <2>6, <3>5 DEF Shared, LiveDescends, n
    <3>7. Started \subseteq Started' \ {p}
      <4>1. p \notin Started
        BY <1>1 DEF Started, EarlyLabels, StatementLabels
      <4> QED
        BY <4>1, StartedStays DEF Shared
    <3>8. Descends(c, Started \ {p}, v)'
      BY <1>2, <3>6, <3>7, DescendsStays
    <3>9. Versions(p, v, c)' = Versions(p, v, c)
      BY <1>2, VersionsStay
    <3>10. stage'[p][Csv(v)] = c /\ c # NoFile
      BY <2>1, <2>6, <3>5 DEF n
    <3> QED
      BY <1>2, <3>4, <3>5, <3>8, <3>9, <3>10 DEF CopyDescends
  <2>7. \A t \in Tables : CopyDescends(p, t)'
    BY <2>5, <2>6
  <2> QED
    BY <1>1, <1>2, <1>6, <1>9, <2>3, <2>7, StagingWorks DEF StatementLabels, Shared
<1> QED
  BY <1>7, <1>8, <1>9

\* The schema file is taken as it was found.
LEMMA StageSchemaShares ==
  ASSUME NEW p \in Procs, TwoShare, Shared, Typed', StageSchema(p), Step(p)
  PROVE  Works(p)' /\ BackupsDescend(p)' /\ LiveDescends'
<1> DEFINE u == Stmt(p).table
           h == Schema(u)
<1>1. TypeOK /\ ListsInStep /\ pc[p] = "stageSchema" /\ Works(p)
  BY DEF Shared, Typed, StageSchema
<1>2. UNCHANGED <<live, orig, script, idx>>
  BY DEF StageSchema, program
<1>3. u \in Tables /\ h \in TableFiles /\ h \in StageFiles
  BY <1>1, StmtAtHand, StageNames DEF StatementLabels
<1>4. UNCHANGED stage \/ \E f : PutStaged(p, h, f)
  BY DEF StageSchema
<1>5. /\ \A i \in Index : stage'[p][Rollback(i)] = stage[p][Rollback(i)]
      /\ \A m \in StageFiles : m # h => stage'[p][m] = stage[p][m]
  BY <1>1, <1>3, <1>4, BackupsApartFrom
<1>6. BackupsDescend(p)' /\ LiveDescends'
  BY <1>1, <1>2, <1>5, EarlyStep DEF EarlyLabels, StatementLabels
<1>7. \/ /\ IF WantsCopy(p, h) THEN PutStaged(p, h, live[h]) ELSE UNCHANGED stage
         /\ pc'[p] = "exec"
      \/ pc'[p] = "cleanup" /\ err'[p] = "io"
  BY <1>1, Moves DEF StageSchema, Fault, TwoShare
<1>8. CASE pc'[p] = "cleanup" /\ err'[p] = "io"
  BY <1>6, <1>8, FailedWorks
<1>9. CASE /\ IF WantsCopy(p, h) THEN PutStaged(p, h, live[h]) ELSE UNCHANGED stage
           /\ pc'[p] = "exec"
  <2> HIDE DEF h
  <2>1. live[h] = orig[h]
    BY <1>3 DEF Shared, LiveDescends, h
  <2>2. \A t \in Tables : /\ Csv(t) # h /\ Schema(t) \in StageFiles /\ Csv(t) \in StageFiles
                          /\ t # u => Schema(t) # h
    BY StageNames DEF Schema, Csv, h
  <2>3. stage[p][h] \in {NoFile, orig[h]}
    BY <1>1, <1>3 DEF Works, SchemaCopies, StatementLabels, h
  <2>4. stage'[p][h] = orig[h]
    <3>1. CASE WantsCopy(p, h)
      BY <1>1, <1>3, <1>9, <2>1, <3>1, OneStaged
    <3>2. CASE ~WantsCopy(p, h)
      BY <1>9, <2>1, <2>3, <3>2 DEF WantsCopy
    <3> QED
      BY <3>1, <3>2
  <2>5. SchemaCopies(p)'
    <3>1. Schema(Stmt(p).table)' = h
      BY <1>2 DEF Stmt, h
    <3>2. \A t \in Tables : stage'[p][Schema(t)] \in {NoFile, orig[Schema(t)]}
      <4>1. \A t \in Tables : stage[p][Schema(t)] \in {NoFile, orig[Schema(t)]}
        BY <1>1 DEF Works, SchemaCopies, StatementLabels
      <4> QED
        BY <1>5, <2>2, <2>4, <4>1 DEF h
    <3>3. stage'[p][Schema(Stmt(p)'.table)] = orig[Schema(Stmt(p)'.table)]
      BY <2>4, <3>1
    <3> QED
      BY <1>2, <3>2, <3>3 DEF SchemaCopies
  <2>6. \A t \in Tables : CopyDescends(p, t)'
    <3>1. \A t \in Tables : CopyDescends(p, t)
      BY <1>1 DEF Works, CopiesDescend, StagedOnly, WorkLabels, StatementLabels
    <3> QED
      BY <1>2, <1>5, <2>2, <3>1, CopyStays DEF Shared
  <2> QED
    BY <1>1, <1>2, <1>6, <1>9, <2>5, <2>6, StagingWorks DEF StatementLabels, Shared
<1> QED
  BY <1>7, <1>8, <1>9

----------------------------------------------------------------------------
(***************************************************************************)
(* The statements.                                                         *)
(***************************************************************************)
\* What every statement starts from: the schema as found, and where it goes on.
LEMMA ExecAtHand ==
  ASSUME NEW p \in Procs, TwoShare, Shared, pc[p] = "exec"
  PROVE  /\ Stmt(p) \in Statement /\ Stmt(p).table \in Tables /\ Stmt(p) = script[p][idx[p]]
         /\ script[p] \in Seq(Statement) /\ Len(script[p]) \in Nat /\ idx[p] \in 1 .. Len(script[p])
         /\ idx[p] \in DOMAIN script[p]
         /\ ExecDir(p)[Schema(Stmt(p).table)] = orig[Schema(Stmt(p).table)]
<1>1. TypeOK /\ ListsInStep /\ Works(p)
  BY DEF Shared, Typed
<1>2. Stmt(p) \in Statement /\ Stmt(p).table \in Tables
  BY <1>1, StmtAtHand DEF StatementLabels
<1>3. script[p] \in Seq(Statement) /\ Len(script[p]) \in Nat /\ idx[p] \in 1 .. Len(script[p])
      /\ idx[p] \in DOMAIN script[p]
  BY <1>1, LenProperties DEF TypeOK, ListsInStep, InStep, EarlyLabels, StatementLabels
<1>4. ExecDir(p)[Schema(Stmt(p).table)] = orig[Schema(Stmt(p).table)]
  BY <1>1, <1>2 DEF ExecDir, Works, SchemaCopies, Shared, LiveDescends
<1> QED
  BY <1>2, <1>3, <1>4 DEF Stmt

\* A statement of a script that stages makes its table's copy one version more.
LEMMA PerformCopies ==
  ASSUME NEW p \in Procs, TwoShare, Shared, Step(p), pc[p] = "exec", Staging(p),
         Perform(p, orig[Schema(Stmt(p).table)], stage[p][Csv(Stmt(p).table)]),
         NEW t \in Tables
  PROVE  CopyDescends(p, t)'
<1> DEFINE u == Stmt(p).table
           n == Csv(u)
           c == stage[p][n]
           s == orig[Schema(u)]
           i == idx[p]
<1>1. TypeOK /\ Works(p) /\ UNCHANGED <<orig, script>>
  BY OthersStay DEF Shared, Typed
<1>2. /\ Stmt(p) \in Statement /\ u \in Tables /\ Stmt(p) = script[p][i]
      /\ Len(script[p]) \in Nat /\ i \in 1 .. Len(script[p])
  BY ExecAtHand
<1>3. n \in StageFiles /\ Csv(t) \in StageFiles /\ (t # u => Csv(t) # n)
  BY <1>2, StageNames DEF Csv
<1>4. Accepts(s, c, Stmt(p)) /\ idx'[p] = i + 1
  BY <1>1 DEF Perform, TypeOK
<1>5. CopyDescends(p, t)
  BY <1>1 DEF Works, CopiesDescend, WorkLabels, StatementLabels
<1>6. Started \ {p} \subseteq Started' \ {p}
  BY StartedStays DEF Shared
<1>7. (i + 1) - 1 = i
  BY <1>2
<1>8. CASE t # u
  <2>1. stage'[p][Csv(t)] = stage[p][Csv(t)]
    BY <1>1, <1>3, <1>8, OneStaged DEF Perform
  <2>2. CASE stage[p][Csv(t)] = NoFile
    <3>1. \A j \in 1 .. (i - 1) : script[p][j].table # t
      BY <1>5, <2>2 DEF CopyDescends
    <3>2. \A j \in 1 .. i : j \in 1 .. (i - 1) \/ j = i
      BY <1>2
    <3>3. \A j \in 1 .. i : script[p][j].table # t
      BY <1>2, <1>8, <3>1, <3>2
    <3> QED
      BY <1>1, <1>4, <1>7, <2>1, <2>2, <3>3 DEF CopyDescends
  <2>3. CASE stage[p][Csv(t)] # NoFile
    <3>1. PICK f : Descends(f, Started \ {p}, t) /\ stage[p][Csv(t)] \in Versions(p, t, f)[i - 1]
      BY <1>5, <2>3 DEF CopyDescends
    <3>2. stage[p][Csv(t)] \in Versions(p, t, f)[i]
      BY <1>2, <1>8, <3>1, OneMoreVersion
    <3>3. Descends(f, Started \ {p}, t)' /\ Versions(p, t, f)' = Versions(p, t, f)
      BY <1>1, <1>6, <3>1, DescendsStays, VersionsStay
    <3> QED
      BY <1>4, <1>7, <2>1, <2>3, <3>2, <3>3 DEF CopyDescends
  <2> QED
    BY <2>2, <2>3
<1>9. CASE t = u
  <2> DEFINE d == FileAfter(s, c, Stmt(p))
  <2>1. stage'[p][Csv(t)] = d /\ d # NoFile
    <3>1. CASE Stmt(p).kind = "INSERT"
      <4>1. s \in File /\ c \in File
        BY <1>1, <1>2, <1>3, StageNames DEF TypeOK, DataDir
      <4>2. d \in Content
        BY <1>2, <1>4, <3>1, <4>1, AppendedFileType DEF FileAfter, Accepts
      <4>3. PutStaged(p, n, d)
        BY <3>1 DEF Perform
      <4> QED
        BY <1>1, <1>3, <1>9, <4>2, <4>3, OneStaged, NoFileIsNoContent
    <3>2. CASE Stmt(p).kind # "INSERT"
      <4>1. d = c /\ UNCHANGED stage
        BY <3>2 DEF FileAfter, Perform
      <4>2. c # NoFile
        BY <1>4, <3>2 DEF Accepts, SelectAccepts, HasHeader
      <4> QED
        BY <1>9, <4>1, <4>2
    <3> QED
      BY <3>1, <3>2
  <2>2. PICK f : Descends(f, Started \ {p}, t) /\ c \in Versions(p, t, f)[i - 1]
    <3>1. CASE c = NoFile
      <4>1. \A j \in 1 .. (i - 1) : script[p][j].table # t
        BY <1>5, <1>9, <3>1 DEF CopyDescends
      <4>2. NoFile \in Versions(p, t, NoFile)[i - 1]
        BY <1>2, <4>1, UnusedTable
      <4> QED
        BY <3>1, <4>2, NothingDescends
    <3>2. CASE c # NoFile
      BY <1>5, <1>9, <3>2 DEF CopyDescends
    <3> QED
      BY <3>1, <3>2
  <2>3. d \in Versions(p, t, f)[i]
    BY <1>2, <1>4, <1>9, <2>2, OneMoreVersion
  <2>4. Descends(f, Started \ {p}, t)' /\ Versions(p, t, f)' = Versions(p, t, f)
    BY <1>1, <1>6, <2>2, DescendsStays, VersionsStay
  <2> HIDE DEF d
  <2> QED
    BY <1>4, <1>7, <2>1, <2>3, <2>4 DEF CopyDescends
<1> QED
  BY <1>8, <1>9

\* A SELECT of a script that only reads shows one version more.
LEMMA PerformReads ==
  ASSUME NEW p \in Procs, TwoShare, Shared, Step(p), pc[p] = "exec", ~Staging(p),
         Perform(p, orig[Schema(Stmt(p).table)], live[Csv(Stmt(p).table)])
  PROVE  UNCHANGED stage /\ buf'[p] \in PossibleOutputs(p)[idx[p]]
<1> DEFINE u == Stmt(p).table
           c == live[Csv(u)]
           s == orig[Schema(u)]
<1>1. TypeOK /\ Works(p)
  BY DEF Shared, Typed
<1>2. /\ Stmt(p) \in Statement /\ u \in Tables /\ Stmt(p) = script[p][idx[p]]
      /\ Len(script[p]) \in Nat /\ idx[p] \in 1 .. Len(script[p]) /\ idx[p] \in DOMAIN script[p]
  BY ExecAtHand
<1>3. Stmt(p).kind # "INSERT"
  BY <1>2 DEF Staging
<1>4. UNCHANGED stage /\ buf'[p] = buf[p] \o SelectOutput(s, c, Stmt(p)) /\ SelectAccepts(s, c, Stmt(p))
  BY <1>1, <1>3 DEF Perform, Reply, Accepts, TypeOK
<1>5. buf[p] \in PossibleOutputs(p)[idx[p] - 1]
  BY <1>1 DEF Works, ReadsVersions
<1>6. c \in AnyVersion(u) \ {NoFile}
  <2>1. Descends(c, Started, u)
    BY <1>2 DEF Shared, LiveDescends
  <2>2. c # NoFile
    BY <1>4 DEF SelectAccepts, HasHeader
  <2> QED
    BY <2>1, <2>2, DescendsIsVersion
<1> QED
  BY <1>2, <1>4, <1>5, <1>6, OneMoreOutput

LEMMA PerformWorks ==
  ASSUME NEW p \in Procs, TwoShare, Shared, Step(p), pc[p] = "exec",
         Perform(p, ExecDir(p)[Schema(Stmt(p).table)], ExecDir(p)[Csv(Stmt(p).table)])
  PROVE  Works(p)'
<1> USE DEF EarlyLabels, StatementLabels, CommitLabels, UndoLabels, EndLabels, WorkLabels, FirstLabel
<1> DEFINE u == Stmt(p).table
           n == Csv(u)
           s == orig[Schema(u)]
           c == ExecDir(p)[n]
<1>1. TypeOK /\ Works(p) /\ UNCHANGED <<orig, script>>
  BY OthersStay DEF Shared, Typed
<1>2. Stmt(p) \in Statement /\ u \in Tables /\ Len(script[p]) \in Nat /\ idx[p] \in 1 .. Len(script[p])
  BY ExecAtHand
<1>3. Perform(p, s, c)
  BY ExecAtHand
<1>4. Staging(p)' = Staging(p) /\ idx'[p] = idx[p] + 1 /\ pc'[p] = NextLabel(p)
  BY <1>1, <1>3, Moves DEF Perform, TypeOK, Staging
<1>5. \/ pc'[p] = FirstLabel(p) /\ idx[p] < Len(script[p])
      \/ pc'[p] = (IF Staging(p) THEN "commitCopy" ELSE "flush") /\ idx[p] = Len(script[p])
  BY <1>2, <1>4 DEF NextLabel
<1>6. FreshStage(p)' /\ StagedOnly(p)'
  BY <1>4, <1>5 DEF FreshStage, StagedOnly
<1>7. TempReady(p)'
  BY <1>1, <1>4, <1>5 DEF TempReady
<1>8. SchemaCopies(p)'
  <2>1. \A t \in Tables : stage'[p][Schema(t)] = stage[p][Schema(t)]
    <3>1. n \in StageFiles /\ \A t \in Tables : Schema(t) \in StageFiles /\ Schema(t) # n
      BY <1>2, StageNames DEF Schema, Csv
    <3>2. UNCHANGED stage \/ \E f : PutStaged(p, n, f)
      BY <1>3 DEF Perform
    <3> HIDE DEF n
    <3> QED
      BY <1>1, <3>1, <3>2, OneStaged
  <2>2. pc'[p] # "exec" \/ ~Staging(p)'
    BY <1>4, <1>5
  <2> QED
    BY <1>1, <2>1, <2>2 DEF SchemaCopies, Works
<1>9. CASE Staging(p)
  <2>1. \A t \in Tables : CopyDescends(p, t)'
    BY <1>3, <1>9, PerformCopies DEF ExecDir
  <2>2. CopiesDescend(p)' /\ ReadsVersions(p)'
    BY <1>4, <1>5, <1>9, <2>1 DEF CopiesDescend, ReadsVersions
  <2> QED
    BY <1>6, <1>7, <1>8, <2>2 DEF Works
<1>10. CASE ~Staging(p)
  <2>1. buf'[p] \in PossibleOutputs(p)[idx[p]]
    BY <1>3, <1>10, PerformReads DEF ExecDir
  <2>2. PossibleOutputs(p)' = PossibleOutputs(p)
    BY <1>1, VersionsStay
  <2>3. idx'[p] - 1 = idx[p]
    BY <1>2, <1>4
  <2>4. CopiesDescend(p)'
    BY <1>4, <1>5, <1>10 DEF CopiesDescend
  <2>5. ReadsVersions(p)'
    BY <1>1, <1>4, <1>5, <1>10, <2>1, <2>2, <2>3 DEF ReadsVersions
  <2> QED
    BY <1>6, <1>7, <1>8, <2>4, <2>5 DEF Works
<1> QED
  BY <1>9, <1>10

\* execute_statement_unstaged.
LEMMA ExecuteStatementShares ==
  ASSUME NEW p \in Procs, TwoShare, Shared, Typed', ExecuteStatement(p), Step(p)
  PROVE  Works(p)' /\ BackupsDescend(p)' /\ LiveDescends'
<1> DEFINE n == Csv(Stmt(p).table)
           h == Schema(Stmt(p).table)
<1>1. TypeOK /\ pc[p] = "exec"
  BY DEF Shared, Typed, ExecuteStatement
<1>2. live' = live /\ n \in TableFiles
  BY <1>1, ExecAtHand, StageNames DEF ExecuteStatement
<1>3. UNCHANGED stage \/ \E f : PutStaged(p, n, f)
  BY DEF ExecuteStatement, Perform, Reject
<1>4. \A i \in Index : stage'[p][Rollback(i)] = stage[p][Rollback(i)]
  BY <1>1, <1>2, <1>3, BackupsApartFrom
<1>5. BackupsDescend(p)' /\ LiveDescends'
  BY <1>1, <1>2, <1>4, EarlyStep DEF EarlyLabels, StatementLabels
<1>6. \/ Perform(p, ExecDir(p)[h], ExecDir(p)[n])
      \/ Fail(p, "statement", "cleanup") \/ Fail(p, "io", "cleanup")
  BY DEF ExecuteStatement, Reject, Fault, TwoShare
<1>7. CASE Perform(p, ExecDir(p)[h], ExecDir(p)[n])
  BY <1>1, <1>5, <1>7, PerformWorks
<1>8. CASE Fail(p, "statement", "cleanup") \/ Fail(p, "io", "cleanup")
  <2>1. pc'[p] = "cleanup" /\ err'[p] # "none"
    BY <1>1, <1>8, Moves
  <2> QED
    BY <1>5, <2>1, FailedWorks
<1> QED
  BY <1>6, <1>7, <1>8

----------------------------------------------------------------------------
(***************************************************************************)
(* The commit.                                                             *)
(***************************************************************************)
\* The CSV file in hand is one of the tables', apart from the reserved names.
LEMMA CommitAtHand ==
  ASSUME NEW p \in Procs, TwoShare, Shared, pc[p] \in CommitLabels
  PROVE  /\ committed[p] \in Index /\ committed[p] + 1 \in DOMAIN touched[p]
         /\ \E u \in Tables : Target(p) = Csv(u)
         /\ Target(p) \in TableFiles /\ Backup(p) \in StageFiles /\ Temp(p) \in StageFiles
         /\ \A n \in TableFiles : n \in StageFiles /\ n # Backup(p) /\ n # Temp(p)
         /\ \A i \in Index : /\ Rollback(i) \in StageFiles /\ Rollback(i) # Temp(p)
                             /\ i # committed[p] => Rollback(i) # Backup(p)
         /\ Staging(p)
<1>1. TypeOK /\ ListsInStep /\ Works(p)
  BY DEF Shared, Typed
<1>2. /\ committed[p] \in Index /\ Target(p) \in CsvFiles
      /\ Backup(p) \in StageFiles /\ Temp(p) \in StageFiles /\ committed[p] + 1 <= Len(touched[p])
  BY <1>1, FileInHand
<1>3. committed[p] + 1 \in DOMAIN touched[p]
  BY <1>1, <1>2, LenProperties DEF TypeOK, Index
<1>4. \A i \in Index : /\ Rollback(i) # Temp(p)
                       /\ i # committed[p] => Rollback(i) # Backup(p)
  BY <1>2, ReservedNamesDistinct DEF Backup, Temp
<1>5. \A n \in TableFiles : n # Backup(p) /\ n # Temp(p)
  BY <1>2 DEF TwoShare, NamesFree, Backup, Temp
<1>6. Staging(p)
  BY <1>1 DEF Works, StagedOnly
<1> QED
  BY <1>2, <1>3, <1>4, <1>5, <1>6, StageNames DEF CsvFiles

\* A stage copy of a finished script is one of its versions.
LEMMA CopyIsWhole ==
  ASSUME NEW p \in Procs, TwoShare, Shared, pc[p] \in EndLabels, Staging(p),
         NEW u \in Tables, stage[p][Csv(u)] # NoFile
  PROVE  Descends(stage[p][Csv(u)], Started, u)
<1> USE DEF StatementLabels, EndLabels, WorkLabels
<1>1. CopyDescends(p, u) /\ idx[p] = Len(script[p]) + 1
  BY DEF Shared, Works, CopiesDescend, TempReady
<1>2. PICK f : Descends(f, Started \ {p}, u) /\ stage[p][Csv(u)] \in Versions(p, u, f)[idx[p] - 1]
  BY <1>1 DEF CopyDescends
<1>3. Len(script[p]) \in Nat
  BY LenProperties DEF Shared, Typed, TypeOK
<1>4. stage[p][Csv(u)] \in WholeVersions(p, u, f)
  BY <1>1, <1>2, <1>3 DEF WholeVersions
<1>5. p \in Started
  BY DEF Started, EarlyLabels
<1> QED
  BY <1>2, <1>4, <1>5, PairDescends DEF TwoShare

\* copy_file_bytes to the temp file.
LEMMA CommitCopyShares ==
  ASSUME NEW p \in Procs, TwoShare, Shared, CommitCopy(p), Step(p)
  PROVE  Works(p)' /\ BackupsDescend(p)' /\ LiveDescends'
<1>1. TypeOK /\ pc[p] = "commitCopy" /\ Works(p) /\ Typed /\ BackupsDescend(p) /\ LiveDescends
  BY DEF Shared, Typed, CommitCopy
<1>2. UNCHANGED <<live, script, idx, touched, committed>>
  BY DEF CommitCopy, program, lists
<1>3. /\ Target(p) \in TableFiles /\ Temp(p) \in StageFiles /\ Staging(p)
      /\ \A n \in TableFiles : n \in StageFiles /\ n # Temp(p)
      /\ \A i \in Index : Rollback(i) \in StageFiles /\ Rollback(i) # Temp(p)
  BY <1>1, CommitAtHand DEF CommitLabels
<1>4. \/ /\ stage[p][Target(p)] # NoFile /\ PutStaged(p, Temp(p), CopiedForCommit(p))
         /\ pc'[p] = "commitCheck"
      \/ /\ pc'[p] = "cleanup" /\ err'[p] = "io"
         /\ UNCHANGED stage \/ \E f : PutStaged(p, Temp(p), f)
  BY <1>1, Moves DEF CommitCopy
<1>5. \A m \in StageFiles : m # Temp(p) => stage'[p][m] = stage[p][m]
  BY <1>1, <1>3, <1>4, OneStaged
<1>6. BackupsDescend(p)' /\ LiveDescends'
  <2>1. pc'[p] \notin EarlyLabels
    BY <1>4 DEF EarlyLabels, StatementLabels
  <2> QED
    BY <1>1, <1>2, <1>3, <1>5, <2>1, BackupsStay, LiveStays
<1>7. CASE pc'[p] = "cleanup" /\ err'[p] = "io"
  BY <1>6, <1>7, FailedWorks
<1>8. CASE /\ stage[p][Target(p)] # NoFile /\ PutStaged(p, Temp(p), CopiedForCommit(p))
           /\ pc'[p] = "commitCheck"
  <2>1. stage'[p][Temp(p)] = stage[p][Target(p)] /\ stage'[p][Target(p)] = stage[p][Target(p)]
    <3>1. CopiedForCommit(p) = stage[p][Target(p)]
      BY <1>3 DEF CopiedForCommit
    <3> QED
      BY <1>1, <1>3, <1>5, <1>8, <3>1, OneStaged
  <2>2. Temp(p)' = Temp(p) /\ Target(p)' = Target(p)
    BY <1>2 DEF Temp, Target
  <2>3. TempReady(p)'
    BY <1>1, <1>2, <1>8, <2>1, <2>2 DEF Works, TempReady, EndLabels
  <2>4. \A n \in TableFiles : stage'[p][n] = stage[p][n]
    BY <1>3, <1>5
  <2> QED
    BY <1>1, <1>2, <1>3, <1>6, <1>8, <2>3, <2>4, CommitWorks DEF EndLabels
<1> QED
  BY <1>4, <1>7, <1>8

\* The test whether there is a live CSV file.
LEMMA CommitCheckShares ==
  ASSUME NEW p \in Procs, TwoShare, Shared, CommitCheck(p), Step(p)
  PROVE  Works(p)' /\ BackupsDescend(p)' /\ LiveDescends'
<1>1. TypeOK /\ pc[p] = "commitCheck" /\ Works(p) /\ Typed /\ BackupsDescend(p) /\ LiveDescends
  BY DEF Shared, Typed, CommitCheck
<1>2. UNCHANGED <<live, script, idx, stage, touched, committed>>
  BY DEF CommitCheck, program
<1>3. Staging(p)
  BY <1>1, CommitAtHand DEF CommitLabels
<1>4. pc'[p] \in {"backup", "replace"}
  BY <1>1, Moves DEF CommitCheck
<1>5. BackupsDescend(p)' /\ LiveDescends'
  BY <1>1, <1>2, <1>4, BackupsStay, LiveStays DEF EarlyLabels, StatementLabels
<1>6. Temp(p)' = Temp(p) /\ Target(p)' = Target(p)
  BY <1>2 DEF Temp, Target
<1>7. TempReady(p)'
  BY <1>1, <1>2, <1>6 DEF Works, TempReady, EndLabels
<1> QED
  BY <1>1, <1>2, <1>3, <1>4, <1>5, <1>7, CommitWorks DEF EndLabels

\* The live CSV file, some version, is moved away.
LEMMA BackUpOriginalShares ==
  ASSUME NEW p \in Procs, TwoShare, Shared, BackUpOriginal(p), Step(p)
  PROVE  Works(p)' /\ BackupsDescend(p)' /\ LiveDescends'
<1>1. TypeOK /\ pc[p] = "backup" /\ Works(p) /\ Typed /\ BackupsDescend(p) /\ LiveDescends
  BY DEF Shared, Typed, BackUpOriginal
<1>2. UNCHANGED <<script, idx, touched, committed>>
  BY DEF BackUpOriginal, program, lists
<1>3. PICK u \in Tables : Target(p) = Csv(u)
  BY <1>1, CommitAtHand DEF CommitLabels
<1>4. /\ committed[p] \in Index /\ Target(p) = touched[p][committed[p] + 1]
      /\ Backup(p) \in StageFiles /\ Temp(p) \in StageFiles /\ Staging(p)
      /\ \A n \in TableFiles : n \in StageFiles /\ n # Backup(p) /\ n # Temp(p)
      /\ \A i \in Index : /\ Rollback(i) \in StageFiles /\ Rollback(i) # Temp(p)
                          /\ i # committed[p] => Rollback(i) # Backup(p)
  BY <1>1, CommitAtHand DEF CommitLabels, Target
<1>5. \/ /\ PutStaged(p, Backup(p), live[Target(p)]) /\ PutLive(Target(p), NoFile)
         /\ pc'[p] = "replace"
      \/ pc'[p] = "cleanup" /\ err'[p] = "io" /\ UNCHANGED <<live, stage>>
  BY <1>1, Moves DEF BackUpOriginal
<1>6. CASE pc'[p] = "cleanup" /\ err'[p] = "io" /\ UNCHANGED <<live, stage>>
  <2>1. BackupsDescend(p)' /\ LiveDescends'
    BY <1>1, <1>2, <1>6, BackupsStay, LiveStays DEF EarlyLabels, StatementLabels
  <2> QED
    BY <1>6, <2>1, FailedWorks
<1>7. CASE /\ PutStaged(p, Backup(p), live[Target(p)]) /\ PutLive(Target(p), NoFile)
           /\ pc'[p] = "replace"
  <2>1. LiveDescends'
    BY <1>1, <1>3, <1>7, LivePut, NothingDescends
  <2>2. /\ stage'[p][Backup(p)] = live[Target(p)]
        /\ \A m \in StageFiles : m # Backup(p) => stage'[p][m] = stage[p][m]
    BY <1>1, <1>4, <1>7, OneStaged
  <2>3. BackupsDescend(p)'
    <3>1. ASSUME NEW k \in DOMAIN touched[p], NEW t \in Tables, touched[p][k] = Csv(t)
          PROVE  Descends(stage[p][Rollback(k - 1)], Started, t)'
      <4>1. k \in Nat \ {0} /\ k - 1 \in Index
        BY <1>1, TouchedIndex DEF Typed
      <4>2. PICK c : c = stage'[p][Rollback(k - 1)]
        OBVIOUS
      <4>3. Descends(c, Started, t)
        <5>1. CASE k - 1 = committed[p]
          <6>1. k = committed[p] + 1
            BY <1>4, <4>1, <5>1 DEF Index
          <6>2. t = u
            BY <1>3, <1>4, <3>1, <6>1 DEF Csv
          <6>3. c = live[Csv(t)]
            BY <1>3, <2>2, <4>2, <5>1, <6>2 DEF Backup
          <6> QED
            BY <1>1, <6>3 DEF LiveDescends
        <5>2. CASE k - 1 # committed[p]
          <6>1. c = stage[p][Rollback(k - 1)]
            BY <1>4, <2>2, <4>1, <4>2, <5>2
          <6> QED
            BY <1>1, <3>1, <6>1 DEF BackupsDescend
        <5> QED
          BY <5>1, <5>2
      <4>4. Descends(c, Started, t)'
        BY <1>1, <4>3, StillDescends
      <4> QED
        BY <4>2, <4>4
    <3>2. pc'[p] \notin EarlyLabels
      BY <1>7 DEF EarlyLabels, StatementLabels
    <3> QED
      BY <1>2, <3>1, <3>2 DEF BackupsDescend
  <2>4. Temp(p)' = Temp(p) /\ Target(p)' = Target(p) /\ Temp(p) # Backup(p)
    BY <1>2, <1>4 DEF Temp, Target, Backup
  <2>5. TempReady(p)'
    <3>1. stage'[p][Temp(p)] = stage[p][Temp(p)] /\ stage'[p][Target(p)] = stage[p][Target(p)]
      BY <1>3, <1>4, <2>2, <2>4, StageNames
    <3> QED
      BY <1>1, <1>2, <2>4, <3>1 DEF Works, TempReady, EndLabels
  <2>6. \A n \in TableFiles : stage'[p][n] = stage[p][n]
    BY <1>4, <2>2
  <2> QED
    BY <1>1, <1>2, <1>4, <1>7, <2>1, <2>3, <2>5, <2>6, CommitWorks DEF EndLabels
<1> QED
  BY <1>5, <1>6, <1>7

\* The finished copy is put in place: one version more.
LEMMA ReplaceShares ==
  ASSUME NEW p \in Procs, TwoShare, Shared, Replace(p), Step(p)
  PROVE  Works(p)' /\ BackupsDescend(p)' /\ LiveDescends'
<1>1. TypeOK /\ pc[p] = "replace" /\ Works(p) /\ Typed /\ BackupsDescend(p) /\ LiveDescends
  BY DEF Shared, Typed, Replace
<1>2. UNCHANGED <<script, idx, touched>>
  BY DEF Replace, program
<1>3. PICK u \in Tables : Target(p) = Csv(u)
  BY <1>1, CommitAtHand DEF CommitLabels
<1>4. /\ Temp(p) \in StageFiles /\ Staging(p)
      /\ \A n \in TableFiles : n \in StageFiles /\ n # Temp(p)
      /\ \A i \in Index : Rollback(i) \in StageFiles /\ Rollback(i) # Temp(p)
  BY <1>1, CommitAtHand DEF CommitLabels
<1>5. \/ /\ PutLive(Target(p), stage[p][Temp(p)]) /\ PutStaged(p, Temp(p), NoFile)
         /\ pc'[p] \in {"commitCopy", "flush"}
      \/ pc'[p] \in {"restore", "rollback"} /\ UNCHANGED <<live, stage>>
  BY <1>1, Moves DEF Replace
<1>6. pc'[p] \notin EarlyLabels
  BY <1>5 DEF EarlyLabels, StatementLabels
<1>7. CASE pc'[p] \in {"restore", "rollback"} /\ UNCHANGED <<live, stage>>
  <2>1. BackupsDescend(p)' /\ LiveDescends'
    BY <1>1, <1>2, <1>6, <1>7, BackupsStay, LiveStays
  <2>2. Staging(p)' /\ ReadsVersions(p)'
    BY <1>2, <1>4 DEF Staging, ReadsVersions
  <2> QED
    BY <1>7, <2>1, <2>2, OverWorks DEF UndoLabels
<1>8. CASE /\ PutLive(Target(p), stage[p][Temp(p)]) /\ PutStaged(p, Temp(p), NoFile)
           /\ pc'[p] \in {"commitCopy", "flush"}
  <2>1. stage[p][Temp(p)] = stage[p][Csv(u)] /\ stage[p][Csv(u)] # NoFile
    BY <1>1, <1>3 DEF Works, TempReady
  <2>2. Descends(stage[p][Csv(u)], Started, u)
    BY <1>1, <1>4, <2>1, CopyIsWhole DEF EndLabels
  <2>3. LiveDescends'
    BY <1>1, <1>3, <1>8, <2>1, <2>2, LivePut
  <2>4. \A m \in StageFiles : m # Temp(p) => stage'[p][m] = stage[p][m]
    BY <1>1, <1>4, <1>8, OneStaged
  <2>5. BackupsDescend(p)'
    BY <1>1, <1>2, <1>4, <1>6, <2>4, BackupsStay
  <2>6. TempReady(p)'
    BY <1>1, <1>2, <1>8 DEF Works, TempReady, EndLabels
  <2>7. \A n \in TableFiles : stage'[p][n] = stage[p][n]
    BY <1>4, <2>4
  <2> QED
    BY <1>1, <1>2, <1>4, <1>8, <2>3, <2>5, <2>6, <2>7, CommitWorks DEF EndLabels
<1> QED
  BY <1>5, <1>7, <1>8

\* The file in hand is put back: a backup is some version too.
LEMMA RestoreCurrentShares ==
  ASSUME NEW p \in Procs, TwoShare, Shared, RestoreCurrent(p), Step(p)
  PROVE  Works(p)' /\ BackupsDescend(p)' /\ LiveDescends'
<1>1. TypeOK /\ pc[p] = "restore" /\ Works(p) /\ Typed /\ BackupsDescend(p) /\ LiveDescends
  BY DEF Shared, Typed, RestoreCurrent
<1>2. UNCHANGED <<script, touched>>
  BY DEF RestoreCurrent, program, lists
<1>3. PICK u \in Tables : Target(p) = Csv(u)
  BY <1>1, CommitAtHand DEF CommitLabels
<1>4. /\ committed[p] \in Index /\ committed[p] + 1 \in DOMAIN touched[p] /\ Staging(p)
      /\ \A i \in Index : Rollback(i) \in StageFiles
  BY <1>1, CommitAtHand DEF CommitLabels
<1>5. \/ /\ PutLive(Target(p), stage[p][Backup(p)]) /\ PutStaged(p, Backup(p), NoFile)
         /\ pc'[p] = "rollback"
      \/ pc'[p] = "cleanup" /\ err'[p] = "rollback" /\ UNCHANGED <<live, stage>>
  BY <1>1, Moves DEF RestoreCurrent
<1>6. pc'[p] \notin EarlyLabels
  BY <1>5 DEF EarlyLabels, StatementLabels
<1>7. CASE pc'[p] = "cleanup" /\ err'[p] = "rollback" /\ UNCHANGED <<live, stage>>
  <2>1. BackupsDescend(p)' /\ LiveDescends'
    BY <1>1, <1>2, <1>6, <1>7, BackupsStay, LiveStays
  <2> QED
    BY <1>7, <2>1, FailedWorks
<1>8. CASE /\ PutLive(Target(p), stage[p][Backup(p)]) /\ PutStaged(p, Backup(p), NoFile)
           /\ pc'[p] = "rollback"
  <2>1. Descends(stage[p][Backup(p)], Started, u)
    <3>1. touched[p][committed[p] + 1] = Csv(u) /\ (committed[p] + 1) - 1 = committed[p]
      BY <1>3, <1>4 DEF Target, Index
    <3>2. Descends(stage[p][Rollback((committed[p] + 1) - 1)], Started, u)
      BY <1>1, <1>4, <3>1 DEF BackupsDescend
    <3> QED
      BY <3>1, <3>2 DEF Backup
  <2>2. LiveDescends'
    BY <1>1, <1>3, <1>8, <2>1, LivePut
  <2>3. \A i \in Index : stage'[p][Rollback(i)] \in {stage[p][Rollback(i)], NoFile}
    BY <1>1, <1>4, <1>8, OneStaged DEF Backup
  <2>4. BackupsDescend(p)'
    BY <1>1, <1>2, <1>6, <2>3, BackupsStay
  <2>5. Staging(p)' /\ ReadsVersions(p)'
    BY <1>2, <1>4 DEF Staging, ReadsVersions
  <2> QED
    BY <1>8, <2>2, <2>4, <2>5, OverWorks DEF UndoLabels
<1> QED
  BY <1>5, <1>7, <1>8

----------------------------------------------------------------------------
(***************************************************************************)
(* The rollback and the end.                                               *)
(***************************************************************************)
\* The committed CSV file to undo is one of the tables'.
LEMMA UndoAtHand ==
  ASSUME NEW p \in Procs, TwoShare, Shared, committed[p] > 0,
         pc[p] \in {"rollback", "rollbackRemove", "rollbackMove"}
  PROVE  /\ committed[p] \in DOMAIN touched[p] /\ committed[p] - 1 \in Index /\ Staging(p)
         /\ \E u \in Tables : touched[p][committed[p]] = Csv(u)
<1>1. TypeOK /\ ListsInStep /\ Works(p)
  BY DEF Shared, Typed
<1>2. touched[p][committed[p]] \in CsvFiles /\ committed[p] - 1 \in Index
  BY <1>1, FileToUndo
<1>3. committed[p] \in DOMAIN touched[p]
  BY <1>1, LenProperties DEF TypeOK, ListsInStep, InStep
<1>4. Staging(p)
  BY <1>1 DEF Works, StagedOnly, UndoLabels
<1> QED
  BY <1>2, <1>3, <1>4 DEF CsvFiles

\* remove_file_if_exists: the table may be missing for a while.
LEMMA RollbackRemoveShares ==
  ASSUME NEW p \in Procs, TwoShare, Shared, RollbackCheck(p) \/ RollbackRemove(p), Step(p)
  PROVE  Works(p)' /\ BackupsDescend(p)' /\ LiveDescends'
<1> DEFINE n == touched[p][committed[p]]
<1>1. /\ TypeOK /\ pc[p] \in {"rollback", "rollbackRemove"} /\ committed[p] > 0
      /\ Typed /\ BackupsDescend(p) /\ LiveDescends
  BY DEF Shared, Typed, RollbackCheck, RollbackRemove, ListsInStep, InStep
<1>2. UNCHANGED <<script, stage, touched>>
  BY DEF RollbackCheck, RollbackRemove, program
<1>3. Staging(p) /\ \E u \in Tables : n = Csv(u)
  BY <1>1, UndoAtHand
<1>4. PICK u \in Tables : n = Csv(u)
  BY <1>3
<1>5. UNCHANGED live \/ PutLive(n, NoFile)
  BY DEF RollbackCheck, RollbackRemove
<1>6. pc'[p] \in {"rollback", "rollbackRemove", "rollbackMove", "cleanup"}
  BY <1>1, Moves DEF RollbackCheck, RollbackRemove, Removed, Undone
<1>7. LiveDescends'
  BY <1>1, <1>4, <1>5, LivePut, LiveStays, NothingDescends
<1>8. BackupsDescend(p)'
  BY <1>1, <1>2, <1>6, BackupsStay DEF EarlyLabels, StatementLabels
<1>9. Staging(p)' /\ ReadsVersions(p)'
  BY <1>2, <1>3 DEF Staging, ReadsVersions
<1> QED
  BY <1>6, <1>7, <1>8, <1>9, OverWorks DEF UndoLabels

\* The backup is moved back.
LEMMA RollbackMoveShares ==
  ASSUME NEW p \in Procs, TwoShare, Shared, RollbackMove(p), Step(p)
  PROVE  Works(p)' /\ BackupsDescend(p)' /\ LiveDescends'
<1> DEFINE n == touched[p][committed[p]]
           b == Rollback(committed[p] - 1)
<1>1. /\ TypeOK /\ ListsInStep /\ pc[p] = "rollbackMove" /\ committed[p] > 0
      /\ Typed /\ BackupsDescend(p) /\ LiveDescends
  BY DEF Shared, Typed, RollbackMove, ListsInStep, InStep
<1>2. UNCHANGED <<script, touched>>
  BY DEF RollbackMove, program
<1>3. /\ Staging(p) /\ committed[p] \in DOMAIN touched[p] /\ committed[p] - 1 \in Index
      /\ \E u \in Tables : n = Csv(u)
  BY <1>1, UndoAtHand
<1>4. PICK u \in Tables : n = Csv(u)
  BY <1>3
<1>5. \/ PutLive(n, stage[p][b]) /\ PutStaged(p, b, NoFile)
      \/ UNCHANGED <<live, stage>>
  BY DEF RollbackMove
<1>6. pc'[p] \in {"rollback", "cleanup"}
  BY <1>1, Moves DEF RollbackMove, Undone
<1>7. Descends(stage[p][b], Started, u)
  BY <1>1, <1>3, <1>4 DEF BackupsDescend
<1>8. LiveDescends'
  BY <1>1, <1>4, <1>5, <1>7, LivePut, LiveStays
<1>9. BackupsDescend(p)'
  <2>1. \A i \in Index : stage'[p][Rollback(i)] \in {stage[p][Rollback(i)], NoFile}
    BY <1>1, <1>3, <1>5, OneStaged, StageNames
  <2> QED
    BY <1>1, <1>2, <1>6, <2>1, BackupsStay DEF EarlyLabels, StatementLabels
<1>10. Staging(p)' /\ ReadsVersions(p)'
  BY <1>2, <1>3 DEF Staging, ReadsVersions
<1> QED
  BY <1>6, <1>8, <1>9, <1>10, OverWorks DEF UndoLabels

LEMMA RollbackEndsShares ==
  ASSUME NEW p \in Procs, TwoShare, Shared, RollbackEnds(p), Step(p)
  PROVE  Works(p)' /\ BackupsDescend(p)' /\ LiveDescends'
<1>1. TypeOK /\ pc[p] = "rollback" /\ Works(p) /\ Typed /\ BackupsDescend(p) /\ LiveDescends
  BY DEF Shared, Typed, RollbackEnds
<1>2. UNCHANGED <<live, script, stage, touched>>
  BY DEF RollbackEnds, program, lists
<1>3. pc'[p] = "cleanup"
  BY <1>1, Moves DEF RollbackEnds
<1>4. BackupsDescend(p)' /\ LiveDescends'
  BY <1>1, <1>2, <1>3, BackupsStay, LiveStays DEF EarlyLabels, StatementLabels
<1>5. Staging(p)' /\ ReadsVersions(p)'
  BY <1>1, <1>2 DEF Works, StagedOnly, UndoLabels, Staging, ReadsVersions
<1> QED
  BY <1>3, <1>4, <1>5, OverWorks DEF UndoLabels

\* flush_and_copy_output: what is shown is what was buffered.
LEMMA FlushShares ==
  ASSUME NEW p \in Procs, TwoShare, Shared, Flush(p), Step(p)
  PROVE  Works(p)' /\ BackupsDescend(p)' /\ LiveDescends'
<1>1. TypeOK /\ pc[p] = "flush" /\ Works(p) /\ Typed /\ BackupsDescend(p) /\ LiveDescends
  BY DEF Shared, Typed, Flush
<1>2. UNCHANGED <<live, orig, script, stage, touched>>
  BY DEF Flush, program, lists
<1>3. \/ pc'[p] = "cleanup" /\ out'[p] = buf[p]
      \/ pc'[p] = (IF Staging(p) THEN "rollback" ELSE "cleanup") /\ err'[p] = "output"
  BY <1>1, Moves DEF Flush, TypeOK
<1>4. BackupsDescend(p)' /\ LiveDescends'
  BY <1>1, <1>2, <1>3, BackupsStay, LiveStays DEF EarlyLabels, StatementLabels
<1>5. Staging(p)' = Staging(p) /\ PossibleOutputs(p)' = PossibleOutputs(p)
  BY <1>2, VersionsStay DEF Staging
<1>6. ReadsVersions(p)'
  BY <1>1, <1>2, <1>3, <1>5 DEF Works, ReadsVersions
<1> QED
  BY <1>3, <1>4, <1>5, <1>6, OverWorks DEF UndoLabels

\* Files are taken away from the stage and none is made.
LEMMA SweptShares ==
  ASSUME NEW p \in Procs, TwoShare, Shared, Step(p) \/ Crash(p),
         pc[p] = "cleanup", pc'[p] \in {"cleanup", "done"}, err'[p] = err[p],
         UNCHANGED <<live, orig, script, touched, out>>,
         \A n \in StageFiles : stage'[p][n] \in {stage[p][n], NoFile}
  PROVE  Works(p)' /\ BackupsDescend(p)' /\ LiveDescends'
<1>1. Works(p) /\ Typed /\ BackupsDescend(p) /\ LiveDescends
  BY DEF Shared
<1>2. BackupsDescend(p)' /\ LiveDescends'
  BY <1>1, StageNames, BackupsStay, LiveStays DEF EarlyLabels, StatementLabels
<1>3. Staging(p)' = Staging(p) /\ PossibleOutputs(p)' = PossibleOutputs(p)
  BY VersionsStay DEF Staging
<1>4. ReadsVersions(p)'
  BY <1>1, <1>3 DEF Works, ReadsVersions
<1> QED
  BY <1>2, <1>4, OverWorks DEF UndoLabels

\* cleanup_stage_dir.
LEMMA CleanupShares ==
  ASSUME NEW p \in Procs, TwoShare, Shared, Cleanup(p), Step(p)
  PROVE  Works(p)' /\ BackupsDescend(p)' /\ LiveDescends'
<1>1. TypeOK /\ pc[p] = "cleanup"
  BY DEF Shared, Typed, Cleanup
<1>2. UNCHANGED <<live, orig, script, touched, out>>
  BY DEF Cleanup, program, lists
<1>3. pc'[p] = "done" /\ err'[p] = err[p]
  <2>1. Proceed(p, "done")
    BY DEF Cleanup
  <2> QED
    BY <1>1, <2>1, Moves
<1>4. \A n \in StageFiles : stage'[p][n] \in {stage[p][n], NoFile}
  BY <1>1 DEF Cleanup, Sweep, TypeOK
<1> QED
  BY <1>1, <1>2, <1>3, <1>4, SweptShares

\* A process that dies or is killed leaves everything where it is, but for what
\* it was just removing from its stage.
LEMMA DeathShares ==
  ASSUME NEW p \in Procs, TwoShare, Shared, Typed', (DieOnSchema(p) /\ Step(p)) \/ Crash(p)
  PROVE  Works(p)' /\ BackupsDescend(p)' /\ LiveDescends'
<1>1. UNCHANGED <<live, orig, script, pc, idx, touched, committed, err>>
  BY DEF DieOnSchema, Crash, lists, output
<1>2. TypeOK /\ Works(p) /\ BackupsDescend(p) /\ Typed /\ LiveDescends
  BY DEF Shared, Typed
<1>3. CASE UNCHANGED <<stage, buf>>
  <2>1. out'[p] = out[p] \/ pc[p] = "flush"
    BY DEF DieOnSchema, Crash, output
  <2>2. Works(p)'
    BY <1>1, <1>2, <1>3, <2>1, StillWorks
  <2>3. BackupsDescend(p)'
    BY <1>1, <1>2, <1>3, BackupsStay
  <2> QED
    BY <1>1, <1>2, <2>2, <2>3, LiveStays
<1>4. CASE /\ pc[p] = "cleanup" /\ UNCHANGED out
           /\ \E staying \in Unswept(p) : Sweep(p, FALSE, staying, TRUE)
  <2>1. \A n \in StageFiles : stage'[p][n] \in {stage[p][n], NoFile}
    BY <1>2, <1>4 DEF Sweep, TypeOK
  <2>2. Step(p) \/ Crash(p)
    OBVIOUS
  <2> QED
    BY <1>1, <1>4, <2>1, <2>2, SweptShares
<1> QED
  BY <1>3, <1>4 DEF DieOnSchema, Crash, output

----------------------------------------------------------------------------
(***************************************************************************)
(* Every step.                                                             *)
(***************************************************************************)
LEMMA OwnShares ==
  ASSUME NEW p \in Procs, TwoShare, Shared, Typed', Step(p) \/ Crash(p)
  PROVE  Works(p)' /\ BackupsDescend(p)' /\ LiveDescends'
<1>1. CASE MakeStageDir(p) /\ Step(p)
  BY <1>1, MakeStageDirShares
<1>2. CASE OpenBuffer(p) /\ Step(p)
  BY <1>2, OpenBufferShares
<1>3. CASE StageCsv(p) /\ Step(p)
  BY <1>3, StageCsvShares
<1>4. CASE CopyCsv(p) /\ Step(p)
  BY <1>4, CopyCsvShares
<1>5. CASE StageSchema(p) /\ Step(p)
  BY <1>5, StageSchemaShares
<1>6. CASE ExecuteStatement(p) /\ Step(p)
  BY <1>6, ExecuteStatementShares
<1>7. CASE CommitCopy(p) /\ Step(p)
  BY <1>7, CommitCopyShares
<1>8. CASE CommitCheck(p) /\ Step(p)
  BY <1>8, CommitCheckShares
<1>9. CASE BackUpOriginal(p) /\ Step(p)
  BY <1>9, BackUpOriginalShares
<1>10. CASE Replace(p) /\ Step(p)
  BY <1>10, ReplaceShares
<1>11. CASE RestoreCurrent(p) /\ Step(p)
  BY <1>11, RestoreCurrentShares
<1>12. CASE (RollbackCheck(p) \/ RollbackRemove(p) \/ RollbackMove(p) \/ RollbackEnds(p)) /\ Step(p)
  BY <1>12, RollbackRemoveShares, RollbackMoveShares, RollbackEndsShares
<1>13. CASE (Flush(p) \/ Cleanup(p)) /\ Step(p)
  BY <1>13, FlushShares, CleanupShares
<1>14. CASE (DieOnSchema(p) /\ Step(p)) \/ Crash(p)
  BY <1>14, DeathShares
<1> QED
  BY <1>1, <1>2, <1>3, <1>4, <1>5, <1>6, <1>7, <1>8, <1>9, <1>10, <1>11, <1>12, <1>13, <1>14 DEF Step

\* A step of one process leaves what another has to what it is.
LEMMA OthersShare ==
  ASSUME NEW p \in Procs, NEW q \in Procs \ {p}, Shared, Step(q) \/ Crash(q)
  PROVE  Works(p)' /\ BackupsDescend(p)'
<1>1. /\ pc'[p] = pc[p] /\ idx'[p] = idx[p] /\ stage'[p] = stage[p] /\ touched'[p] = touched[p]
      /\ committed'[p] = committed[p] /\ buf'[p] = buf[p] /\ out'[p] = out[p] /\ err'[p] = err[p]
  BY OthersStay DEF Shared
<1>2. Works(p)'
  BY <1>1, StillWorks DEF Shared
<1>3. BackupsDescend(p)'
  BY <1>1, BackupsStay DEF Shared
<1> QED
  BY <1>2, <1>3

\* To begin with everything is as found and nothing is staged.
LEMMA InitShared ==
  ASSUME Init, Typed
  PROVE  Shared
<1> USE DEF EarlyLabels, StatementLabels, CommitLabels, UndoLabels, EndLabels, WorkLabels
<1>1. LiveDescends
  BY DEF Init, LiveDescends, Descends, Found
<1>2. ASSUME NEW p \in Procs
      PROVE  BackupsDescend(p) /\ Works(p) /\ script[p] \in ScriptsOf[p] /\ touched[p] = <<>>
  <2>1. /\ pc[p] = (IF Staging(p) THEN "mkdir" ELSE "buffer") /\ idx[p] = 1 /\ touched[p] = <<>>
        /\ script[p] \in ScriptsOf[p] /\ \A n \in StageFiles : stage[p][n] = NoFile
    BY <1>2 DEF Init
  <2>2. BackupsDescend(p)
    BY <2>1, StageNames, EmptySeq DEF BackupsDescend
  <2>3. Works(p)
    BY <2>1 DEF Works, FreshStage, StagedOnly, SchemaCopies, CopiesDescend, TempReady, ReadsVersions
  <2> QED
    BY <2>1, <2>2, <2>3
<1> QED
  BY <1>1, <1>2 DEF Shared, WritesAreStaged

LEMMA NextShared ==
  ASSUME TwoShare, Shared, [Next]_vars, Typed'
  PROVE  Shared'
<1>1. WritesAreStaged'
  BY NextWritesStaged DEF Shared
<1>2. CASE UNCHANGED vars
  <2>1. UNCHANGED <<live, orig, script, pc, idx, stage, touched, committed, buf, out, err>>
    BY <1>2 DEF vars
  <2>2. Started' = Started
    BY <2>1 DEF Started
  <2>3. ASSUME NEW c, NEW W, NEW t, Descends(c, W, t)
        PROVE  Descends(c, W, t)'
    BY <2>1, <2>3, DescendsStays
  <2>4. LiveDescends'
    BY <2>1, <2>2, <2>3 DEF LiveDescends, Shared
  <2>5. ASSUME NEW p \in Procs
        PROVE  BackupsDescend(p)'
    BY <2>1, <2>2, <2>3 DEF BackupsDescend, Shared
  <2>6. ASSUME NEW p \in Procs
        PROVE  Works(p)'
    <3>1. Staging(p)' = Staging(p) /\ Stmt(p)' = Stmt(p) /\ Target(p)' = Target(p) /\ Temp(p)' = Temp(p)
      BY <2>1 DEF Staging, Stmt, Target, Temp
    <3>2. FreshStage(p)' /\ StagedOnly(p)' /\ TempReady(p)'
      BY <2>1, <3>1 DEF Shared, Works, FreshStage, StagedOnly, TempReady
    <3>3. SchemaCopies(p)'
      BY <2>1, <3>1 DEF Shared, Works, SchemaCopies
    <3>4. \A t \in Tables : CopyDescends(p, t) => CopyDescends(p, t)'
      <4> SUFFICES ASSUME NEW t \in Tables, CopyDescends(p, t)
                   PROVE  CopyDescends(p, t)'
        OBVIOUS
      <4>1. CASE stage[p][Csv(t)] = NoFile
        BY <2>1, <4>1 DEF CopyDescends
      <4>2. CASE stage[p][Csv(t)] # NoFile
        <5>1. PICK f : Descends(f, Started \ {p}, t) /\ stage[p][Csv(t)] \in Versions(p, t, f)[idx[p] - 1]
          BY <4>2 DEF CopyDescends
        <5>2. Descends(f, Started \ {p}, t)' /\ Versions(p, t, f)' = Versions(p, t, f)
          BY <2>1, <2>2, <5>1, DescendsStays, VersionsStay
        <5> QED
          BY <2>1, <4>2, <5>1, <5>2 DEF CopyDescends
      <4> QED
        BY <4>1, <4>2
    <3>5. CopiesDescend(p)'
      BY <2>1, <3>1, <3>4 DEF Shared, Works, CopiesDescend
    <3>6. PossibleOutputs(p)' = PossibleOutputs(p)
      BY <2>1, VersionsStay
    <3>7. ReadsVersions(p)'
      BY <2>1, <3>1, <3>6 DEF Shared, Works, ReadsVersions
    <3> QED
      BY <3>2, <3>3, <3>5, <3>7 DEF Works
  <2> QED
    BY <1>1, <2>4, <2>5, <2>6 DEF Shared
<1>3. ASSUME NEW q \in Procs, Step(q) \/ Crash(q)
      PROVE  Shared'
  <2>1. \A p \in Procs : Works(p)' /\ BackupsDescend(p)'
    BY <1>3, OwnShares, OthersShare
  <2>2. LiveDescends'
    BY <1>3, OwnShares
  <2> QED
    BY <1>1, <2>1, <2>2 DEF Shared
<1> QED
  BY <1>2, <1>3 DEF Next, Terminated

LEMMA AlwaysShared ==
  ASSUME TwoShare
  PROVE  Spec => []Shared
<1>1. Init /\ Typed => Shared
  BY InitShared
<1>2. Shared /\ Typed' /\ [Next]_vars => Shared'
  BY NextShared
<1> QED
  BY <1>1, <1>2, TypedCorrect, PTL DEF Spec

\* Whatever two scripts do to the same tables, however their steps alternate,
\* whatever fails and wherever one is killed, a table is never a mixture: its
\* live CSV file is what was found or nothing, or what whole scripts make of
\* it one after the other (commit_staged_csvs renames finished files only).
THEOREM TablesAreWholeVersions ==
  ASSUME TwoShare
  PROVE  Spec => []LiveIsSomeVersion
<1>1. Shared => LiveIsSomeVersion
  BY DescendsIsVersion DEF Shared, LiveDescends, LiveIsSomeVersion
<1> QED
  BY <1>1, AlwaysShared, PTL

\* A script that only reads shows whole versions of the tables, whatever is
\* moved in and out of the data directory while it runs.
THEOREM ReadersSeeNoMixture ==
  ASSUME TwoShare
  PROVE  Spec => []ReadersSeeWholeVersions
<1>1. Shared => ReadersSeeWholeVersions
  <2> SUFFICES ASSUME Shared, NEW p \in Procs, Succeeded(p), ReadsOnly(p)
               PROVE  out[p] \in PossibleOutputs(p)[Len(script[p])]
    BY DEF ReadersSeeWholeVersions
  <2>1. ~Staging(p)
    BY DEF Staging, ReadsOnly, ToSet
  <2> QED
    BY <2>1 DEF Shared, Works, ReadsVersions, Succeeded, Returned
<1> QED
  BY <1>1, AlwaysShared, PTL

----------------------------------------------------------------------------
(***************************************************************************)
(* Scripts that run one after the other.  What a script does to a          *)
(* directory it has for itself, whatever it found there.                   *)
(***************************************************************************)
\* A script has one way to go on a directory.
LEMMA OneResult ==
  ASSUME NEW d \in DataDir, NEW s \in Seq(Statement)
  PROVE  \E r : Results(d, s) = {r}
<1> DEFINE P == Progress(d, s)
           One(k) == \E r : P[k] = {r}
           S == {k \in Nat : k <= Len(s) => One(k)}
<1>1. Len(s) \in Nat
  BY LenProperties
<1>2. P[0] = {Fresh(d)} /\ \A k \in 1 .. Len(s) : P[k] = {Do(st, s[k]) : st \in P[k - 1]}
  BY <1>1, ProgressSteps
<1> HIDE DEF P
<1>3. One(0)
  BY <1>2
<1>4. ASSUME NEW k \in Nat, k + 1 <= Len(s), One(k)
      PROVE  One(k + 1)
  <2>1. k + 1 \in 1 .. Len(s) /\ (k + 1) - 1 = k
    BY <1>1, <1>4
  <2>2. PICK st : P[k] = {st}
    BY <1>4
  <2>3. P[k + 1] = {Do(x, s[k + 1]) : x \in P[k]}
    BY <1>2, <2>1
  <2>4. P[k + 1] = {Do(st, s[k + 1])}
    BY <2>2, <2>3
  <2> QED
    BY <2>4
<1> HIDE DEF One
<1>5. 0 \in S /\ \A k \in S : k + 1 \in S
  BY <1>1, <1>3, <1>4
<1>6. Len(s) \in S
  <2> HIDE DEF S
  <2> QED
    BY <1>1, <1>5, NatSetInduction
<1>7. One(Len(s))
  BY <1>1, <1>6
<1> QED
  BY <1>7 DEF Results, P, One

\* The schemas are as they were found when the first script began.
SchemasAsFound(d) == \A t \in Tables : d[Schema(t)] = orig[Schema(t)]

\* The statements done so far have made one version of each table.
LEMMA ProgressVersions ==
  ASSUME NEW p \in Procs, script[p] \in Seq(Statement), NEW d \in DataDir, SchemasAsFound(d),
         NEW t \in Tables
  PROVE  \A k \in 0 .. Len(script[p]) : \A r \in Progress(d, script[p])[k] :
           r.ok => /\ r.dir[Schema(t)] = orig[Schema(t)]
                   /\ r.dir[Csv(t)] \in Versions(p, t, d[Csv(t)])[k]
<1> DEFINE s == script[p]
           P == Progress(d, s)
           V == Versions(p, t, d[Csv(t)])
           Made(r, k) == r.dir[Schema(t)] = orig[Schema(t)] /\ r.dir[Csv(t)] \in V[k]
           S == {k \in Nat : k <= Len(s) => \A r \in P[k] : r.ok => \A u \in Tables :
                                              /\ r.dir[Schema(u)] = orig[Schema(u)]
                                              /\ u = t => r.dir[Csv(t)] \in V[k]}
<1>1. s \in Seq(Statement) /\ Len(s) \in Nat /\ DOMAIN s = 1 .. Len(s)
  BY LenProperties
<1>2. P[0] = {Fresh(d)} /\ \A k \in 1 .. Len(s) : P[k] = {Do(st, s[k]) : st \in P[k - 1]}
  BY <1>1, ProgressSteps
<1>3. \A k \in 0 .. Len(s) : P[k] \subseteq ScriptState
  BY <1>1, ProgressType
<1>4. V[0] = {d[Csv(t)]}
  BY <1>1, VersionsSteps
<1> HIDE DEF P, V
<1>5. 0 \in S
  <2>1. Fresh(d).dir = d
    BY DEF Fresh
  <2> QED
    BY <1>2, <1>4, <2>1 DEF SchemasAsFound
<1>6. ASSUME NEW k \in Nat, k \in S
      PROVE  k + 1 \in S
  <2> SUFFICES ASSUME k + 1 <= Len(s), NEW r \in P[k + 1], r.ok, NEW u \in Tables
               PROVE  /\ r.dir[Schema(u)] = orig[Schema(u)]
                      /\ u = t => r.dir[Csv(t)] \in V[k + 1]
    OBVIOUS
  <2>1. k \in 0 .. Len(s) /\ k + 1 \in 1 .. Len(s) /\ (k + 1) - 1 = k
    BY <1>1
  <2>2. PICK st \in P[k] : r = Do(st, s[k + 1])
    BY <1>2, <2>1
  <2> DEFINE stmt == s[k + 1]
  <2>3. st \in ScriptState /\ stmt \in Statement
    BY <1>1, <1>3, <2>1, <2>2, ElementOfSeq
  <2> DEFINE h == st.dir[Schema(stmt.table)]
             c == st.dir[Csv(stmt.table)]
  <2>4. st.ok /\ Accepts(h, c, stmt)
    BY <2>2, <2>3, DoRejected
  <2>5. r.dir[Csv(stmt.table)] = FileAfter(h, c, stmt)
    BY <2>2, <2>3, <2>4, DoAccepted
  <2>6. \A m \in TableFiles : m # Csv(stmt.table) => r.dir[m] = st.dir[m]
    BY <2>2, <2>3, <2>4, DoAccepted
  <2>7. \A v \in Tables : st.dir[Schema(v)] = orig[Schema(v)]
    BY <1>6, <2>1, <2>4
  <2>8. st.dir[Csv(t)] \in V[k]
    BY <1>6, <2>1, <2>4
  <2>9. Schema(u) # Csv(stmt.table) /\ Schema(u) \in TableFiles
    BY StageNames DEF Schema, Csv
  <2>10. r.dir[Schema(u)] = orig[Schema(u)]
    BY <2>6, <2>7, <2>9
  <2>11. r.dir[Csv(t)] \in V[k + 1]
    <3>1. CASE stmt.table # t
      <4>1. Csv(t) # Csv(stmt.table) /\ Csv(t) \in TableFiles
        BY <3>1, StageNames DEF Csv
      <4>2. r.dir[Csv(t)] = st.dir[Csv(t)]
        BY <2>6, <4>1
      <4>3. st.dir[Csv(t)] \in Versions(p, t, d[Csv(t)])[(k + 1) - 1]
        BY <2>1, <2>8 DEF V
      <4> HIDE DEF stmt
      <4>4. stmt = script[p][k + 1]
        BY DEF stmt
      <4> QED
        BY <1>1, <2>1, <3>1, <4>2, <4>3, <4>4, OneMoreVersion DEF V
    <3>2. CASE stmt.table = t
      <4>1. h = orig[Schema(t)] /\ c = st.dir[Csv(t)]
        BY <2>7, <3>2
      <4>2. /\ Accepts(orig[Schema(t)], st.dir[Csv(t)], stmt)
            /\ r.dir[Csv(t)] = FileAfter(orig[Schema(t)], st.dir[Csv(t)], stmt)
        BY <2>4, <2>5, <3>2, <4>1
      <4>3. st.dir[Csv(t)] \in Versions(p, t, d[Csv(t)])[(k + 1) - 1]
        BY <2>1, <2>8 DEF V
      <4> HIDE DEF stmt
      <4>4. stmt = script[p][k + 1]
        BY DEF stmt
      <4> QED
        BY <1>1, <2>1, <3>2, <4>2, <4>3, <4>4, OneMoreVersion DEF V
    <3> QED
      BY <3>1, <3>2
  <2> QED
    BY <2>10, <2>11
<1> HIDE DEF S
<1>7. \A k \in Nat : k \in S
  BY <1>5, <1>6, NatSetInduction
<1>8. ASSUME NEW k \in 0 .. Len(s), NEW r \in P[k], r.ok
      PROVE  Made(r, k)
  <2>1. k \in S /\ k <= Len(s)
    BY <1>1, <1>7
  <2> QED
    BY <1>8, <2>1 DEF S
<1> QED
  BY <1>8 DEF P, V

\* A whole script makes a whole version of each table.
LEMMA ResultVersions ==
  ASSUME NEW p \in Procs, script[p] \in Seq(Statement), NEW d \in DataDir, SchemasAsFound(d),
         NEW t \in Tables, NEW r \in Results(d, script[p]), r.ok
  PROVE  r.dir[Csv(t)] \in WholeVersions(p, t, d[Csv(t)])
<1>1. Len(script[p]) \in 0 .. Len(script[p])
  BY LenProperties
<1>2. r \in Progress(d, script[p])[Len(script[p])]
  BY DEF Results
<1> QED
  BY <1>1, <1>2, ProgressVersions DEF WholeVersions

----------------------------------------------------------------------------
(***************************************************************************)
(* A process that has had the data directory for itself since it held d.   *)
(***************************************************************************)
SoleWriter(p, d) ==
  /\ Steady(p, d)
  /\ Sound(p, d)
  /\ \A n \in TableFiles : live[n] = d[n] \/ n \in Touched(p)

\* The tables still to be rolled back are whole.
ToUndoWhole(p, d) ==
  pc[p] \in UndoLabels =>
    \A k \in 1 .. committed[p], t \in Tables :
      touched[p][k] = Csv(t) /\ (pc[p] = "rollbackMove" => k # committed[p]) =>
        live[Csv(t)] \in WholeVersions(p, t, d[Csv(t)])

\* What p may leave of table t of d, as Left.
LeftOf(p, d, t) ==
  IF Csv(t) \in InHand(p) THEN {NoFile} ELSE {d[Csv(t)]} \cup WholeVersions(p, t, d[Csv(t)])

\* What p leaves of d: a whole version of each table but the one it had in
\* hand, and if it has returned all of its work or none.
Leaves(p, d, e) ==
  /\ Returned(p) => e = Effect(p, d)
  /\ \A t \in Tables : e[Csv(t)] \in LeftOf(p, d, t)

\* The CSV files of the tables in place are what the whole script makes of them.
LEMMA PlacedIsWhole ==
  ASSUME NEW p \in Procs, NEW d \in DataDir, SoleWriter(p, d), SchemasAsFound(d),
         pc[p] \in EndLabels, NEW k \in 1 .. committed[p], NEW t \in Tables, touched[p][k] = Csv(t)
  PROVE  live[Csv(t)] \in WholeVersions(p, t, d[Csv(t)])
<1>1. /\ TypeOK /\ ListsInStep /\ WritesAreStaged /\ TouchedStaged(p)
      /\ touched[p] \in Seq(CsvFiles) /\ script[p] \in Seq(Statement)
      /\ committed[p] \in Nat /\ committed[p] <= Len(touched[p])
  <2>1. TypeOK /\ ListsInStep /\ WritesAreStaged /\ TouchedStaged(p)
    BY DEF SoleWriter, Steady, Typed, Guarded
  <2> QED
    BY <2>1, MaxStatementsIsPositive DEF TypeOK, ListsInStep, InStep
<1>2. k \in DOMAIN touched[p] /\ Csv(t) \in Uses(p)
  <2>1. k \in DOMAIN touched[p]
    BY <1>1, LenProperties
  <2> QED
    BY <1>1, <2>1, UsesNames DEF TouchedStaged, Touched
<1>3. stage[p][Csv(t)] # NoFile
  BY <1>1, <1>2 DEF TouchedStaged, EndLabels
<1>4. Staging(p)
  BY <1>1, <1>2, EmptySeq DEF WritesAreStaged
<1>5. idx[p] - 1 = Len(script[p]) /\ live[Csv(t)] = stage[p][Csv(t)]
  <2>1. Len(script[p]) \in Nat
    BY <1>1, LenProperties
  <2> QED
    BY <2>1 DEF SoleWriter, Sound, PutInPlace
<1>6. PICK r \in Progress(d, script[p])[idx[p] - 1] :
        r.ok /\ \A n \in Uses(p) : r.dir[n] = View(p, d, n)
  BY DEF SoleWriter, Sound, WorkDone, WorkLabels
<1>7. r.dir[Csv(t)] = live[Csv(t)]
  BY <1>2, <1>3, <1>4, <1>5, <1>6 DEF View
<1>8. r \in Results(d, script[p])
  BY <1>5, <1>6 DEF Results
<1> QED
  BY <1>1, <1>6, <1>7, <1>8, ResultVersions

\* What nothing has touched is as it was found.
LEMMA UntouchedAsFound ==
  ASSUME NEW p \in Procs, NEW d \in DataDir, SoleWriter(p, d), NEW n \in TableFiles,
         n \notin Uses(p) \/ AsFound(p, d)
  PROVE  live[n] = d[n]
<1>1. Touched(p) \subseteq Uses(p)
  BY UsesNames DEF SoleWriter, Steady, Guarded, TouchedStaged
<1> QED
  BY <1>1 DEF SoleWriter, AsFound

\* A script that has returned has done all of its work or none.
LEMMA ReturnedHasEffect ==
  ASSUME NEW p \in Procs, NEW d \in DataDir, SoleWriter(p, d), Returned(p)
  PROVE  /\ live = Effect(p, d)
         /\ Succeeded(p) => \E r \in Results(d, script[p]) : r.ok /\ out[p] = r.lines
         /\ Succeeded(p) /\ SchemasAsFound(d) =>
              \A t \in Tables : live[Csv(t)] \in WholeVersions(p, t, d[Csv(t)])
<1>1. /\ script[p] \in ScriptsOf[p] /\ script[p] \in Seq(Statement) /\ live \in DataDir
      /\ Len(script[p]) \in 0 .. Len(script[p])
  BY LenProperties DEF SoleWriter, Steady, WritesAreStaged, Typed, TypeOK
<1>2. CASE Succeeded(p)
  <2>1. Outcome[p] = "ok"
    BY <1>2 DEF Succeeded, Returned, Outcome
  <2>2. PICK a \in Results(d, script[p]) :
          a.ok /\ a.lines = out[p] /\ \A n \in Uses(p) : a.dir[n] = live[n]
    BY <2>1 DEF SoleWriter, Sound, Told
  <2>3. PICK b \in Results(d, script[p]) :
          Alike(p, a, b) /\ \A n \in TableFiles \ Writes(p) : b.dir[n] = d[n]
    BY <1>1, <2>2, ScriptIsLocal DEF Results
  <2>4. b.ok /\ b.lines = out[p] /\ \A n \in Uses(p) : b.dir[n] = live[n]
    BY <2>2, <2>3 DEF Alike
  <2>5. ASSUME NEW n \in TableFiles
        PROVE  live[n] = b.dir[n]
    <3>1. CASE n \in Uses(p)
      BY <2>4, <3>1
    <3>2. CASE n \notin Uses(p)
      BY <2>3, <3>2, UsesNames, UntouchedAsFound
    <3> QED
      BY <3>1, <3>2
  <2>6. b.dir \in DataDir
    BY <1>1, ProgressType DEF Results, ScriptState
  <2>7. live = b.dir
    BY <1>1, <2>5, <2>6 DEF DataDir
  <2>8. (CHOOSE q \in Results(d, script[p]) : TRUE) = b
    <3>1. PICK r : Results(d, script[p]) = {r}
      BY <1>1, OneResult
    <3> QED
      BY <3>1
  <2>9. live = Effect(p, d)
    <3>1. Effect(p, d) = (CHOOSE q \in Results(d, script[p]) : TRUE).dir
      BY <1>2 DEF Effect
    <3> QED
      BY <2>7, <2>8, <3>1
  <2>10. SchemasAsFound(d) => \A t \in Tables : live[Csv(t)] \in WholeVersions(p, t, d[Csv(t)])
    BY <1>1, <2>4, <2>7, ResultVersions
  <2> QED
    BY <2>4, <2>9, <2>10
<1>3. CASE ~Succeeded(p)
  <2>1. AsFound(p, d)
    BY <1>3 DEF Succeeded, Returned, SoleWriter, Steady, Guarded, OriginalsKept
  <2>2. \A n \in TableFiles : live[n] = d[n]
    BY <2>1, UntouchedAsFound
  <2>3. live = d
    BY <1>1, <2>2 DEF DataDir
  <2> QED
    BY <1>3, <2>3 DEF Effect
<1> QED
  BY <1>2, <1>3

\* The table in hand is missing, and the commit had found it there.
LEMMA InHandIsMissing ==
  ASSUME NEW p \in Procs, NEW d \in DataDir, OriginalsKept(p, d), NEW n \in InHand(p)
  PROVE  live[n] = NoFile
  BY DEF InHand, OriginalsKept, Target

\* Wherever a script is left, each table but the one in hand is as found or whole.
LEMMA LeavesWholeTables ==
  ASSUME NEW p \in Procs, NEW d \in DataDir, SoleWriter(p, d), SchemasAsFound(d), ToUndoWhole(p, d),
         NEW t \in Tables
  PROVE  live[Csv(t)] \in LeftOf(p, d, t)
<1>0. CASE Csv(t) \in InHand(p)
  BY <1>0, InHandIsMissing DEF SoleWriter, Steady, Guarded, LeftOf
<1> SUFFICES ASSUME Csv(t) \notin InHand(p)
             PROVE  live[Csv(t)] = d[Csv(t)] \/ live[Csv(t)] \in WholeVersions(p, t, d[Csv(t)])
  BY <1>0 DEF LeftOf
<1> DEFINE n == Csv(t)
<1>1. /\ TypeOK /\ ListsInStep /\ TouchedStaged(p) /\ OriginalsKept(p, d)
      /\ touched[p] \in Seq(CsvFiles) /\ script[p] \in Seq(Statement) /\ pc[p] \in Labels
      /\ committed[p] \in Nat /\ committed[p] <= Len(touched[p])
      /\ DOMAIN touched[p] = 1 .. Len(touched[p]) /\ Len(touched[p]) \in Nat
  BY LenProperties, MaxStatementsIsPositive
     DEF SoleWriter, Steady, Typed, TypeOK, Guarded, ListsInStep, InStep
<1>2. n \in TableFiles
  BY StageNames
<1>3. CASE n \notin Touched(p)
  BY <1>2, <1>3 DEF SoleWriter
<1>4. CASE n \in Touched(p)
  <2>1. PICK k \in DOMAIN touched[p] : touched[p][k] = n
    BY <1>4 DEF Touched
  <2>2. n \in Uses(p)
    BY <1>1, <1>4, UsesNames DEF TouchedStaged
  <2>3. \A m \in Nat : m < k /\ m <= Len(touched[p]) => \A j \in 1 .. m : touched[p][j] # n
    <3> SUFFICES ASSUME NEW m \in Nat, m < k, m <= Len(touched[p]), NEW j \in 1 .. m
                 PROVE  touched[p][j] # n
      OBVIOUS
    <3>1. j \in DOMAIN touched[p] /\ j # k
      BY <1>1, <2>1
    <3> QED
      BY <1>1, <2>1, <3>1 DEF TouchedStaged
  <2>4. CASE AsFound(p, d)
    BY <2>2, <2>4 DEF AsFound
  <2>5. CASE pc[p] \in EndLabels /\ k <= committed[p]
    BY <1>1, <2>1, <2>5, PlacedIsWhole
  <2>6. CASE pc[p] \in UndoLabels /\ k <= committed[p]
    <3>1. pc[p] = "rollbackMove" => k # committed[p]
      BY <1>1, <2>1, <2>6 DEF InHand, OriginalsKept
    <3> QED
      BY <1>1, <2>1, <2>6, <3>1 DEF ToUndoWhole
  <2>7. CASE /\ pc[p] \in {"commitCopy", "commitCheck", "backup", "rollback", "rollbackRemove",
                          "rollbackMove", "flush"}
             /\ k > committed[p]
    <3>1. RestAsFound(p, d, committed[p])
      BY <1>1, <2>7 DEF OriginalsKept
    <3> QED
      BY <1>1, <2>2, <2>3, <2>7, <3>1 DEF RestAsFound
  <2>8. CASE pc[p] \in {"replace", "restore"} /\ k > committed[p]
    <3>1. RestAsFound(p, d, committed[p] + 1)
      BY <1>1, <2>8 DEF OriginalsKept
    <3>2. CASE k = committed[p] + 1
      <4>1. committed[p] \notin hadOriginal[p]
        BY <1>1, <2>1, <2>8, <3>2 DEF InHand
      <4>2. live[Target(p)] = NoFile /\ d[Target(p)] = NoFile
        BY <1>1, <2>8, <4>1 DEF OriginalsKept, KeptInHand
      <4> QED
        BY <2>1, <3>2, <4>2 DEF Target
    <3>3. CASE k # committed[p] + 1
      <4>1. committed[p] + 1 < k /\ committed[p] + 1 <= Len(touched[p])
        BY <1>1, <2>8, <3>3
      <4> QED
        BY <1>1, <2>2, <2>3, <3>1, <4>1 DEF RestAsFound
    <3> QED
      BY <3>2, <3>3
  <2>9. CASE pc[p] \in {"cleanup", "done"} /\ err[p] = "none"
    <3>1. Outcome[p] = "ok"
      BY <2>9 DEF Outcome
    <3>2. PICK r \in Results(d, script[p]) : r.ok /\ \A m \in Uses(p) : r.dir[m] = live[m]
      BY <3>1 DEF SoleWriter, Sound, Told
    <3> QED
      BY <1>1, <2>2, <3>2, ResultVersions
  <2>10. pc[p] \in EarlyLabels \/ (pc[p] \in {"cleanup", "done"} /\ err[p] # "none") => AsFound(p, d)
    BY <1>1 DEF OriginalsKept
  <2> HIDE DEF n
  <2> QED
    BY <1>1, <2>1, <2>4, <2>5, <2>6, <2>7, <2>8, <2>9, <2>10
       DEF Labels, EarlyLabels, StatementLabels, EndLabels, UndoLabels
<1> QED
  BY <1>3, <1>4

----------------------------------------------------------------------------
(***************************************************************************)
(* How that goes on.                                                       *)
(***************************************************************************)
\* A script begins on whatever is there.
LEMMA SoleBegins ==
  ASSUME NEW p \in Procs, NEW d \in DataDir, Typed, WritesAreStaged, Unbegun(p), live = d
  PROVE  SoleWriter(p, d)
<1>1. Guarded(p, d)
  BY UnbegunGuarded DEF AsFound
<1>2. Sound(p, d)
  BY UnbegunSound
<1> QED
  BY <1>1, <1>2 DEF SoleWriter, Steady

LEMMA SoleGoesOn ==
  ASSUME NEW p \in Procs, NEW d \in DataDir, Undoable, SoleWriter(p, d), Typed', Step(p) \/ Crash(p)
  PROVE  SoleWriter(p, d)'
<1>1. Steady(p, d) /\ Typed /\ WritesAreStaged /\ Guarded(p, d) /\ TouchedStaged(p) /\ Sound(p, d)
  BY DEF SoleWriter, Steady, Guarded
<1>2. Guarded(p, d)'
  BY <1>1, OwnGuarded
<1>3. Sound(p, d)'
  BY <1>1, OwnSound
<1>4. WritesAreStaged'
  BY <1>1, NextWritesStaged DEF Next
<1>5. ASSUME NEW n \in TableFiles, n \notin Touched(p)'
      PROVE  live'[n] = d[n]
  <2>1. live'[n] = live[n] /\ n \notin Touched(p)
    BY <1>1, <1>5, UntouchedStays
  <2> QED
    BY <2>1 DEF SoleWriter
<1> QED
  BY <1>2, <1>3, <1>4, <1>5 DEF SoleWriter, Steady

\* Nothing of p's has changed.
Rests(p) ==
  /\ UNCHANGED <<orig, script>>
  /\ pc'[p] = pc[p] /\ alive'[p] = alive[p] /\ idx'[p] = idx[p]
  /\ stage'[p] = stage[p] /\ touched'[p] = touched[p]
  /\ committed'[p] = committed[p] /\ hadOriginal'[p] = hadOriginal[p]
  /\ buf'[p] = buf[p] /\ out'[p] = out[p] /\ err'[p] = err[p]

LEMMA OthersRest ==
  ASSUME NEW q \in Procs, NEW p \in Procs \ {q}, Typed, Step(q) \/ Crash(q)
  PROVE  Rests(p)
  BY OthersStay DEF Rests

LEMMA SoleRests ==
  ASSUME NEW p \in Procs, NEW d \in DataDir, Undoable, SoleWriter(p, d), Typed', WritesAreStaged',
         Rests(p), UNCHANGED live
  PROVE  SoleWriter(p, d)'
<1>1. Steady(p, d) /\ Typed /\ Guarded(p, d) /\ Sound(p, d)
  BY DEF SoleWriter, Steady
<1>2. Guarded(p, d)'
  BY <1>1, StillGuarded DEF Rests
<1>3. Sound(p, d)'
  BY <1>1, StillSound DEF Rests
<1>4. \A n \in TableFiles : (live[n] = d[n] \/ n \in Touched(p))'
  BY DEF SoleWriter, Rests, Touched
<1> QED
  BY <1>2, <1>3, <1>4 DEF SoleWriter, Steady

LEMMA ToUndoRests ==
  ASSUME NEW p \in Procs, NEW d \in DataDir, ToUndoWhole(p, d), Rests(p), UNCHANGED live
  PROVE  ToUndoWhole(p, d)'
<1>1. \A t, f : WholeVersions(p, t, f)' = WholeVersions(p, t, f)
  BY VersionsStay DEF Rests
<1> QED
  BY <1>1 DEF ToUndoWhole, Rests

LEMMA LeavesRests ==
  ASSUME NEW p \in Procs, NEW d \in DataDir, NEW e \in DataDir, Leaves(p, d, e), Rests(p)
  PROVE  Leaves(p, d, e)'
<1>1. \A t, f : WholeVersions(p, t, f)' = WholeVersions(p, t, f)
  BY VersionsStay DEF Rests
<1>2. InHand(p)' = InHand(p) /\ Returned(p)' = Returned(p) /\ Effect(p, d)' = Effect(p, d)
  BY DEF Rests, InHand, Returned, Effect, Succeeded
<1> QED
  BY <1>1, <1>2 DEF Leaves, LeftOf

\* Where a step leads; it never leads back to where the script began.
LEMMA StepLabels ==
  ASSUME NEW p \in Procs, TypeOK, Step(p)
  PROVE  /\ pc[p] # "done" /\ pc'[p] # "mkdir" /\ (pc'[p] = "buffer" => pc[p] = "mkdir")
         /\ pc'[p] \in UndoLabels =>
              \/ Replace(p) /\ UNCHANGED <<live, committed>>
              \/ Flush(p) \/ RestoreCurrent(p)
              \/ RollbackCheck(p) \/ RollbackRemove(p) \/ RollbackMove(p)
<1> USE DEF UndoLabels
<1>1. CASE MakeStageDir(p) \/ OpenBuffer(p) \/ StageCsv(p) \/ CopyCsv(p) \/ StageSchema(p)
  BY <1>1, Moves DEF MakeStageDir, OpenBuffer, StageCsv, CopyCsv, StageSchema, FirstLabel, CopyLabel
<1>2. CASE ExecuteStatement(p)
  <2>1. NextLabel(p) \in {"stageCsv", "exec", "commitCopy", "flush"}
    <3>1. idx[p] < Len(script[p]) \/ idx[p] >= Len(script[p])
      <4>1. idx[p] \in Nat /\ Len(script[p]) \in Nat
        BY LenProperties, MaxStatementsIsPositive DEF TypeOK
      <4> QED
        BY <4>1
    <3> QED
      BY <3>1 DEF NextLabel, FirstLabel
  <2>2. pc[p] = "exec"
    BY <1>2 DEF ExecuteStatement
  <2>3. pc'[p] = NextLabel(p) \/ pc'[p] = "cleanup"
    BY <1>2, Moves DEF ExecuteStatement, Perform, Reject
  <2> QED
    BY <2>1, <2>2, <2>3
<1>3. CASE DieOnSchema(p)
  BY <1>3 DEF DieOnSchema
<1>4. CASE CommitCopy(p) \/ CommitCheck(p) \/ BackUpOriginal(p)
  BY <1>4, Moves DEF CommitCopy, CommitCheck, BackUpOriginal
<1>5. CASE Replace(p)
  BY <1>5, Moves DEF Replace
<1>6. CASE RestoreCurrent(p)
  BY <1>6, Moves DEF RestoreCurrent
<1>7. CASE RollbackCheck(p) \/ RollbackRemove(p)
  BY <1>7, Moves DEF RollbackCheck, RollbackRemove, Removed, Undone
<1>8. CASE RollbackMove(p)
  BY <1>8, Moves DEF RollbackMove, Undone
<1>9. CASE RollbackEnds(p) \/ Cleanup(p)
  <2>1. (Proceed(p, "cleanup") \/ Proceed(p, "done")) /\ pc[p] \in {"rollback", "cleanup"}
    BY <1>9 DEF RollbackEnds, Cleanup
  <2> QED
    BY <2>1, Moves
<1>10. CASE Flush(p)
  BY <1>10, Moves DEF Flush
<1> QED
  BY <1>1, <1>2, <1>3, <1>4, <1>5, <1>6, <1>7, <1>8, <1>9, <1>10 DEF Step

\* The files of the tables that stay to be rolled back are not written.
LEMMA ToUndoApart ==
  ASSUME NEW p \in Procs, NEW d \in DataDir, SoleWriter(p, d), NEW j \in DOMAIN touched[p], NEW f,
         PutLive(touched[p][j], f), NEW k \in DOMAIN touched[p], k # j
  PROVE  live'[touched[p][k]] = live[touched[p][k]]
<1>1. TypeOK /\ touched[p][j] # touched[p][k]
  BY DEF SoleWriter, Steady, Typed, Guarded, TouchedStaged
<1>2. touched[p][j] \in TableFiles /\ touched[p][k] \in TableFiles
  BY <1>1, TouchedNames
<1> QED
  BY <1>1, <1>2, OneLive

\* The commit may be undone at any point, and the rollback goes from last to first.
LEMMA ToUndoGoesOn ==
  ASSUME NEW p \in Procs, NEW d \in DataDir, Undoable, SoleWriter(p, d), SchemasAsFound(d),
         ToUndoWhole(p, d), Step(p) \/ Crash(p)
  PROVE  ToUndoWhole(p, d)'
<1>1. /\ TypeOK /\ ListsInStep /\ Typed
      /\ touched[p] \in Seq(CsvFiles) /\ committed[p] \in Nat /\ committed[p] <= Len(touched[p])
      /\ DOMAIN touched[p] = 1 .. Len(touched[p]) /\ Len(touched[p]) \in Nat
  <2>1. TypeOK /\ ListsInStep /\ Typed
    BY DEF SoleWriter, Steady, Typed
  <2> QED
    BY <2>1, LenProperties, MaxStatementsIsPositive DEF TypeOK, ListsInStep, InStep
<1>2. \A t, f : WholeVersions(p, t, f)' = WholeVersions(p, t, f)
  BY <1>1, OthersStay, VersionsStay
<1>3. CASE Crash(p)
  BY <1>2, <1>3 DEF Crash, lists, ToUndoWhole
<1>4. CASE Step(p) /\ pc'[p] \in UndoLabels
  <2> SUFFICES ASSUME NEW k \in 1 .. committed'[p], NEW t \in Tables, touched'[p][k] = Csv(t),
                      pc'[p] = "rollbackMove" => k # committed'[p]
               PROVE  live'[Csv(t)] \in WholeVersions(p, t, d[Csv(t)])
    BY <1>2 DEF ToUndoWhole
  <2>1. CASE (Replace(p) /\ UNCHANGED <<live, committed>>) \/ Flush(p)
    <3>1. pc[p] \in EndLabels /\ UNCHANGED <<live, committed, touched>>
      BY <2>1 DEF Replace, Flush, EndLabels, lists
    <3> QED
      BY <3>1, PlacedIsWhole
  <2>2. CASE RestoreCurrent(p)
    <3>1. pc[p] = "restore" /\ UNCHANGED <<committed, touched>>
      BY <2>2 DEF RestoreCurrent, lists
    <3>2. committed[p] + 1 \in DOMAIN touched[p]
      BY <1>1, <3>1 DEF ListsInStep, InStep, CommitLabels
    <3>3. UNCHANGED live \/ PutLive(Target(p), stage[p][Backup(p)])
      BY <2>2 DEF RestoreCurrent
    <3>4. /\ k \in 1 .. committed[p] /\ k \in DOMAIN touched[p] /\ k # committed[p] + 1
          /\ touched[p][k] = Csv(t)
      BY <1>1, <3>1
    <3>5. live'[Csv(t)] = live[Csv(t)]
      BY <3>2, <3>3, <3>4, ToUndoApart DEF Target
    <3> QED
      BY <3>1, <3>4, <3>5 DEF ToUndoWhole, UndoLabels
  <2>3. CASE RollbackCheck(p) \/ RollbackRemove(p) \/ RollbackMove(p)
    <3>1. pc[p] \in {"rollback", "rollbackRemove", "rollbackMove"} /\ UNCHANGED touched /\ committed[p] > 0
      <4>1. pc[p] \in {"rollbackRemove", "rollbackMove"} => committed[p] > 0
        BY <1>1 DEF ListsInStep, InStep
      <4> QED
        BY <2>3, <4>1 DEF RollbackCheck, RollbackRemove, RollbackMove
    <3>2. committed[p] \in DOMAIN touched[p]
      BY <1>1, <3>1
    <3>3. \/ UNCHANGED live
          \/ \E f : PutLive(touched[p][committed[p]], f)
      BY <2>3 DEF RollbackCheck, RollbackRemove, RollbackMove
    <3>4. \/ committed'[p] = committed[p] - 1
          \/ committed'[p] = committed[p] /\ pc'[p] \in {"rollbackMove", "cleanup"}
          \/ UNCHANGED <<live, committed>> /\ pc[p] = "rollback"
      BY <1>1, <2>3, Moves DEF RollbackCheck, RollbackRemove, RollbackMove, Removed, Undone, TypeOK
    <3>5. CASE UNCHANGED <<live, committed>> /\ pc[p] = "rollback"
      BY <3>1, <3>5 DEF ToUndoWhole, UndoLabels
    <3>6. CASE committed'[p] = committed[p] - 1 \/ (committed'[p] = committed[p] /\ pc'[p] = "rollbackMove")
      <4>1. /\ k \in 1 .. committed[p] /\ k \in DOMAIN touched[p] /\ k # committed[p]
            /\ touched[p][k] = Csv(t)
        BY <1>1, <3>1, <3>6
      <4>2. live'[Csv(t)] = live[Csv(t)]
        BY <3>2, <3>3, <4>1, ToUndoApart
      <4> QED
        BY <3>1, <4>1, <4>2 DEF ToUndoWhole, UndoLabels
    <3> QED
      BY <1>4, <3>4, <3>5, <3>6 DEF UndoLabels
  <2> QED
    BY <1>1, <1>4, <2>1, <2>2, <2>3, StepLabels
<1>5. CASE pc'[p] \notin UndoLabels
  BY <1>5 DEF ToUndoWhole
<1> QED
  BY <1>3, <1>4, <1>5

----------------------------------------------------------------------------
(***************************************************************************)
(* The inductive invariant of OrderSpec.                                   *)
(***************************************************************************)
\* Until q begins, p has the tables for itself.  If p is over by then, q has
\* them for itself, as p has left them.
InTurn(p, q) ==
  /\ Waiting(q) => /\ Unbegun(q) /\ earlier[q] = {}
                   /\ SoleWriter(p, orig) /\ ToUndoWhole(p, orig)
  /\ p \in earlier[q] =>
       /\ Returned(p) \/ ~alive[p]
       /\ \E e \in DataDir : SchemasAsFound(e) /\ Leaves(p, orig, e) /\ SoleWriter(q, e)

\* A process is not over when it begins, and only one that stages makes a stage.
Begins(p) == p \notin earlier[p] /\ (pc[p] = "mkdir" => Staging(p))

Orderly ==
  /\ Typed /\ WritesAreStaged
  /\ earlier \in [Procs -> SUBSET Procs]
  /\ \A p \in Procs : Begins(p)
  /\ \A p, q \in Procs : p # q /\ Procs = {p, q} => InTurn(p, q)

\* The tables as p leaves them are what q is to find.
LEMMA SoleLeaves ==
  ASSUME NEW p \in Procs, NEW d \in DataDir, SoleWriter(p, d), SchemasAsFound(d), ToUndoWhole(p, d)
  PROVE  live \in DataDir /\ SchemasAsFound(live) /\ Leaves(p, d, live)
<1>1. TypeOK /\ live \in DataDir /\ touched[p] \in Seq(CsvFiles)
  BY DEF SoleWriter, Steady, Typed, TypeOK
<1>2. \A t \in Tables : live[Schema(t)] = d[Schema(t)]
  <2> SUFFICES ASSUME NEW t \in Tables
               PROVE  Schema(t) \in TableFiles /\ Schema(t) \notin Touched(p)
    BY DEF SoleWriter
  <2>1. \A u : Csv(u) # Schema(t)
    BY DEF Csv, Schema
  <2>2. Schema(t) \notin CsvFiles
    BY <2>1 DEF CsvFiles
  <2> QED
    BY <1>1, <2>2, StageNames, TouchedNames DEF Touched
<1>3. Returned(p) => live = Effect(p, d)
  BY ReturnedHasEffect
<1> QED
  BY <1>1, <1>2, <1>3, LeavesWholeTables DEF SchemasAsFound, Leaves

\* A process that takes a step from where it began has begun.
LEMMA BegunForGood ==
  ASSUME NEW p \in Procs, Typed, Begins(p), Step(p)
  PROVE  ~Waiting(p)' /\ (pc'[p] = "mkdir" => Staging(p)')
<1>1. pc'[p] # "mkdir" /\ (pc'[p] = "buffer" => pc[p] = "mkdir")
  BY StepLabels DEF Typed
<1>2. Staging(p)' = Staging(p)
  BY OthersStay DEF Staging
<1> QED
  BY <1>1, <1>2 DEF Waiting, Begins

\* One that is over stays so.
LEMMA OverStays ==
  ASSUME NEW p \in Procs, Typed, Returned(p) \/ ~alive[p]
  PROVE  ~Step(p) /\ ~Crash(p)
  BY StepLabels DEF Typed, Returned, Step, Crash

LEMMA InitOrderly ==
  ASSUME OrderInit
  PROVE  Orderly
<1>1. Init /\ Typed
  BY InitTyped DEF OrderInit
<1>2. WritesAreStaged
  BY <1>1 DEF Init, WritesAreStaged
<1>3. earlier = [p \in Procs |-> {}] /\ orig = live /\ orig \in DataDir
  BY <1>1 DEF OrderInit, Init, Typed, TypeOK
<1>4. \A p \in Procs : Begins(p)
  BY <1>1, <1>3 DEF Init, Begins
<1>5. PICK d \in DataDir : d = orig
  BY <1>3
<1>6. ASSUME NEW p \in Procs
      PROVE  Unbegun(p) /\ SoleWriter(p, d) /\ ToUndoWhole(p, d)
  <2>1. Unbegun(p)
    BY <1>1, InitUnbegun
  <2>2. ToUndoWhole(p, d)
    BY <2>1 DEF Unbegun, ToUndoWhole, UndoLabels
  <2> QED
    BY <1>1, <1>2, <1>3, <1>5, <2>1, <2>2, SoleBegins
<1>7. \A p, q \in Procs : InTurn(p, q)
  BY <1>3, <1>5, <1>6 DEF InTurn
<1> QED
  BY <1>1, <1>2, <1>3, <1>4, <1>7 DEF Orderly

\* A step of p: q waits or has what p has left, which no step of p changes.
LEMMA FirstInTurn ==
  ASSUME NEW p \in Procs, NEW q \in Procs, p # q, Procs = {p, q}, Undoable, Orderly, Typed',
         Step(p) \/ Crash(p), earlier'[q] = earlier[q]
  PROVE  InTurn(p, q)'
<1>1. Typed /\ WritesAreStaged /\ InTurn(p, q)
  BY DEF Orderly
<1>2. Rests(q) /\ orig' = orig
  BY <1>1, OthersRest DEF Rests
<1>3. PICK d \in DataDir : d = orig
  BY <1>1 DEF Typed, TypeOK
<1>4. SchemasAsFound(d)
  BY <1>3 DEF SchemasAsFound
<1>5. p \notin earlier[q]
  BY <1>1, OverStays DEF InTurn
<1>6. ASSUME Waiting(q)'
      PROVE  Unbegun(q)' /\ earlier'[q] = {} /\ SoleWriter(p, d)' /\ ToUndoWhole(p, d)'
  <2>1. Waiting(q)
    BY <1>2, <1>6 DEF Waiting, Staging, Rests
  <2>2. Unbegun(q) /\ earlier[q] = {} /\ SoleWriter(p, d) /\ ToUndoWhole(p, d)
    BY <1>1, <1>3, <2>1 DEF InTurn
  <2>3. Unbegun(q)'
    BY <1>2, <2>2 DEF Unbegun, Rests
  <2>4. SoleWriter(p, d)'
    BY <2>2, SoleGoesOn
  <2>5. ToUndoWhole(p, d)'
    BY <1>4, <2>2, ToUndoGoesOn
  <2> QED
    BY <2>2, <2>3, <2>4, <2>5
<1> QED
  BY <1>2, <1>3, <1>5, <1>6 DEF InTurn

\* A step of q: it goes on, or begins on the tables as they are.
LEMMA SecondInTurn ==
  ASSUME NEW p \in Procs, NEW q \in Procs, p # q, Procs = {p, q}, Undoable, Orderly, Typed',
         WritesAreStaged', Step(q) \/ Crash(q),
         earlier'[q] = IF Waiting(q) /\ pc'[q] # pc[q] THEN {r \in Procs : Returned(r) \/ ~alive[r]}
                                                       ELSE earlier[q]
  PROVE  InTurn(p, q)'
<1>1. Typed /\ WritesAreStaged /\ InTurn(p, q) /\ Begins(q)
  BY DEF Orderly
<1>2. Rests(p) /\ orig' = orig
  BY <1>1, OthersRest DEF Rests
<1>3. PICK d \in DataDir : d = orig
  BY <1>1 DEF Typed, TypeOK
<1>4. SchemasAsFound(d) /\ \A e : SchemasAsFound(e)' = SchemasAsFound(e)
  BY <1>2, <1>3 DEF SchemasAsFound
<1>5. CASE Crash(q) /\ Waiting(q)
  <2>1. /\ UNCHANGED <<pc, live, script, idx, err, touched, hadOriginal, stage>>
        /\ earlier'[q] = earlier[q]
    BY <1>5 DEF Crash, Waiting, lists
  <2>2. Waiting(q)
    BY <1>5
  <2>3. Unbegun(q) /\ earlier[q] = {} /\ SoleWriter(p, d) /\ ToUndoWhole(p, d)
    BY <1>1, <1>3, <2>2 DEF InTurn
  <2>4. out' = out
    BY <1>5, <2>3 DEF Crash, Unbegun
  <2>5. Unbegun(q)'
    BY <2>1, <2>3, <2>4 DEF Unbegun
  <2>6. SoleWriter(p, d)'
    BY <1>2, <2>1, <2>3, SoleRests
  <2>7. ToUndoWhole(p, d)'
    BY <1>2, <2>1, <2>3, ToUndoRests
  <2> QED
    BY <1>2, <1>3, <2>1, <2>3, <2>5, <2>6, <2>7 DEF InTurn
<1>6. CASE Step(q) /\ Waiting(q)
  <2>1. Unbegun(q) /\ SoleWriter(p, d) /\ ToUndoWhole(p, d)
    BY <1>1, <1>3, <1>6 DEF InTurn
  <2>2. ~Waiting(q)' /\ pc'[q] # pc[q]
    <3>1. ~Waiting(q)'
      BY <1>1, <1>6, BegunForGood
    <3> QED
      BY <1>2, <1>6, <3>1 DEF Waiting, Staging, Rests
  <2>3. earlier'[q] = {r \in Procs : Returned(r) \/ ~alive[r]}
    BY <1>6, <2>2
  <2>4. ASSUME p \in earlier'[q]
        PROVE  /\ Returned(p)' \/ ~alive'[p]
               /\ \E e \in DataDir : SchemasAsFound(e)' /\ Leaves(p, d, e)' /\ SoleWriter(q, e)'
    <3>1. Returned(p) \/ ~alive[p]
      BY <2>3, <2>4
    <3>2. live \in DataDir /\ SchemasAsFound(live) /\ Leaves(p, d, live)
      BY <1>4, <2>1, SoleLeaves
    <3>3. PICK e \in DataDir : e = live
      BY <3>2
    <3>4. SchemasAsFound(e)' /\ Leaves(p, d, e)'
      BY <1>2, <1>4, <3>2, <3>3, LeavesRests
    <3>5. SoleWriter(q, e)'
      BY <1>1, <1>6, <2>1, <3>3, SoleBegins, SoleGoesOn
    <3> QED
      BY <1>2, <3>1, <3>4, <3>5 DEF Rests, Returned
  <2> QED
    BY <1>2, <1>3, <2>2, <2>4 DEF InTurn
<1>7. CASE ~Waiting(q)
  <2>1. ~Waiting(q)'
    <3>1. CASE Step(q)
      BY <1>1, <3>1, BegunForGood
    <3>2. CASE Crash(q)
      BY <1>7, <3>2 DEF Crash, Waiting, Staging
    <3> QED
      BY <3>1, <3>2
  <2>2. ASSUME p \in earlier'[q]
        PROVE  /\ Returned(p)' \/ ~alive'[p]
               /\ \E e \in DataDir : SchemasAsFound(e)' /\ Leaves(p, d, e)' /\ SoleWriter(q, e)'
    <3>1. p \in earlier[q]
      BY <1>7, <2>2
    <3>2. Returned(p) \/ ~alive[p]
      BY <1>1, <3>1 DEF InTurn
    <3>3. PICK e \in DataDir : SchemasAsFound(e) /\ Leaves(p, d, e) /\ SoleWriter(q, e)
      BY <1>1, <1>3, <3>1 DEF InTurn
    <3>4. SchemasAsFound(e)' /\ Leaves(p, d, e)'
      BY <1>2, <1>4, <3>3, LeavesRests
    <3>5. SoleWriter(q, e)'
      BY <3>3, SoleGoesOn
    <3> QED
      BY <1>2, <3>2, <3>4, <3>5 DEF Rests, Returned
  <2> QED
    BY <1>2, <1>3, <2>1, <2>2 DEF InTurn
<1> QED
  BY <1>5, <1>6, <1>7

\* No step at all.
LEMMA StillInTurn ==
  ASSUME NEW p \in Procs, NEW q \in Procs, p # q, Procs = {p, q}, Undoable, Orderly, Typed',
         WritesAreStaged', UNCHANGED <<vars, earlier>>
  PROVE  InTurn(p, q)'
<1>1. Typed /\ InTurn(p, q) /\ UNCHANGED live
  BY DEF Orderly, vars
<1>2. Rests(p) /\ Rests(q) /\ orig' = orig
  BY DEF vars, Rests
<1>3. PICK d \in DataDir : d = orig
  BY <1>1 DEF Typed, TypeOK
<1>4. ASSUME Waiting(q)'
      PROVE  Unbegun(q)' /\ earlier'[q] = {} /\ SoleWriter(p, d)' /\ ToUndoWhole(p, d)'
  <2>1. Waiting(q)
    BY <1>2, <1>4 DEF Waiting, Staging, Rests
  <2>2. Unbegun(q) /\ earlier[q] = {} /\ SoleWriter(p, d) /\ ToUndoWhole(p, d)
    BY <1>1, <1>3, <2>1 DEF InTurn
  <2> QED
    BY <1>1, <1>2, <2>2, SoleRests, ToUndoRests DEF Unbegun, Rests
<1>5. ASSUME p \in earlier'[q]
      PROVE  /\ Returned(p)' \/ ~alive'[p]
             /\ \E e \in DataDir : SchemasAsFound(e)' /\ Leaves(p, d, e)' /\ SoleWriter(q, e)'
  <2>1. Returned(p) \/ ~alive[p]
    BY <1>1, <1>5 DEF InTurn
  <2>2. PICK e \in DataDir : SchemasAsFound(e) /\ Leaves(p, d, e) /\ SoleWriter(q, e)
    BY <1>1, <1>3, <1>5 DEF InTurn
  <2>3. SchemasAsFound(e)'
    BY <1>2, <2>2 DEF SchemasAsFound
  <2>4. Leaves(p, d, e)'
    BY <1>2, <2>2, LeavesRests
  <2>5. SoleWriter(q, e)'
    BY <1>1, <1>2, <2>2, SoleRests
  <2> QED
    BY <1>2, <2>1, <2>3, <2>4, <2>5 DEF Rests, Returned
<1> QED
  BY <1>2, <1>3, <1>4, <1>5 DEF InTurn

LEMMA NextOrderly ==
  ASSUME Undoable, Orderly, [OrderNext]_<<vars, earlier>>, Typed'
  PROVE  Orderly'
<1>1. [Next]_vars
  BY DEF OrderNext
<1>2. WritesAreStaged'
  BY <1>1, NextWritesStaged DEF Orderly
<1>3. CASE UNCHANGED <<vars, earlier>>
  <2>1. \A p \in Procs : Begins(p)'
    BY <1>3 DEF Orderly, Begins, vars, Staging
  <2>2. \A p, q \in Procs : p # q /\ Procs = {p, q} => InTurn(p, q)'
    BY <1>2, <1>3, StillInTurn
  <2> QED
    BY <1>2, <1>3, <2>1, <2>2 DEF Orderly
<1>4. CASE OrderNext /\ UNCHANGED vars
  <2>1. earlier' = earlier
    <3>1. \A p \in Procs : earlier'[p] = earlier[p]
      BY <1>4 DEF OrderNext, vars
    <3>2. earlier' \in [Procs -> SUBSET Procs] /\ earlier \in [Procs -> SUBSET Procs]
      BY <1>4 DEF OrderNext, Orderly
    <3> QED
      BY <3>1, <3>2
  <2> QED
    BY <1>3, <1>4, <2>1
<1>5. ASSUME OrderNext, NEW r \in Procs, Step(r) \/ Crash(r)
      PROVE  Orderly'
  <2>1. \A p \in Procs : earlier'[p] =
          IF Waiting(p) /\ pc'[p] # pc[p] THEN {q \in Procs : Returned(q) \/ ~alive[q]} ELSE earlier[p]
    BY <1>5 DEF OrderNext
  <2>2. earlier' \in [Procs -> SUBSET Procs]
    BY <1>5 DEF OrderNext, Orderly
  <2>3. \A p \in Procs \ {r} : Rests(p) /\ earlier'[p] = earlier[p]
    <3>1. \A p \in Procs \ {r} : Rests(p)
      BY <1>5, OthersRest DEF Orderly
    <3> QED
      BY <2>1, <3>1 DEF Rests
  <2>4. ASSUME NEW p \in Procs \ {r}
        PROVE  Begins(p)'
    <3>1. Rests(p) /\ earlier'[p] = earlier[p] /\ Begins(p)
      BY <2>3 DEF Orderly
    <3> QED
      BY <3>1 DEF Begins, Rests, Staging
  <2>5. Begins(r)'
    <3>1. Typed /\ Begins(r)
      BY DEF Orderly
    <3>2. CASE Step(r)
      <4>1. alive[r] /\ ~Returned(r)
        BY <3>1, <3>2, OverStays
      <4>2. r \notin earlier'[r]
        BY <2>1, <3>1, <4>1 DEF Begins
      <4> QED
        BY <3>1, <3>2, <4>2, BegunForGood DEF Begins
    <3>3. CASE Crash(r)
      BY <2>1, <3>1, <3>3 DEF Crash, Begins, Staging
    <3> QED
      BY <1>5, <3>2, <3>3
  <2>6. ASSUME NEW p \in Procs, NEW q \in Procs, p # q, Procs = {p, q}
        PROVE  InTurn(p, q)'
    <3>1. CASE r = p
      BY <1>5, <2>3, <2>6, <3>1, FirstInTurn
    <3>2. CASE r = q
      BY <1>2, <1>5, <2>1, <2>6, <3>2, SecondInTurn
    <3> QED
      BY <2>6, <3>1, <3>2
  <2> QED
    BY <1>2, <2>2, <2>4, <2>5, <2>6 DEF Orderly
<1> QED
  BY <1>3, <1>4, <1>5 DEF OrderNext, Next, Terminated

LEMMA AlwaysOrderly ==
  ASSUME Undoable
  PROVE  OrderSpec => []Orderly
<1>1. OrderInit => Orderly
  BY InitOrderly
<1>2. Orderly /\ [OrderNext]_<<vars, earlier>> => Orderly'
  <2> SUFFICES ASSUME Orderly, [OrderNext]_<<vars, earlier>>
               PROVE  Orderly'
    OBVIOUS
  <2>1. Typed'
    BY NextTyped DEF OrderNext, Orderly
  <2> QED
    BY <2>1, NextOrderly
<1> QED
  BY <1>1, <1>2, PTL DEF OrderSpec

\* Two scripts that do not overlap are serial, whatever fails that the commit
\* undoes: the second finds the tables as the first has left them, all of its
\* work or none, and its own work is added to them or is none.
THEOREM ScriptsInTurnAdd ==
  ASSUME Undoable
  PROVE  OrderSpec => []SerialScriptsAdd
<1>1. Orderly => SerialScriptsAdd
  <2> SUFFICES ASSUME Orderly, NEW p \in Procs, NEW q \in Procs, Procs = {p, q}, p \in earlier[q],
                      Returned(p), Returned(q)
               PROVE  /\ live = Effect(q, Effect(p, orig))
                      /\ Succeeded(q) =>
                           \E r \in Results(Effect(p, orig), script[q]) : r.ok /\ out[q] = r.lines
    BY DEF SerialScriptsAdd
  <2>1. p # q
    BY DEF Orderly, Begins
  <2>2. PICK e \in DataDir : Leaves(p, orig, e) /\ SoleWriter(q, e)
    BY <2>1 DEF Orderly, InTurn
  <2>3. e = Effect(p, orig)
    BY <2>2 DEF Leaves
  <2> QED
    BY <2>2, <2>3, ReturnedHasEffect
<1> QED
  BY <1>1, AlwaysOrderly, PTL

\* A script that is run after another was killed works on whole tables: each is
\* as the killed script found it or meant to leave it, the ones it had already
\* committed among them, and no part of a statement is left.  Only the one table
\* it had moved away and not yet put back is missing.
THEOREM RestartIsOnWholeTables ==
  ASSUME Undoable
  PROVE  OrderSpec => []RestartFindsWholeTables
<1>1. Orderly => RestartFindsWholeTables
  <2> SUFFICES ASSUME Orderly, NEW p \in Procs, NEW q \in Procs, Procs = {p, q}, p \in earlier[q],
                      Succeeded(q), NEW t \in Tables
               PROVE  \E f \in Left(p, t) : live[Csv(t)] \in WholeVersions(q, t, f)
    BY DEF RestartFindsWholeTables
  <2>1. p # q
    BY DEF Orderly, Begins
  <2>2. PICK e \in DataDir : SchemasAsFound(e) /\ Leaves(p, orig, e) /\ SoleWriter(q, e)
    BY <2>1 DEF Orderly, InTurn
  <2>3. live[Csv(t)] \in WholeVersions(q, t, e[Csv(t)])
    BY <2>2, ReturnedHasEffect DEF Succeeded
  <2>4. e[Csv(t)] \in Left(p, t)
    BY <2>2 DEF Leaves, LeftOf, Left
  <2> QED
    BY <2>3, <2>4
<1> QED
  BY <1>1, AlwaysOrderly, PTL
=============================================================================
