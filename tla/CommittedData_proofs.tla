------------------------ MODULE CommittedData_proofs ------------------------
(***************************************************************************)
(* What the report of regressiondata-check is worth, for any tree of       *)
(* directories and any rule files: every entry is judged by itself, an     *)
(* exit code of 0 leaves nothing out, what the program has written passes, *)
(* and what --fix could write is canonical and nests as serde_yaml had it. *)
(***************************************************************************)
EXTENDS CommittedData, FiniteSetTheorems, SequenceTheorems, WellFoundedInduction, TLAPS

Counters == [total : Nat, passed : Nat, skipped : Nat, ignored : Nat, failed : Nat,
             missing : Nat, mismatched : Nat]

PerRule(f) == f = [r \in Rules |-> f[r]]

\* What --fix has still to write is there.
ToFix(todos, dirs) ==
  \A r \in Rules : /\ <<r, "info">> \in todos => IsDirectory(dirs[r])
                   /\ <<r, "json">> \in todos => IsDirectory(dirs[r]) /\ dirs[r].files["json"] # None

TreeInv ==
  /\ PerRule(tree) /\ \A r \in Rules : tree[r] # None => IsDirectory(tree[r])
  /\ PerRule(rule) /\ \A r \in Rules : IsRuleFile(rule[r])
  /\ pc = "fixing" => ToFix(todo, tree)

\* What does not count as failed.
Sound(v) == v \in {"pass", "raw"} \cup (IF ignore THEN Ignorable ELSE {})

\* Halfway through a validation: what was judged so far, and its counters.
ReportInv ==
  /\ count \in Counters /\ ignore \in BOOLEAN /\ PerRule(verdict)
  /\ pc = "checking" => alerts = NoAlerts
  /\ pc \in {"checking", "done"} =>
       /\ entries \subseteq Rules /\ todo \subseteq entries
       /\ \A r \in entries : tree[r] # None /\ IsDirectory(tree[r])
       /\ \A r \in entries \ todo : verdict[r] = VerdictAlone(r)
       /\ Cardinality(entries \ todo) = count.passed + count.failed + count.ignored + count.skipped
       /\ count.total = count.passed + count.failed + count.skipped
       /\ count.failed = 0 => \A r \in entries \ todo : Sound(VerdictAlone(r))
       /\ pc = "checking" \/ exit = 0 =>
            /\ count.missing = Cardinality(MissingPaths(entries))
            /\ count.mismatched = Cardinality(MismatchedPaths(entries))
  /\ pc = "done" =>
       /\ todo = {}
       /\ exit = 0 => count.missing = 0 /\ count.mismatched = 0 /\ count.failed = 0

-----------------------------------------------------------------------------
(* The layout of what the program writes.                                 *)

\* A sequence of one sequence.
LEMMA FlattenedOne ==
  ASSUME NEW s
  PROVE  FlattenSeq(<<s>>) = s
<1> DEFINE q == <<s>>
           F(f) == [i \in 1 .. Len(q) |-> IF i = 1 THEN q[i] ELSE f[i - 1] \o q[i]]
           g == CHOOSE f : f = F(f)
<1>1. Len(q) = 1 /\ q[1] = s
  OBVIOUS
<1>2. \E f : f = F(f)
  <2> DEFINE h == [i \in 1 .. 1 |-> s]
  <2>1. h = F(h)
    OBVIOUS
  <2> QED BY <2>1
<1>3. g = F(g)
  BY <1>2
<1>4. FlattenSeq(q) = g[Len(q)]
  BY <1>1 DEF FlattenSeq
<1> QED BY <1>1, <1>3, <1>4

\* What a concatenation is, element by element.
LEMMA Joins ==
  ASSUME NEW S, NEW s \in Seq(S), NEW t \in Seq(S), NEW u \in Seq(S), Len(u) = Len(s) + Len(t),
         \A i \in 1 .. Len(s) : u[i] = s[i],
         \A i \in 1 .. Len(t) : u[Len(s) + i] = t[i]
  PROVE  s \o t = u
<1>1. s \o t \in Seq(S) /\ Len(s \o t) = Len(u) /\ Len(s) \in Nat /\ Len(t) \in Nat
  OBVIOUS
<1>2. ASSUME NEW i \in 1 .. Len(u) PROVE (s \o t)[i] = u[i]
  <2>1. CASE i <= Len(s)
    BY <1>1, <2>1
  <2>2. CASE i > Len(s)
    <3> DEFINE j == i - Len(s)
    <3>1. j \in 1 .. Len(t) /\ i = Len(s) + j
      BY <1>1, <2>2
    <3>2. (s \o t)[i] = t[j]
      BY <1>1, <2>2, <3>1
    <3> QED BY <3>1, <3>2
  <2> QED BY <1>1, <2>1, <2>2
<1> QED BY <1>1, <1>2, SeqEqual

\* Two concatenations that serde_yaml's lines are made of: the line of a list
\* and those of its one test,
LEMMA JoinedBlock ==
  ASSUME NEW a, NEW b, NEW c, NEW d
  PROVE  <<a>> \o <<b, c, d>> = <<a, b, c, d>>
<1> DEFINE S == {a, b, c, d}
           s == <<a>>
           t == <<b, c, d>>
           u == <<a, b, c, d>>
<1>1. s \in Seq(S) /\ t \in Seq(S) /\ u \in Seq(S) /\ Len(s) = 1 /\ Len(t) = 3 /\ Len(u) = 4
  OBVIOUS
<1>2. u[1] = s[1] /\ u[2] = t[1] /\ u[3] = t[2] /\ u[4] = t[3]
  OBVIOUS
<1> HIDE DEF s, t, u, S
<1>3. \A i \in 1 .. Len(s) : u[i] = s[i]
  BY <1>1, <1>2
<1>4. \A i \in 1 .. Len(t) : u[Len(s) + i] = t[i]
  BY <1>1, <1>2
<1>5. Len(u) = Len(s) + Len(t)
  BY <1>1
<1>6. s \o t = u
  BY <1>1, <1>3, <1>4, <1>5, Joins, Zenon
<1> QED BY <1>6 DEF s, t, u

\* and the lines of a test without pipelines.
LEMMA JoinedItem ==
  ASSUME NEW a, NEW b, NEW c
  PROVE  (<<a, b>> \o <<>>) \o <<c>> = <<a, b, c>>
<1> DEFINE S == {a, b, c}
<1>1. <<a, b>> \o <<c>> = <<a, b, c>>
  <2> DEFINE s == <<a, b>>
             t == <<c>>
             u == <<a, b, c>>
  <2>1. s \in Seq(S) /\ t \in Seq(S) /\ u \in Seq(S) /\ Len(s) = 2 /\ Len(t) = 1 /\ Len(u) = 3
    OBVIOUS
  <2>2. u[1] = s[1] /\ u[2] = s[2] /\ u[3] = t[1]
    OBVIOUS
  <2> HIDE DEF s, t, u, S
  <2>3. \A i \in 1 .. Len(s) : u[i] = s[i]
    BY <2>1, <2>2
  <2>4. \A i \in 1 .. Len(t) : u[Len(s) + i] = t[i]
    BY <2>1, <2>2
  <2>5. Len(u) = Len(s) + Len(t)
    BY <2>1
  <2>6. s \o t = u
    BY <2>1, <2>3, <2>4, <2>5, Joins, Zenon
  <2> QED BY <2>6 DEF s, t, u
<1>2. <<a, b>> \o <<>> = <<a, b>>
  OBVIOUS
<1> QED BY <1>1, <1>2

\* What serde_yaml writes for the one test that the program declares.
LEMMA SerdeOfOne ==
  ASSUME NEW kind \in Kinds
  PROVE  Serde(<<InfoOf(kind)>>)
           = <<Line("id", 0), Block("rule_metadata", 0), Item("id", 0), Line("title", 2),
               Block("regression_tests_info", 0),
               Item("name", 0), Line("type", 2), Line("path", 2)>>
<1> DEFINE t == InfoOf(kind)
           tests == <<t>>
<1>1. t.pipelines = <<>>
  BY DEF InfoOf
<1>2. SerdeTest(t) = <<Item("name", 0), Line("type", 2), Line("path", 2)>>
  <2>1. SerdeTest(t) = (<<Item("name", 0), Line("type", 2)>> \o <<>>) \o <<Line("path", 2)>>
    BY <1>1 DEF SerdeTest
  <2> QED BY <2>1, JoinedItem
<1>3. tests # <<>> /\ DOMAIN tests = 1 .. 1 /\ tests[1] = t
  OBVIOUS
<1>4. [i \in DOMAIN tests |-> SerdeTest(tests[i])] = <<SerdeTest(t)>>
  <2> DEFINE l == [i \in DOMAIN tests |-> SerdeTest(tests[i])]
             m == <<SerdeTest(t)>>
  <2>1. DOMAIN m = 1 .. 1 /\ m[1] = SerdeTest(t) /\ m = [i \in 1 .. 1 |-> m[i]]
    OBVIOUS
  <2>2. DOMAIN l = 1 .. 1 /\ l = [i \in 1 .. 1 |-> l[i]] /\ l[1] = SerdeTest(t)
    <3> HIDE DEF t
    <3> QED BY <1>3
  <2>3. \A i \in 1 .. 1 : l[i] = m[i]
    BY <2>1, <2>2
  <2> QED BY <2>1, <2>2, <2>3
<1>5. FlattenSeq([i \in DOMAIN tests |-> SerdeTest(tests[i])])
        = <<Item("name", 0), Line("type", 2), Line("path", 2)>>
  BY <1>2, <1>4, FlattenedOne
<1> HIDE DEF tests
<1>6. Serde(tests)
        = <<Line("id", 0), Block("rule_metadata", 0), Item("id", 0), Line("title", 2)>>
          \o (<<Block("regression_tests_info", 0)>>
              \o <<Item("name", 0), Line("type", 2), Line("path", 2)>>)
  BY <1>3, <1>5 DEF Serde
<1>7. <<Block("regression_tests_info", 0)>> \o <<Item("name", 0), Line("type", 2), Line("path", 2)>>
        = <<Block("regression_tests_info", 0), Item("name", 0), Line("type", 2), Line("path", 2)>>
  <2> DEFINE a == Block("regression_tests_info", 0)
             b == Item("name", 0)
             c == Line("type", 2)
             d == Line("path", 2)
  <2> HIDE DEF a, b, c, d
  <2>1. <<a>> \o <<b, c, d>> = <<a, b, c, d>>
    BY JoinedBlock
  <2> QED BY <2>1 DEF a, b, c, d
<1>8. Serde(tests)
        = <<Line("id", 0), Block("rule_metadata", 0), Item("id", 0), Line("title", 2)>>
          \o <<Block("regression_tests_info", 0), Item("name", 0), Line("type", 2), Line("path", 2)>>
  BY <1>6, <1>7
<1> QED BY <1>8 DEF tests

\* Where no two lines are called the same, the canonical document is its own layout.
LEMMA OwnLayout ==
  ASSUME NEW lines,
         \A i, j \in DOMAIN lines : lines[i].key = lines[j].key /\ lines[i].item = lines[j].item => i = j,
         \A i \in DOMAIN lines : IsLine(lines[i])
  PROVE  LET canonical == ToSigmaIndent(lines)
         IN  /\ ~NeedsReindent(canonical, canonical)
             /\ \A i \in DOMAIN canonical : IsLine(canonical[i])
<1> DEFINE c == ToSigmaIndent(lines)
<1>1. DOMAIN c = DOMAIN lines
  BY DEF ToSigmaIndent
<1>2. \A i \in DOMAIN c : c[i].key = lines[i].key /\ c[i].item = lines[i].item /\ IsLine(c[i])
  <2> SUFFICES ASSUME NEW i \in DOMAIN lines
               PROVE  c[i].key = lines[i].key /\ c[i].item = lines[i].item /\ IsLine(c[i])
    BY <1>1
  <2> DEFINE l == lines[i]
             n == Column(l, OpenAfter(lines)[i - 1])
  <2>1. c[i] = [l EXCEPT !.col = n] /\ IsLine(l)
    BY DEF ToSigmaIndent
  <2> HIDE DEF n
  <2>2. c[i] = [key |-> l.key, item |-> l.item, bare |-> l.bare, col |-> n]
    BY <2>1 DEF IsLine
  <2> QED BY <2>2 DEF IsLine
<1> HIDE DEF c
<1>3. ASSUME NEW i \in DOMAIN c PROVE ~Misplaced(c[i], c)
  <2>1. Known(c[i], c) = {i}
    BY <1>1, <1>2 DEF Known
  <2>2. Min({i}) = i
    BY <1>3 DEF Min
  <2>3. CanonicalIndent(c[i], c) = c[i].col
    BY <2>1, <2>2 DEF CanonicalIndent
  <2> QED BY <2>1, <2>3 DEF Misplaced
<1>4. ~NeedsReindent(c, c)
  BY <1>3 DEF NeedsReindent
<1> QED BY <1>2, <1>4 DEF c

\* What the program writes is in its canonical layout.
LEMMA WrittenIsCanonical ==
  ASSUME NEW kind \in Kinds
  PROVE  LET lines == CanonicalYaml[<<InfoOf(kind)>>]
         IN  ~NeedsReindent(lines, lines) /\ \A i \in DOMAIN lines : IsLine(lines[i])
<1> DEFINE tests == <<InfoOf(kind)>>
           lines == Serde(tests)
<1>1. CanonicalYaml[tests] = ToSigmaIndent(lines)
  <2>1. tests \in TestLists
    BY DEF TestLists
  <2> HIDE DEF tests
  <2> QED BY <2>1 DEF CanonicalYaml, Canonical
<1>2. /\ DOMAIN lines = 1 .. 8
      /\ lines[1] = Line("id", 0) /\ lines[2] = Block("rule_metadata", 0)
      /\ lines[3] = Item("id", 0) /\ lines[4] = Line("title", 2)
      /\ lines[5] = Block("regression_tests_info", 0) /\ lines[6] = Item("name", 0)
      /\ lines[7] = Line("type", 2) /\ lines[8] = Line("path", 2)
  <2> DEFINE l == <<Line("id", 0), Block("rule_metadata", 0), Item("id", 0), Line("title", 2),
                    Block("regression_tests_info", 0),
                    Item("name", 0), Line("type", 2), Line("path", 2)>>
  <2>1. lines = l
    BY SerdeOfOne
  <2>2. DOMAIN l = 1 .. 8
    OBVIOUS
  <2> QED BY <2>1, <2>2
<1> HIDE DEF lines
<1>3. \A i \in 1 .. 8 : IsLine(lines[i])
  <2> SUFFICES ASSUME NEW i \in 1 .. 8 PROVE IsLine(lines[i])
    OBVIOUS
  <2>1. \E k \in {"id", "rule_metadata", "title", "regression_tests_info", "name", "type", "path"},
           n \in Nat : lines[i] \in {Line(k, n), Block(k, n), Item(k, n)}
    BY <1>2
  <2> QED BY <2>1 DEF Line, Block, Item, IsLine
<1>4. /\ lines[1].key = "id" /\ ~lines[1].item /\ lines[2].key = "rule_metadata"
      /\ lines[3].key = "id" /\ lines[3].item /\ lines[4].key = "title"
      /\ lines[5].key = "regression_tests_info" /\ lines[6].key = "name"
      /\ lines[7].key = "type" /\ lines[8].key = "path"
  BY <1>2 DEF Line, Block, Item
<1>5. \A i, j \in 1 .. 8 : lines[i].key = lines[j].key /\ lines[i].item = lines[j].item => i = j
  BY <1>4
<1> QED BY <1>1, <1>2, <1>3, <1>5, OwnLayout

-----------------------------------------------------------------------------
(* The directories.                                                        *)

\* The smallest of some numbers is one of them.
LEMMA LeastOne ==
  ASSUME NEW S, S \subseteq 1 .. 4, S # {}
  PROVE  Min(S) \in S /\ \A x \in S : Min(S) <= x
<1>1. \E x \in S : \A y \in S : x <= y
  <2>1. CASE 1 \in S
    BY <2>1
  <2>2. CASE 1 \notin S /\ 2 \in S
    BY <2>2
  <2>3. CASE 1 \notin S /\ 2 \notin S /\ 3 \in S
    BY <2>3
  <2>4. CASE 1 \notin S /\ 2 \notin S /\ 3 \notin S
    <3>1. \A x \in S : x = 4
      BY <2>4
    <3>2. 4 \in S
      BY <3>1
    <3> QED BY <3>1, <3>2
  <2> QED BY <2>1, <2>2, <2>3, <2>4
<1> QED BY <1>1 DEF Min

\* The data that is replayed has a count for every rule.
LEMMA HitsOfData ==
  ASSUME CommittedDataAssumption, NEW d, IsDirectory(d)
  PROVE  DataOf(d) \in DataFiles
<1>1. DOMAIN d.files = {"evtx", "log", "raw", "json"}
  BY DEF IsDirectory, NoFiles
<1>2. Nothing \in DataFiles
  BY DEF Nothing, DataFiles, Contents
<1>3. CASE DataExt(d) = None
  BY <1>2, <1>3 DEF DataOf
<1>4. CASE DataExt(d) # None
  <2> DEFINE found == {i \in DOMAIN Extensions : d.files[Extensions[i]] # None}
  <2>1. found \subseteq 1 .. 4 /\ found # {}
    BY <1>4 DEF DataExt, Extensions
  <2>2. DataExt(d) = Extensions[Min(found)]
    BY <2>1 DEF DataExt
  <2>3. Min(found) \in found
    <3> HIDE DEF found
    <3> QED BY <2>1, LeastOne
  <2> DEFINE e == Extensions[Min(found)]
  <2>4. e \in {"evtx", "log", "raw", "json"} /\ d.files[e] # None
    <3> DEFINE i == Min(found)
    <3>1. i \in 1 .. 4 /\ d.files[Extensions[i]] # None
      BY <2>3 DEF Extensions
    <3> HIDE DEF i
    <3>2. Extensions[i] \in {"evtx", "log", "raw", "json"}
      BY <3>1 DEF Extensions
    <3> QED BY <3>1, <3>2 DEF i
  <2> HIDE DEF found
  <2>5. d.files[e] \in DataFiles
    BY <1>1, <2>4 DEF IsDirectory
  <2> QED BY <1>4, <2>2, <2>5 DEF DataOf
<1> QED BY <1>3, <1>4

\* An engine that holds no alert adds nothing to a replay.
LEMMA NothingAdded ==
  ASSUME CommittedDataAssumption, TreeInv, NEW d, IsDirectory(d)
  PROVE  [q \in Rules |-> NoAlerts[q] + Replay(d)[q]] = Replay(d)
<1>1. \A q \in Rules : Replay(d)[q] \in Nat
  BY HitsOfData DEF Replay, DataFiles
<1>2. \A q \in Rules : NoAlerts[q] + Replay(d)[q] = Replay(d)[q]
  BY <1>1 DEF NoAlerts
<1> QED BY <1>2 DEF Replay

\* What is indented again is lines.
LEMMA LinesStay ==
  ASSUME NEW lines, NEW canonical, \A i \in DOMAIN lines : IsLine(lines[i])
  PROVE  \A i \in DOMAIN Reindent(lines, canonical) : IsLine(Reindent(lines, canonical)[i])
<1> SUFFICES ASSUME NEW i \in DOMAIN lines PROVE IsLine(Reindent(lines, canonical)[i])
  BY DEF Reindent
<1> DEFINE l == lines[i]
           n == IF Known(l, canonical) = {} THEN 0 ELSE CanonicalIndent(l, canonical)
<1>1. Reindent(lines, canonical)[i] = [l EXCEPT !.col = n] /\ IsLine(l)
  BY DEF Reindent
<1> HIDE DEF n
<1>2. Reindent(lines, canonical)[i] = [key |-> l.key, item |-> l.item, bare |-> l.bare, col |-> n]
  BY <1>1 DEF IsLine
<1> QED BY <1>2 DEF IsLine

LEMMA TreeInit ==
  ASSUME CommittedDataAssumption, Init
  PROVE  TreeInv
<1>1. PICK f \in [Rules -> UNION {Committed[r] : r \in Rules}] :
        tree = f /\ \A r \in Rules : f[r] \in Committed[r]
  BY DEF Init
<1>2. PICK g \in [Rules -> UNION {RuleFiles[r] : r \in Rules}] :
        rule = g /\ \A r \in Rules : g[r] \in RuleFiles[r]
  BY DEF Init
<1>3. PerRule(tree) /\ PerRule(rule)
  BY <1>1, <1>2 DEF PerRule
<1>4. \A r \in Rules : tree[r] # None => IsDirectory(tree[r])
  BY <1>1 DEF CommittedDataAssumption
<1>5. \A r \in Rules : IsRuleFile(rule[r])
  BY <1>2 DEF CommittedDataAssumption
<1>6. pc = "idle"
  BY DEF Init
<1> QED BY <1>3, <1>4, <1>5, <1>6 DEF TreeInv

\* What a step of --fix does to a directory, it does to one of its parts.
LEMMA PartWritten ==
  ASSUME TreeInv, NEW r \in Rules, IsDirectory(tree[r])
  PROVE  LET d == tree[r] IN
         /\ \A f : [tree EXCEPT ![r].files["json"] = f]
                     = [tree EXCEPT ![r] = [lines |-> d.lines, tests |-> d.tests,
                                            files |-> [d.files EXCEPT !["json"] = f]]]
         /\ \A l : [tree EXCEPT ![r].lines = l]
                     = [tree EXCEPT ![r] = [lines |-> l, tests |-> d.tests, files |-> d.files]]
<1> DEFINE d == tree[r]
<1>1. d = [lines |-> d.lines, tests |-> d.tests, files |-> d.files]
  BY DEF IsDirectory
<1>2. \A f : [d EXCEPT !.files["json"] = f]
               = [lines |-> d.lines, tests |-> d.tests, files |-> [d.files EXCEPT !["json"] = f]]
  BY <1>1
<1>3. \A l : [d EXCEPT !.lines = l] = [lines |-> l, tests |-> d.tests, files |-> d.files]
  BY <1>1
<1> QED BY <1>2, <1>3

\* A directory is replaced by another one.
LEMMA DirectoryWritten ==
  ASSUME TreeInv, NEW r \in Rules, NEW d, IsDirectory(d),
         tree' = [tree EXCEPT ![r] = d], UNCHANGED rule,
         pc' = "fixing" => /\ pc = "fixing" /\ todo' \subseteq todo
                           /\ <<r, "json">> \in todo' => d.files["json"] # None
  PROVE  TreeInv'
<1>1. PerRule(tree) /\ PerRule(rule)
  BY DEF TreeInv
<1>2. \A q \in Rules : tree'[q] = IF q = r THEN d ELSE tree[q]
  BY <1>1 DEF PerRule
<1>3. PerRule(tree')
  BY <1>1 DEF PerRule
<1>4. \A q \in Rules : tree'[q] # None => IsDirectory(tree'[q])
  BY <1>2 DEF TreeInv
<1>5. ASSUME pc' = "fixing" PROVE ToFix(todo', tree')
  <2> SUFFICES ASSUME NEW q \in Rules
               PROVE  /\ <<q, "info">> \in todo' => IsDirectory(tree'[q])
                      /\ <<q, "json">> \in todo' => /\ IsDirectory(tree'[q])
                                                    /\ tree'[q].files["json"] # None
    BY DEF ToFix
  <2>1. CASE q = r
    BY <1>2, <1>5, <2>1
  <2>2. CASE q # r
    <3>1. ToFix(todo, tree)
      BY <1>5 DEF TreeInv
    <3>2. tree'[q] = tree[q] /\ todo' \subseteq todo
      BY <1>2, <1>5, <2>2
    <3> QED BY <3>1, <3>2 DEF ToFix
  <2> QED BY <2>1, <2>2
<1>6. \A q \in Rules : IsRuleFile(rule'[q])
  BY DEF TreeInv
<1> QED BY <1>1, <1>3, <1>4, <1>5, <1>6 DEF TreeInv

LEMMA TreeStep ==
  ASSUME CommittedDataAssumption, TreeInv, [Next]_vars
  PROVE  TreeInv'
<1>1. ASSUME NEW r \in Rules, NEW kind \in Kinds, NEW withJson \in BOOLEAN,
             NEW hits \in [Rules -> 0 .. 2], Generate(r, kind, withJson, hits)
      PROVE  TreeInv'
  <2> DEFINE old == IF tree[r] = None THEN NoFiles ELSE tree[r].files
             ext == Format(kind)
             tests == <<InfoOf(kind)>>
             files == [old EXCEPT ![ext] = DataFile(kind, hits),
                                  !["json"] = IF withJson THEN JsonFile(kind, hits) ELSE @]
             d == [lines |-> CanonicalYaml[tests], tests |-> tests, files |-> files]
  <2>1. old \in [DOMAIN NoFiles -> DataFiles \cup {None}] /\ ext \in DOMAIN NoFiles
    BY DEF TreeInv, IsDirectory, NoFiles, Format
  <2>2. DataFile(kind, hits) \in DataFiles /\ JsonFile(kind, hits) \in DataFiles
    BY DEF DataFile, JsonFile, DataFiles, Contents, Records
  <2>3. files \in [DOMAIN NoFiles -> DataFiles \cup {None}]
    <3> HIDE DEF old, ext
    <3> QED BY <2>1, <2>2
  <2>4. /\ tree' = [tree EXCEPT ![r] = d] /\ rule' = [rule EXCEPT ![r].names = r]
        /\ pc' = "idle"
    BY <1>1 DEF Generate
  <2>5. IsDirectory(d)
    <3>1. \A i \in DOMAIN CanonicalYaml[tests] : IsLine(CanonicalYaml[tests][i])
      BY WrittenIsCanonical
    <3> HIDE DEF files, tests
    <3> QED BY <2>3, <3>1 DEF IsDirectory
  <2> HIDE DEF d
  <2>6. PerRule(tree) /\ PerRule(rule)
    BY DEF TreeInv
  <2>7. PerRule(tree') /\ PerRule(rule')
    BY <2>4, <2>6 DEF PerRule
  <2>8. \A q \in Rules : tree'[q] = IF q = r THEN d ELSE tree[q]
    BY <2>4, <2>6 DEF PerRule
  <2>9. \A q \in Rules : IsRuleFile(rule'[q])
    <3> SUFFICES ASSUME NEW q \in Rules PROVE IsRuleFile(rule'[q])
      OBVIOUS
    <3>1. IsRuleFile(rule[q])
      BY DEF TreeInv
    <3>2. rule'[q] = IF q = r THEN [rule[q] EXCEPT !.names = r] ELSE rule[q]
      BY <2>4, <2>6 DEF PerRule
    <3> QED BY <3>1, <3>2 DEF IsRuleFile
  <2> QED BY <2>4, <2>5, <2>7, <2>8, <2>9 DEF TreeInv
<1>2. ASSUME NEW r \in Rules, FixJson(r) PROVE TreeInv'
  <2> DEFINE t == tree[r]
             f == FixedJson(t.files["json"])
             d == [lines |-> t.lines, tests |-> t.tests, files |-> [t.files EXCEPT !["json"] = f]]
  <2>1. /\ pc = "fixing" /\ pc' = pc /\ todo' = todo \ {<<r, "json">>} /\ UNCHANGED rule
        /\ tree' = [tree EXCEPT ![r].files["json"] = f]
    BY <1>2 DEF FixJson
  <2>2. IsDirectory(t) /\ t.files["json"] # None
    <3>1. pc = "fixing" /\ <<r, "json">> \in todo
      BY <1>2 DEF FixJson
    <3>2. ToFix(todo, tree)
      BY <3>1 DEF TreeInv
    <3> QED BY <3>1, <3>2 DEF ToFix
  <2>3. t.files \in [DOMAIN NoFiles -> DataFiles \cup {None}] /\ "json" \in DOMAIN NoFiles
    BY <2>2 DEF IsDirectory, NoFiles
  <2>4. t.files["json"] \in DataFiles
    BY <2>2, <2>3
  <2>5. f \in DataFiles
    BY <2>4 DEF FixedJson, DataFiles
  <2>6. tree' = [tree EXCEPT ![r] = d]
    BY <2>1, <2>2, PartWritten
  <2>7. IsDirectory(d)
    <3> HIDE DEF f, t
    <3> QED BY <2>2, <2>3, <2>5 DEF IsDirectory
  <2>8. <<r, "json">> \notin todo'
    BY <2>1
  <2> HIDE DEF d
  <2> QED BY <2>1, <2>6, <2>7, <2>8, DirectoryWritten
<1>3. ASSUME NEW r \in Rules, FixInfo(r) PROVE TreeInv'
  <2> DEFINE t == tree[r]
             canonical == CanonicalYaml[t.tests]
             l == Reindent(t.lines, canonical)
             d == [lines |-> l, tests |-> t.tests, files |-> t.files]
  <2>1. /\ pc = "fixing" /\ pc' = pc /\ todo' = todo \ {<<r, "info">>} /\ UNCHANGED rule
        /\ tree' = tree \/ tree' = [tree EXCEPT ![r].lines = l]
    BY <1>3 DEF FixInfo
  <2>2. IsDirectory(t) /\ (<<r, "json">> \in todo => t.files["json"] # None)
    <3>1. pc = "fixing" /\ <<r, "info">> \in todo
      BY <1>3 DEF FixInfo
    <3>2. ToFix(todo, tree)
      BY <3>1 DEF TreeInv
    <3> QED BY <3>1, <3>2 DEF ToFix
  <2>3. CASE tree' = tree
    <3>1. todo' \subseteq todo
      BY <2>1
    <3>2. ToFix(todo', tree')
      BY <2>1, <2>3, <3>1 DEF TreeInv, ToFix
    <3> QED BY <2>1, <2>3, <3>2 DEF TreeInv
  <2>4. CASE tree' = [tree EXCEPT ![r].lines = l]
    <3>1. tree' = [tree EXCEPT ![r] = d]
      BY <2>2, <2>4, PartWritten
    <3>2. IsDirectory(d) /\ d.files = t.files
      <4>1. \A i \in DOMAIN l : IsLine(l[i])
        BY <2>2, LinesStay DEF IsDirectory
      <4> HIDE DEF l, t
      <4> QED BY <2>2, <4>1 DEF IsDirectory
    <3> HIDE DEF d
    <3> QED BY <2>1, <2>2, <3>1, <3>2, DirectoryWritten
  <2> QED BY <2>1, <2>3, <2>4
<1>4. ASSUME NEW r \in Rules, NEW file \in {"json", "info"}, FixKilled(r, file) PROVE TreeInv'
  <2> DEFINE t == tree[r]
  <2>1. pc' = "idle" /\ UNCHANGED rule /\ IsDirectory(t)
    <3>1. pc = "fixing" /\ <<r, file>> \in todo /\ pc' = "idle" /\ UNCHANGED rule
      BY <1>4 DEF FixKilled, Written
    <3>2. ToFix(todo, tree)
      BY <3>1 DEF TreeInv
    <3> QED BY <1>4, <3>1, <3>2 DEF ToFix
  <2>2. \/ tree' = [tree EXCEPT ![r].lines = <<>>]
        \/ tree' = [tree EXCEPT ![r].files["json"] = Nothing]
    BY <1>4 DEF FixKilled, Tear
  <2>3. CASE tree' = [tree EXCEPT ![r].lines = <<>>]
    <3> DEFINE d == [lines |-> <<>>, tests |-> t.tests, files |-> t.files]
    <3>1. tree' = [tree EXCEPT ![r] = d]
      BY <2>1, <2>3, PartWritten
    <3>2. IsDirectory(d)
      BY <2>1 DEF IsDirectory
    <3> HIDE DEF d
    <3> QED BY <2>1, <3>1, <3>2, DirectoryWritten
  <2>4. CASE tree' = [tree EXCEPT ![r].files["json"] = Nothing]
    <3> DEFINE d == [lines |-> t.lines, tests |-> t.tests,
                     files |-> [t.files EXCEPT !["json"] = Nothing]]
    <3>1. tree' = [tree EXCEPT ![r] = d]
      BY <2>1, <2>4, PartWritten
    <3>2. IsDirectory(d)
      <4>1. Nothing \in DataFiles
        BY DEF Nothing, DataFiles, Contents
      <4> HIDE DEF t
      <4> QED BY <2>1, <4>1 DEF IsDirectory
    <3> HIDE DEF d
    <3> QED BY <2>1, <3>1, <3>2, DirectoryWritten
  <2> QED BY <2>2, <2>3, <2>4
<1>5. CASE StartFix
  <2>1. tree' = tree /\ rule' = rule
    BY <1>5 DEF StartFix, disk
  <2>2. \A r \in Rules : /\ <<r, "info">> \in todo' => tree[r] # None
                         /\ <<r, "json">> \in todo' => /\ tree[r] # None
                                                       /\ tree[r].files["json"] # None
    BY <1>5 DEF StartFix, Entries, Loads
  <2>3. ToFix(todo', tree)
    BY <2>2 DEF TreeInv, ToFix
  <2> QED BY <2>1, <2>3 DEF TreeInv
<1>6. ASSUME NEW r \in Rules, NEW file \in {"json", "info"}, FixFails(r, file) PROVE TreeInv'
  <2>1. /\ todo' \subseteq todo /\ pc = "fixing" /\ pc' = pc /\ tree' = tree /\ rule' = rule
    BY <1>6 DEF FixFails, disk
  <2>2. ToFix(todo', tree')
    BY <2>1 DEF TreeInv, ToFix
  <2> QED BY <2>1, <2>2 DEF TreeInv
<1>7. ASSUME UNCHANGED disk, pc' # "fixing" \/ UNCHANGED <<pc, todo>> PROVE TreeInv'
  BY <1>7 DEF TreeInv, disk
<1>8. ASSUME NEW i \in BOOLEAN, StartCheck(i) PROVE TreeInv'
  BY <1>7, <1>8 DEF StartCheck
<1>9. ASSUME NEW r \in Rules, CheckEntry(r) PROVE TreeInv'
  BY <1>7, <1>9 DEF CheckEntry
<1>10. CASE FinishCheck \/ FinishFix \/ Leave \/ UNCHANGED vars
  BY <1>7, <1>10 DEF FinishCheck, FinishFix, Leave, vars
<1> QED BY <1>1, <1>2, <1>3, <1>4, <1>5, <1>6, <1>8, <1>9, <1>10 DEF Next

-----------------------------------------------------------------------------
(* The report.                                                             *)

\* The verdict on an entry is a matter of the files alone.
LEMMA VerdictStays ==
  ASSUME tree' = tree, rule' = rule, NEW r
  PROVE  VerdictAlone(r)' = VerdictAlone(r)
BY DEF VerdictAlone, Replay

LEMMA PathsStay ==
  ASSUME tree' = tree, rule' = rule, NEW E
  PROVE  MissingPaths(E)' = MissingPaths(E) /\ MismatchedPaths(E)' = MismatchedPaths(E)
BY DEF MissingPaths, MismatchedPaths

LEMMA FinitePaths ==
  ASSUME CommittedDataAssumption, NEW E, E \subseteq Rules
  PROVE  IsFiniteSet(MissingPaths(E)) /\ IsFiniteSet(MismatchedPaths(E))
<1> DEFINE N == {<<"named", q>> : q \in Rules}
<1> DEFINE f == [q \in Rules |-> <<"named", q>>]
<1>1. IsFiniteSet(Rules) /\ IsFiniteSet(N)
  <2>1. f \in [Rules -> N] /\ \A n \in N : \E q \in Rules : f[q] = n
    OBVIOUS
  <2>2. f \in Surjection(Rules, N)
    <3> HIDE DEF f, N
    <3> QED BY <2>1 DEF Surjection
  <2>3. IsFiniteSet(Rules)
    BY DEF CommittedDataAssumption
  <2> HIDE DEF f, N
  <2> QED BY <2>2, <2>3, FS_Surjection
<1>2. IsFiniteSet(Rules \cup N)
  BY <1>1, FS_Union
<1>3. MissingPaths(E) \subseteq Rules \cup N /\ MismatchedPaths(E) \subseteq Rules \cup N
  BY DEF MissingPaths, MismatchedPaths
<1> QED BY <1>2, <1>3, FS_Subset

\* One more entry is judged, by itself, and counted once.
LEMMA EntryJudged ==
  ASSUME CommittedDataAssumption, TreeInv, ReportInv, NEW r \in Rules, CheckEntry(r)
  PROVE  ReportInv'
<1> DEFINE d == tree[r]
           v == VerdictAlone(r)
<1>1. /\ pc = "checking" /\ r \in todo /\ todo' = todo \ {r} /\ pc' = pc
      /\ tree' = tree /\ rule' = rule /\ entries' = entries /\ exit' = exit /\ ignore' = ignore
  BY DEF CheckEntry, disk
<1>2. /\ entries \subseteq Rules /\ todo \subseteq entries /\ IsDirectory(d) /\ alerts = NoAlerts
      /\ \A q \in entries : tree[q] # None /\ IsDirectory(tree[q])
      /\ PerRule(verdict) /\ count \in Counters /\ ignore \in BOOLEAN
  BY <1>1 DEF ReportInv
<1>3. [q \in Rules |-> alerts[q] + Replay(d)[q]] = Replay(d)
  BY <1>2, NothingAdded
<1>4. /\ verdict' = [verdict EXCEPT ![r] = v]
      /\ count' = Counted(v)
      /\ alerts' = NoAlerts
  BY <1>2, <1>3 DEF CheckEntry, VerdictAlone, AlertsLeft
<1>5. /\ PerRule(verdict') /\ verdict'[r] = v
      /\ \A q \in Rules : q # r => verdict'[q] = verdict[q]
  BY <1>2, <1>4 DEF PerRule
<1>6. entries \ todo' = (entries \ todo) \cup {r} /\ r \notin entries \ todo
  BY <1>1, <1>2
<1>7. \A q \in entries' \ todo' : verdict'[q] = VerdictAlone(q)'
  <2> SUFFICES ASSUME NEW q \in entries \ todo' PROVE verdict'[q] = VerdictAlone(q)
    BY <1>1, VerdictStays
  <2> QED BY <1>1, <1>2, <1>5, <1>6 DEF ReportInv
<1>8. Cardinality(entries \ todo') = Cardinality(entries \ todo) + 1
  <2>1. IsFiniteSet(entries \ todo)
    BY <1>2, FS_Subset DEF CommittedDataAssumption
  <2> QED BY <1>6, <2>1, FS_AddElement
<1> HIDE DEF v
<1>9. /\ count' \in Counters
      /\ count'.missing = count.missing /\ count'.mismatched = count.mismatched
      /\ count'.passed + count'.failed + count'.ignored + count'.skipped
           = count.passed + count.failed + count.ignored + count.skipped + 1
      /\ count.total = count.passed + count.failed + count.skipped
           => count'.total = count'.passed + count'.failed + count'.skipped
      /\ count'.failed = 0 => count.failed = 0 /\ Sound(v)
  <2>1. CASE ignore /\ v \in Ignorable
    <3>1. count' = [count EXCEPT !.ignored = @ + 1]
      BY <1>4, <2>1 DEF Counted
    <3> QED BY <1>2, <2>1, <3>1 DEF Counters, Sound
  <2>2. CASE ~(ignore /\ v \in Ignorable)
    <3> DEFINE p == IF v = "pass" THEN 1 ELSE 0
               k == IF v = "raw" THEN 1 ELSE 0
               f == IF v \notin {"pass", "raw"} THEN 1 ELSE 0
    <3>1. count' = [count EXCEPT !.total = @ + 1, !.passed = @ + p, !.skipped = @ + k,
                                 !.failed = @ + f]
      BY <1>4, <2>2 DEF Counted
    <3>2. /\ p \in {0, 1} /\ k \in {0, 1} /\ f \in {0, 1} /\ p + k + f = 1
          /\ f = 0 => Sound(v)
      BY DEF Sound
    <3> HIDE DEF p, k, f
    <3>3. count' = [total |-> count.total + 1, passed |-> count.passed + p,
                    skipped |-> count.skipped + k, ignored |-> count.ignored,
                    failed |-> count.failed + f, missing |-> count.missing,
                    mismatched |-> count.mismatched]
      BY <1>2, <3>1 DEF Counters
    <3>5. count' \in Counters
      <4>1. /\ count.total + 1 \in Nat /\ count.passed + p \in Nat /\ count.skipped + k \in Nat
            /\ count.failed + f \in Nat /\ count.ignored \in Nat /\ count.missing \in Nat
            /\ count.mismatched \in Nat
        BY <1>2, <3>2 DEF Counters
      <4> QED BY <3>3, <4>1 DEF Counters
    <3>6. /\ count'.total = count.total + 1 /\ count'.passed = count.passed + p
          /\ count'.skipped = count.skipped + k /\ count'.failed = count.failed + f
          /\ count'.ignored = count.ignored
          /\ count'.missing = count.missing /\ count'.mismatched = count.mismatched
      BY <3>3
    <3>4. /\ count.total \in Nat /\ count.passed \in Nat /\ count.skipped \in Nat
          /\ count.failed \in Nat /\ count.ignored \in Nat
      BY <1>2 DEF Counters
    <3> QED BY <3>2, <3>4, <3>5, <3>6
  <2> QED BY <2>1, <2>2
<1>10. count'.failed = 0 => \A q \in entries' \ todo' : Sound(VerdictAlone(q))'
  <2> SUFFICES ASSUME count'.failed = 0, NEW q \in entries \ todo' PROVE Sound(VerdictAlone(q))
    BY <1>1, VerdictStays DEF Sound
  <2>1. CASE q = r
    BY <1>9, <2>1 DEF v
  <2>2. CASE q # r
    BY <1>1, <1>6, <1>9, <2>2 DEF ReportInv
  <2> QED BY <2>1, <2>2
<1>11. /\ count'.missing = Cardinality(MissingPaths(entries))'
       /\ count'.mismatched = Cardinality(MismatchedPaths(entries))'
  <2>1. /\ count.missing = Cardinality(MissingPaths(entries))
        /\ count.mismatched = Cardinality(MismatchedPaths(entries))
    BY <1>1 DEF ReportInv
  <2>2. MissingPaths(entries)' = MissingPaths(entries) /\ MismatchedPaths(entries)' = MismatchedPaths(entries)
    BY <1>1 DEF MissingPaths, MismatchedPaths
  <2> QED BY <1>9, <2>1, <2>2
<1>12. /\ Cardinality(entries \ todo) = count.passed + count.failed + count.ignored + count.skipped
       /\ count.total = count.passed + count.failed + count.skipped
  BY <1>1 DEF ReportInv
<1>13. /\ Cardinality(entries' \ todo')
            = count'.passed + count'.failed + count'.ignored + count'.skipped
       /\ count'.total = count'.passed + count'.failed + count'.skipped
  BY <1>1, <1>8, <1>9, <1>12
<1>14. todo' \subseteq entries' /\ \A q \in entries' : tree'[q] # None /\ IsDirectory(tree'[q])
  BY <1>1, <1>2
<1> QED BY <1>1, <1>2, <1>4, <1>5, <1>7, <1>9, <1>10, <1>11, <1>13, <1>14 DEF ReportInv

\* A validation begins with nothing judged, or ends at once.
LEMMA CheckStarts ==
  ASSUME CommittedDataAssumption, TreeInv, ReportInv, NEW i \in BOOLEAN, StartCheck(i)
  PROVE  ReportInv'
<1> DEFINE E == Entries
           refused == E = {} \/ \E r \in Rules : rule[r].there /\ ~rule[r].parses
<1>1. /\ pc' = IF refused THEN "done" ELSE "checking"
      /\ exit' = IF refused THEN 1 ELSE None
      /\ entries' = IF refused THEN {} ELSE E
      /\ todo' = entries' /\ ignore' = i /\ alerts' = NoAlerts
      /\ count' = IF refused THEN NoCount
                  ELSE [NoCount EXCEPT !.missing = Cardinality(MissingPaths(E)),
                                       !.mismatched = Cardinality(MismatchedPaths(E))]
      /\ verdict' = [r \in Rules |-> None]
      /\ tree' = tree /\ rule' = rule
  BY DEF StartCheck, disk
<1>2. entries' \subseteq Rules /\ \A r \in entries' : tree[r] # None /\ IsDirectory(tree[r])
  BY <1>1 DEF Entries, Loads, TreeInv
<1>3. Cardinality(entries' \ todo') = 0 /\ entries' \ todo' = {}
  BY <1>1, FS_EmptySet
<1>4. PerRule(verdict')
  BY <1>1 DEF PerRule
<1>5. IsFiniteSet(MissingPaths(E)) /\ IsFiniteSet(MismatchedPaths(E))
  BY FinitePaths DEF Entries
<1>6. Cardinality(MissingPaths(E)) \in Nat /\ Cardinality(MismatchedPaths(E)) \in Nat
  BY <1>5, FS_CardinalityType
<1> HIDE DEF E, refused
<1>7. CASE refused
  <2>1. /\ pc' = "done" /\ exit' = 1 /\ count' = NoCount /\ todo' = {}
    BY <1>1, <1>7
  <2>2. count' \in Counters /\ count'.total = 0 /\ count'.passed = 0 /\ count'.failed = 0
        /\ count'.ignored = 0 /\ count'.skipped = 0
    BY <2>1 DEF NoCount, Counters
  <2> QED BY <1>1, <1>2, <1>3, <1>4, <2>1, <2>2 DEF ReportInv
<1>8. CASE ~refused
  <2>1. pc' = "checking" /\ entries' = E
    BY <1>1, <1>8
  <2>2. /\ count' \in Counters /\ count'.total = 0 /\ count'.passed = 0 /\ count'.failed = 0
        /\ count'.ignored = 0 /\ count'.skipped = 0
        /\ count'.missing = Cardinality(MissingPaths(E))
        /\ count'.mismatched = Cardinality(MismatchedPaths(E))
    BY <1>1, <1>6, <1>8 DEF NoCount, Counters
  <2>3. /\ Cardinality(MissingPaths(entries))' = Cardinality(MissingPaths(E))
        /\ Cardinality(MismatchedPaths(entries))' = Cardinality(MismatchedPaths(E))
    BY <1>1, <2>1 DEF MissingPaths, MismatchedPaths
  <2> QED BY <1>1, <1>2, <1>3, <1>4, <2>1, <2>2, <2>3 DEF ReportInv
<1> QED BY <1>7, <1>8

LEMMA ReportInit ==
  ASSUME Init
  PROVE  ReportInv
BY DEF Init, ReportInv, NoCount, Counters, PerRule

LEMMA ReportStep ==
  ASSUME CommittedDataAssumption, TreeInv, ReportInv, [Next]_vars
  PROVE  ReportInv'
<1>1. ASSUME NEW i \in BOOLEAN, StartCheck(i) PROVE ReportInv'
  BY <1>1, CheckStarts
<1>2. ASSUME NEW r \in Rules, CheckEntry(r) PROVE ReportInv'
  BY <1>2, EntryJudged
<1>3. ASSUME pc' \notin {"checking", "done"}, UNCHANGED report PROVE ReportInv'
  BY <1>3 DEF ReportInv, report
<1>4. ASSUME NEW r \in Rules, NEW kind \in Kinds, NEW withJson \in BOOLEAN,
             NEW hits \in [Rules -> 0 .. 2], Generate(r, kind, withJson, hits)
      PROVE  ReportInv'
  BY <1>3, <1>4 DEF Generate
<1>5. ASSUME NEW r \in Rules, FixJson(r) \/ FixInfo(r) PROVE ReportInv'
  BY <1>3, <1>5 DEF FixJson, FixInfo
<1>6. ASSUME NEW r \in Rules, NEW file \in {"json", "info"}, FixFails(r, file) \/ FixKilled(r, file)
      PROVE  ReportInv'
  BY <1>3, <1>6 DEF FixFails, FixKilled
<1>7. CASE StartFix \/ FinishFix
  BY <1>3, <1>7 DEF StartFix, FinishFix
<1>8. CASE Leave
  <2>1. pc' = "idle" /\ count' = NoCount /\ ignore' = FALSE /\ verdict' = [r \in Rules |-> None]
    BY <1>8 DEF Leave
  <2> QED BY <2>1 DEF ReportInv, NoCount, Counters, PerRule
<1>9. CASE FinishCheck
  <2>1. /\ pc = "checking" /\ todo = {} /\ pc' = "done" /\ exit' = ExitCode
        /\ tree' = tree /\ rule' = rule /\ UNCHANGED <<entries, todo, report>>
    BY <1>9 DEF FinishCheck, disk
  <2>2. /\ ignore' = ignore /\ alerts' = alerts /\ verdict' = verdict /\ count' = count
        /\ entries' = entries /\ todo' = todo
    BY <2>1 DEF report
  <2>3. \A r : VerdictAlone(r)' = VerdictAlone(r) /\ Sound(VerdictAlone(r))' = Sound(VerdictAlone(r))
    BY <2>1, <2>2, VerdictStays DEF Sound
  <2>4. /\ MissingPaths(entries)' = MissingPaths(entries)
        /\ MismatchedPaths(entries)' = MismatchedPaths(entries)
    BY <2>1, <2>2 DEF MissingPaths, MismatchedPaths
  <2>5. exit' = 0 => count.missing = 0 /\ count.mismatched = 0 /\ count.failed = 0
    <3>1. count.missing \in Nat /\ count.mismatched \in Nat /\ count.failed \in Nat
      BY DEF ReportInv, Counters
    <3> QED BY <2>1, <3>1 DEF ExitCode
  <2> QED BY <2>1, <2>2, <2>3, <2>4, <2>5 DEF ReportInv
<1>10. CASE UNCHANGED vars
  <2>1. /\ tree' = tree /\ rule' = rule /\ ignore' = ignore /\ alerts' = alerts
        /\ verdict' = verdict /\ count' = count /\ pc' = pc /\ exit' = exit
        /\ entries' = entries /\ todo' = todo
    BY <1>10 DEF vars, disk, report
  <2>2. \A r : VerdictAlone(r)' = VerdictAlone(r) /\ Sound(VerdictAlone(r))' = Sound(VerdictAlone(r))
    BY <2>1, VerdictStays DEF Sound
  <2>3. /\ MissingPaths(entries)' = MissingPaths(entries)
        /\ MismatchedPaths(entries)' = MismatchedPaths(entries)
    BY <2>1 DEF MissingPaths, MismatchedPaths
  <2> QED BY <2>1, <2>2, <2>3 DEF ReportInv
<1> QED BY <1>1, <1>2, <1>4, <1>5, <1>6, <1>7, <1>8, <1>9, <1>10 DEF Next

\* The tree and the report, together.
LEMMA CheckInv == Spec => [](TreeInv /\ ReportInv)
<1>1. Init => TreeInv /\ ReportInv
  BY CommittedDataAssumption, TreeInit, ReportInit
<1>2. TreeInv /\ ReportInv /\ [Next]_vars => (TreeInv /\ ReportInv)'
  BY CommittedDataAssumption, TreeStep, ReportStep
<1> QED BY <1>1, <1>2, PTL DEF Spec

\* An entry is judged by its own events: what the entries before it left in the engine
\* is gone, because get_alerts takes the alerts out.  And the report adds up: every
\* entry is in one counter (bin/regressiondata-check.rs, main).
THEOREM EachByItself == Spec => []VerdictsAreTheirOwn
<1>1. ReportInv => VerdictsAreTheirOwn
  BY DEF ReportInv, VerdictsAreTheirOwn
<1> QED BY <1>1, CheckInv, PTL

\* Exit code 0 leaves nothing out: no directory that a rule names was passed over, no
\* entry is without its rule, and whatever had to match did.
THEOREM CleanLeavesNothingOut == Spec => []CleanMeansSound
<1>1. TreeInv /\ ReportInv => CleanMeansSound
  <2> SUFFICES ASSUME TreeInv, ReportInv, pc = "done", exit = 0 PROVE CleanMeansSound
    BY DEF CleanMeansSound
  <2>1. /\ entries \subseteq Rules /\ todo = {} /\ count.failed = 0
        /\ \A r \in entries : Sound(VerdictAlone(r))
        /\ Cardinality(MissingPaths(entries)) = 0 /\ Cardinality(MismatchedPaths(entries)) = 0
    BY DEF ReportInv
  <2>2. MissingPaths(entries) = {} /\ MismatchedPaths(entries) = {}
    <3>1. IsFiniteSet(MissingPaths(entries)) /\ IsFiniteSet(MismatchedPaths(entries))
      BY <2>1, FinitePaths, CommittedDataAssumption
    <3> QED BY <2>1, <3>1, FS_EmptySet
  <2>3. ASSUME NEW q \in Rules, rule[q].there, rule[q].names \in Rules
        PROVE  rule[q].names \in entries
    <3>1. rule[q].names # None
      BY <2>3, CommittedDataAssumption DEF CommittedDataAssumption
    <3>2. <<"named", q>> \notin MissingPaths(entries) /\ <<"named", q>> \notin MismatchedPaths(entries)
      BY <2>2
    <3>3. tree[rule[q].names] # None
      BY <2>3, <3>1, <3>2 DEF MismatchedPaths
    <3> QED BY <2>3, <3>2, <3>3 DEF MissingPaths
  <2>4. ASSUME NEW r \in entries PROVE rule[r].there /\ rule[r].names = r
    <3>1. r \notin MissingPaths(entries) /\ r \notin MismatchedPaths(entries)
      BY <2>2
    <3>2. rule[r].there /\ rule[r].names # None
      <4>1. IsRuleFile(rule[r])
        BY <2>1 DEF TreeInv
      <4> QED BY <3>1, <4>1 DEF MissingPaths, IsRuleFile
    <3> QED BY <3>1, <3>2 DEF MismatchedPaths
  <2> QED BY <2>1, <2>3, <2>4 DEF CleanMeansSound, Sound
<1> QED BY <1>1, CheckInv, PTL

-----------------------------------------------------------------------------
(* What the program writes.                                                *)

\* A directory that the program wrote for rule r when events of a kind matched.
Fresh(d, r, kind, hits) ==
  /\ hits[r] > 0
  /\ r \in Windows <=> kind = "evtx"
  /\ d.tests = <<InfoOf(kind)>> /\ d.lines = CanonicalYaml[<<InfoOf(kind)>>]
  /\ d.files[Format(kind)] = DataFile(kind, hits)
  /\ d.files["json"] \in {None, JsonFile(kind, hits)}

IsFresh(d, r) == \E kind \in Kinds, hits \in [Rules -> 0 .. 2] : Fresh(d, r, kind, hits)

HasDirectory(r) ==
  tree[r] # None \/ (pc = "fixing" /\ \E file \in {"json", "info"} : <<r, file>> \in todo)

\* What is fresh was written for a rule that compiles, and a rule of Linux has no evtx file.
FreshInv ==
  /\ fresh \subseteq Rules
  /\ \A r \in fresh : IsFresh(tree[r], r) /\ rule[r].compiles
  /\ \A r \in Rules \ Windows : HasDirectory(r) => tree[r].files["evtx"] = None

\* Nothing is judged before its turn, or after the report is gone.
JudgedInv ==
  \A r \in Rules : verdict[r] # None => pc \in {"checking", "done"} /\ r \in entries \ todo

LEMMA FreshInit ==
  ASSUME Init
  PROVE  FreshInv /\ JudgedInv
<1>1. PICK f \in [Rules -> UNION {Committed[r] : r \in Rules}] :
        tree = f /\ \A r \in Rules : f[r] \in Committed[r]
  BY DEF Init
<1>2. \A r \in Rules \ Windows : tree[r] # None => tree[r].files["evtx"] = None
  BY <1>1, LinuxAssumption DEF LinuxAssumption
<1>3. pc = "idle" /\ fresh = {} /\ verdict = [r \in Rules |-> None]
  BY DEF Init
<1> QED BY <1>2, <1>3 DEF FreshInv, HasDirectory, JudgedInv

\* One directory is replaced; what is fresh then was fresh before, or is written now.
LEMMA OneWritten ==
  ASSUME TreeInv, FreshInv, NEW r \in Rules, NEW d,
         tree' = [tree EXCEPT ![r] = d],
         \A q \in Rules : rule'[q].compiles = rule[q].compiles,
         fresh' \subseteq fresh \cup {r},
         r \in fresh' => IsFresh(d, r) /\ rule[r].compiles,
         r \notin Windows => d.files["evtx"] = None,
         pc' = "fixing" => pc = "fixing" /\ todo' \subseteq todo
  PROVE  FreshInv'
<1>1. \A q \in Rules : tree'[q] = IF q = r THEN d ELSE tree[q]
  BY DEF TreeInv, PerRule
<1>2. fresh' \subseteq Rules
  BY DEF FreshInv
<1>3. ASSUME NEW q \in fresh' PROVE IsFresh(tree'[q], q) /\ rule'[q].compiles
  <2>1. CASE q = r
    BY <1>1, <1>3, <2>1
  <2>2. CASE q # r
    <3>1. q \in fresh /\ q \in Rules /\ tree'[q] = tree[q]
      BY <1>1, <1>2, <1>3, <2>2
    <3> QED BY <3>1 DEF FreshInv
  <2> QED BY <2>1, <2>2
<1>4. ASSUME NEW q \in Rules \ Windows, HasDirectory(q)' PROVE tree'[q].files["evtx"] = None
  <2>1. CASE q = r
    BY <1>1, <2>1
  <2>2. CASE q # r
    <3>1. tree'[q] = tree[q] /\ HasDirectory(q)
      BY <1>1, <1>4, <2>2 DEF HasDirectory
    <3> QED BY <3>1 DEF FreshInv
  <2> QED BY <2>1, <2>2
<1>5. \A q \in fresh' : IsFresh(tree[q], q)' /\ rule'[q].compiles
  BY <1>3 DEF IsFresh, Fresh
<1> QED BY <1>2, <1>4, <1>5 DEF FreshInv

\* What is fresh has its data, and cannot be written again.
LEMMA FreshExists ==
  ASSUME CommittedDataAssumption, FreshInv, NEW r \in fresh, NEW kind \in Kinds,
         r \in Windows <=> kind = "evtx", tree[r] # None
  PROVE  Exists(r, Format(kind))
<1>1. PICK k \in Kinds, hits \in [Rules -> 0 .. 2] : Fresh(tree[r], r, k, hits)
  BY DEF FreshInv, IsFresh
<1>2. Format(k) = Format(kind)
  BY <1>1 DEF Fresh, Format
<1>3. DataFile(k, hits) \in DataFiles /\ DataFile(k, hits).holds # "nothing"
  BY DEF DataFile, DataFiles, Contents, Records
<1>4. tree[r].files[Format(kind)] = DataFile(k, hits)
  BY <1>1, <1>2 DEF Fresh
<1>5. None \notin DataFiles
  BY DEF CommittedDataAssumption
<1> QED BY <1>3, <1>4, <1>5 DEF Exists

\* --fix has nothing to write in a fresh directory.
LEMMA FreshStays ==
  ASSUME CommittedDataAssumption, TreeInv, FreshInv, NEW r \in fresh
  PROVE  /\ tree[r].files["json"] # None => FixedJson(tree[r].files["json"]) = tree[r].files["json"]
         /\ ~NeedsReindent(tree[r].lines, CanonicalYaml[tree[r].tests])
<1>1. PICK kind \in Kinds, hits \in [Rules -> 0 .. 2] : Fresh(tree[r], r, kind, hits)
  BY DEF FreshInv, IsFresh
<1>2. FixedJson(JsonFile(kind, hits)) = JsonFile(kind, hits)
  BY DEF FixedJson, JsonFile
<1> QED BY <1>1, <1>2, WrittenIsCanonical DEF Fresh

LEMMA FreshStep ==
  ASSUME CommittedDataAssumption, TreeInv, FreshInv, [Next]_vars
  PROVE  FreshInv'
<1>1. ASSUME tree' = tree, \A q \in Rules : rule'[q].compiles = rule[q].compiles, fresh' = fresh,
             pc' = "fixing" => pc = "fixing" /\ todo' \subseteq todo
      PROVE  FreshInv'
  <2>1. \A r \in Rules : HasDirectory(r)' => HasDirectory(r)
    BY <1>1 DEF HasDirectory
  <2>2. \A r \in fresh : r \in Rules /\ IsFresh(tree[r], r)' /\ rule'[r].compiles
    BY <1>1 DEF FreshInv, IsFresh, Fresh
  <2> QED BY <1>1, <2>1, <2>2 DEF FreshInv
<1>2. ASSUME NEW r \in Rules, NEW kind \in Kinds, NEW withJson \in BOOLEAN,
             NEW hits \in [Rules -> 0 .. 2], Generate(r, kind, withJson, hits)
      PROVE  FreshInv'
  <2> DEFINE old == IF tree[r] = None THEN NoFiles ELSE tree[r].files
             ext == Format(kind)
             tests == <<InfoOf(kind)>>
             files == [old EXCEPT ![ext] = DataFile(kind, hits),
                                  !["json"] = IF withJson THEN JsonFile(kind, hits) ELSE @]
             d == [lines |-> CanonicalYaml[tests], tests |-> tests, files |-> files]
  <2>1. old \in [DOMAIN NoFiles -> DataFiles \cup {None}] /\ ext \in DOMAIN NoFiles
    BY DEF TreeInv, IsDirectory, NoFiles, Format
  <2>2. ext # "json" /\ DOMAIN NoFiles = {"evtx", "log", "raw", "json"}
    BY DEF Format, NoFiles
  <2>3. /\ tree' = [tree EXCEPT ![r] = d] /\ rule' = [rule EXCEPT ![r].names = r]
        /\ rule[r].compiles /\ ~Exists(r, ext) /\ (r \in Windows <=> kind = "evtx") /\ hits[r] > 0
        /\ pc' = "idle"
        /\ fresh' = IF withJson \/ old["json"] = None THEN fresh \cup {r} ELSE fresh
    BY <1>2 DEF Generate
  <2>4. r \notin fresh \/ old["json"] = None
    <3>1. CASE tree[r] = None
      BY <3>1 DEF NoFiles
    <3>2. CASE tree[r] # None
      BY <2>3, <3>2, FreshExists
    <3> QED BY <3>1, <3>2
  <2> HIDE DEF old, ext
  <2>5. /\ files[ext] = DataFile(kind, hits)
        /\ files["json"] = IF withJson THEN JsonFile(kind, hits) ELSE old["json"]
        /\ ext # "evtx" => files["evtx"] = old["evtx"]
    BY <2>1, <2>2
  <2> HIDE DEF files
  <2>6. r \in fresh' => files["json"] \in {None, JsonFile(kind, hits)}
    BY <2>3, <2>4, <2>5
  <2>7. r \in fresh' => IsFresh(d, r)
    <3> SUFFICES ASSUME r \in fresh' PROVE Fresh(d, r, kind, hits)
      BY DEF IsFresh
    <3>1. d.tests = tests /\ d.lines = CanonicalYaml[tests] /\ d.files = files
      OBVIOUS
    <3> HIDE DEF d
    <3> QED BY <2>3, <2>5, <2>6, <3>1 DEF Fresh, ext
  <2>8. r \notin Windows => d.files["evtx"] = None
    <3>1. old["evtx"] = None \/ r \in Windows
      BY DEF FreshInv, HasDirectory, old, NoFiles
    <3>2. r \notin Windows => ext # "evtx"
      BY <2>3 DEF Format, ext
    <3> QED BY <2>5, <3>1, <3>2
  <2>9. \A q \in Rules : rule'[q].compiles = rule[q].compiles
    <3>1. \A q \in Rules : rule'[q] = IF q = r THEN [rule[q] EXCEPT !.names = r] ELSE rule[q]
      BY <2>3 DEF TreeInv, PerRule
    <3>2. [rule[r] EXCEPT !.names = r].compiles = rule[r].compiles
      BY DEF TreeInv, IsRuleFile
    <3> QED BY <3>1, <3>2
  <2>10. fresh' \subseteq fresh \cup {r}
    BY <2>3
  <2> HIDE DEF d
  <2> QED BY <2>3, <2>7, <2>8, <2>9, <2>10, OneWritten
<1>3. ASSUME NEW r \in Rules, FixJson(r) PROVE FreshInv'
  <2> DEFINE t == tree[r]
             f == FixedJson(t.files["json"])
             d == [lines |-> t.lines, tests |-> t.tests, files |-> [t.files EXCEPT !["json"] = f]]
  <2>1. /\ pc = "fixing" /\ <<r, "json">> \in todo /\ rule' = rule /\ fresh' = fresh
        /\ todo' \subseteq todo
        /\ tree' = [tree EXCEPT ![r].files["json"] = f]
    BY <1>3 DEF FixJson
  <2>2. IsDirectory(t) /\ t.files["json"] # None
    <3>1. ToFix(todo, tree)
      BY <2>1 DEF TreeInv
    <3> QED BY <2>1, <3>1 DEF ToFix
  <2>3. tree' = [tree EXCEPT ![r] = d]
    BY <2>1, <2>2, PartWritten
  <2>4. t.files = [e \in {"evtx", "log", "raw", "json"} |-> t.files[e]]
    BY <2>2 DEF IsDirectory, NoFiles
  <2>5. t = [lines |-> t.lines, tests |-> t.tests, files |-> t.files]
    BY <2>2 DEF IsDirectory
  <2>6. r \in fresh => d = t /\ IsFresh(t, r) /\ rule[r].compiles
    <3> SUFFICES ASSUME r \in fresh PROVE d = t /\ IsFresh(t, r) /\ rule[r].compiles
      OBVIOUS
    <3>1. f = t.files["json"]
      BY <2>2, FreshStays
    <3>2. [t.files EXCEPT !["json"] = f] = t.files
      <4> HIDE DEF f, t
      <4> QED BY <2>4, <3>1
    <3> QED BY <2>5, <3>2 DEF FreshInv
  <2>7. r \notin Windows => d.files["evtx"] = None
    <3>1. r \notin Windows => t.files["evtx"] = None
      BY <2>1 DEF FreshInv, HasDirectory
    <3>2. d.files["evtx"] = t.files["evtx"]
      <4> HIDE DEF f, t
      <4> QED BY <2>4
    <3> QED BY <3>1, <3>2
  <2> HIDE DEF d
  <2> QED BY <2>1, <2>3, <2>6, <2>7, OneWritten
<1>4. ASSUME NEW r \in Rules, FixInfo(r) PROVE FreshInv'
  <2> DEFINE t == tree[r]
             l == Reindent(t.lines, CanonicalYaml[t.tests])
             d == [lines |-> l, tests |-> t.tests, files |-> t.files]
  <2>1. /\ pc = "fixing" /\ <<r, "info">> \in todo /\ rule' = rule /\ fresh' = fresh
        /\ todo' \subseteq todo
        /\ tree' = IF NeedsReindent(t.lines, CanonicalYaml[t.tests])
                   THEN [tree EXCEPT ![r].lines = l] ELSE tree
    BY <1>4 DEF FixInfo
  <2>2. CASE ~NeedsReindent(t.lines, CanonicalYaml[t.tests])
    BY <1>1, <2>1, <2>2
  <2>3. CASE NeedsReindent(t.lines, CanonicalYaml[t.tests])
    <3>1. IsDirectory(t)
      <4>1. ToFix(todo, tree)
        BY <2>1 DEF TreeInv
      <4> QED BY <2>1, <4>1 DEF ToFix
    <3>2. tree' = [tree EXCEPT ![r] = d]
      BY <2>1, <2>3, <3>1, PartWritten
    <3>3. r \notin fresh'
      BY <2>1, <2>3, FreshStays
    <3>4. r \notin Windows => d.files["evtx"] = None
      BY <2>1 DEF FreshInv, HasDirectory
    <3> HIDE DEF d
    <3> QED BY <2>1, <3>2, <3>3, <3>4, OneWritten
  <2> QED BY <2>2, <2>3
<1>5. ASSUME NEW r \in Rules, NEW file \in {"json", "info"}, FixKilled(r, file) PROVE FreshInv'
  <2> DEFINE t == tree[r]
  <2>1. /\ pc = "fixing" /\ <<r, file>> \in todo /\ rule' = rule /\ fresh' = fresh \ {r}
        /\ pc' = "idle"
    BY <1>5 DEF FixKilled, Written, Tear
  <2>2. IsDirectory(t) /\ (r \notin Windows => t.files["evtx"] = None)
    <3>1. ToFix(todo, tree)
      BY <2>1 DEF TreeInv
    <3> QED BY <2>1, <3>1 DEF ToFix, FreshInv, HasDirectory
  <2>3. CASE file = "info"
    <3> DEFINE d == [lines |-> <<>>, tests |-> t.tests, files |-> t.files]
    <3>1. tree' = [tree EXCEPT ![r] = d]
      BY <1>5, <2>2, <2>3, PartWritten DEF FixKilled, Tear
    <3>2. r \notin Windows => d.files["evtx"] = None
      BY <2>2
    <3> HIDE DEF d
    <3> QED BY <2>1, <3>1, <3>2, OneWritten
  <2>4. CASE file = "json"
    <3> DEFINE d == [lines |-> t.lines, tests |-> t.tests,
                     files |-> [t.files EXCEPT !["json"] = Nothing]]
    <3>1. tree' = [tree EXCEPT ![r] = d]
      BY <1>5, <2>2, <2>4, PartWritten DEF FixKilled, Tear
    <3>2. d.files["evtx"] = t.files["evtx"]
      <4>1. t.files = [e \in {"evtx", "log", "raw", "json"} |-> t.files[e]]
        BY <2>2 DEF IsDirectory, NoFiles
      <4> HIDE DEF t
      <4> QED BY <4>1
    <3>3. r \notin Windows => d.files["evtx"] = None
      BY <2>2, <3>2
    <3> HIDE DEF d
    <3> QED BY <2>1, <3>1, <3>3, OneWritten
  <2> QED BY <2>3, <2>4
<1>6. CASE StartFix
  <2>1. disk' = disk /\ \A r \in Rules, file \in {"json", "info"} : <<r, file>> \in todo' => tree[r] # None
    BY <1>6 DEF StartFix, Entries, Loads
  <2>2. \A r \in Rules : HasDirectory(r)' => tree[r] # None
    BY <2>1 DEF HasDirectory, disk
  <2> QED BY <2>1, <2>2 DEF FreshInv, HasDirectory, IsFresh, Fresh, disk
<1>7. ASSUME NEW r \in Rules, NEW file \in {"json", "info"}, FixFails(r, file) PROVE FreshInv'
  BY <1>7, <1>1 DEF FixFails, disk
<1>8. ASSUME NEW i \in BOOLEAN, StartCheck(i) PROVE FreshInv'
  BY <1>1, <1>8 DEF StartCheck, disk
<1>9. ASSUME NEW r \in Rules, CheckEntry(r) PROVE FreshInv'
  BY <1>1, <1>9 DEF CheckEntry, disk
<1>10. CASE FinishCheck \/ FinishFix \/ Leave \/ UNCHANGED vars
  BY <1>1, <1>10 DEF FinishCheck, FinishFix, Leave, vars, disk
<1> QED BY <1>2, <1>3, <1>4, <1>5, <1>6, <1>7, <1>8, <1>9, <1>10 DEF Next

LEMMA JudgedStep ==
  ASSUME JudgedInv, ReportInv, [Next]_vars
  PROVE  JudgedInv'
<1>1. ASSUME verdict' = [r \in Rules |-> None] PROVE JudgedInv'
  BY <1>1 DEF JudgedInv
<1>2. ASSUME pc \notin {"checking", "done"}, verdict' = verdict PROVE JudgedInv'
  BY <1>2 DEF JudgedInv
<1>3. ASSUME UNCHANGED <<verdict, entries, todo>>, pc' = pc \/ pc' = "done" PROVE JudgedInv'
  BY <1>3 DEF JudgedInv
<1>4. ASSUME NEW r \in Rules, CheckEntry(r) PROVE JudgedInv'
  <2>1. /\ pc = "checking" /\ r \in todo /\ todo' = todo \ {r} /\ pc' = pc /\ entries' = entries
    BY <1>4 DEF CheckEntry
  <2>2. todo \subseteq entries /\ PerRule(verdict)
    BY <2>1 DEF ReportInv
  <2>3. \A q \in Rules : q # r => verdict'[q] = verdict[q]
    <3>1. \E v : verdict' = [verdict EXCEPT ![r] = v]
      BY <1>4 DEF CheckEntry
    <3> QED BY <2>2, <3>1 DEF PerRule
  <2> QED BY <2>1, <2>2, <2>3 DEF JudgedInv
<1>5. ASSUME NEW i \in BOOLEAN, StartCheck(i) PROVE JudgedInv'
  BY <1>1, <1>5 DEF StartCheck
<1>6. ASSUME NEW r \in Rules, NEW kind \in Kinds, NEW withJson \in BOOLEAN,
             NEW hits \in [Rules -> 0 .. 2], Generate(r, kind, withJson, hits)
      PROVE  JudgedInv'
  BY <1>2, <1>6 DEF Generate, report
<1>7. ASSUME NEW r \in Rules, FixJson(r) \/ FixInfo(r) PROVE JudgedInv'
  BY <1>2, <1>7 DEF FixJson, FixInfo, report
<1>8. ASSUME NEW r \in Rules, NEW file \in {"json", "info"}, FixFails(r, file) \/ FixKilled(r, file)
      PROVE  JudgedInv'
  BY <1>2, <1>8 DEF FixFails, FixKilled, report
<1>9. CASE StartFix \/ FinishFix
  BY <1>2, <1>9 DEF StartFix, FinishFix, report
<1>10. CASE Leave
  BY <1>1, <1>10 DEF Leave
<1>11. CASE FinishCheck \/ UNCHANGED vars
  BY <1>3, <1>11 DEF FinishCheck, vars, report
<1> QED BY <1>4, <1>5, <1>6, <1>7, <1>8, <1>9, <1>10, <1>11 DEF Next

\* The data of a fresh directory is what was written last, and is read as what it is.
LEMMA FreshData ==
  ASSUME CommittedDataAssumption, FreshInv, TreeInv, NEW r \in Rules, NEW kind \in Kinds,
         NEW hits \in [Rules -> 0 .. 2], Fresh(tree[r], r, kind, hits), IsDirectory(tree[r]),
         r \notin Windows => tree[r].files["evtx"] = None
  PROVE  /\ DataExt(tree[r]) = Format(kind) /\ DataOf(tree[r]) = DataFile(kind, hits)
         /\ LogType(tree[r]) = Format(kind)
<1> DEFINE d == tree[r]
           found == {i \in DOMAIN Extensions : d.files[Extensions[i]] # None}
<1>1. DataFile(kind, hits) # None
  <2>1. DataFile(kind, hits) \in DataFiles
    BY DEF DataFile, DataFiles, Contents, Records
  <2> QED BY <2>1 DEF CommittedDataAssumption
<1>2. /\ DOMAIN Extensions = 1 .. 4 /\ Extensions[1] = "evtx" /\ Extensions[2] = "log"
      /\ Extensions[3] = "raw" /\ Extensions[4] = "json"
  BY DEF Extensions
<1>3. DataExt(d) = Format(kind)
  <2>1. CASE kind = "evtx"
    <3>1. Format(kind) = "evtx" /\ d.files["evtx"] # None
      BY <1>1, <2>1 DEF Fresh, Format
    <3>2. 1 \in found /\ found \subseteq 1 .. 4
      BY <1>2, <3>1
    <3> HIDE DEF found
    <3>3. Min(found) \in found /\ Min(found) <= 1
      BY <3>2, LeastOne
    <3>5. Min(found) = 1
      <4> DEFINE m == Min(found)
      <4>1. m \in found /\ m <= 1
        BY <3>3
      <4> HIDE DEF m
      <4>2. m = 1
        BY <3>2, <4>1
      <4> QED BY <4>2 DEF m
    <3>4. DataExt(d) = Extensions[Min(found)]
      BY <3>2 DEF DataExt, found
    <3> QED BY <1>2, <3>1, <3>4, <3>5
  <2>2. CASE kind # "evtx"
    <3>1. Format(kind) = "log" /\ d.files["log"] # None /\ d.files["evtx"] = None
      BY <1>1, <2>2 DEF Fresh, Format
    <3>2. 1 \notin found /\ 2 \in found /\ found \subseteq 1 .. 4
      BY <1>2, <3>1
    <3> HIDE DEF found
    <3>3. Min(found) \in found /\ Min(found) <= 2
      BY <3>2, LeastOne
    <3>5. Min(found) = 2
      <4> DEFINE m == Min(found)
      <4>1. m \in found /\ m <= 2
        BY <3>3
      <4> HIDE DEF m
      <4>2. m = 2
        BY <3>2, <4>1
      <4> QED BY <4>2 DEF m
    <3>4. DataExt(d) = Extensions[Min(found)]
      BY <3>2 DEF DataExt, found
    <3> QED BY <1>2, <3>1, <3>4, <3>5
  <2> QED BY <2>1, <2>2
<1>4. Format(kind) # None
  BY DEF CommittedDataAssumption, Format, NoFiles
<1>5. DataOf(d) = DataFile(kind, hits)
  BY <1>3, <1>4 DEF DataOf, Fresh
<1>6. LogType(d) = Format(kind)
  <2>1. d.tests = <<InfoOf(kind)>> /\ d.tests # <<>> /\ d.tests[1].type = Format(kind)
    BY DEF Fresh, InfoOf
  <2>2. Format(kind) \in DOMAIN d.files
    BY DEF IsDirectory, NoFiles, Format
  <2> QED BY <2>1, <2>2 DEF LogType
<1> QED BY <1>3, <1>5, <1>6

\* Nothing is wrong with a fresh directory, unless its events cannot be read back.
LEMMA FreshChecks ==
  ASSUME CommittedDataAssumption, FreshInv, TreeInv, NEW r \in Rules, NEW kind \in Kinds,
         NEW hits \in [Rules -> 0 .. 2], Fresh(tree[r], r, kind, hits), IsDirectory(tree[r]),
         r \notin Windows => tree[r].files["evtx"] = None
  PROVE  FirstFailed(tree[r]) = IF kind = "text" THEN "empty" ELSE None
<1> DEFINE d == tree[r]
           checks == Checks(d)
           failing == {i \in DOMAIN checks : checks[i][2]}
<1>1. /\ DataExt(d) = Format(kind) /\ DataOf(d) = DataFile(kind, hits) /\ LogType(d) = Format(kind)
  BY FreshData
<1>2. DataFile(kind, hits) \in DataFiles
  BY DEF DataFile, DataFiles, Contents, Records
<1>3. None \notin DataFiles /\ None \notin DOMAIN NoFiles
  BY DEF CommittedDataAssumption
<1>4. ~JsonSpoilt(d)
  BY DEF Fresh, JsonSpoilt, JsonFile, IsJson
<1>5. ~NeedsReindent(d.lines, CanonicalYaml[d.tests])
  BY WrittenIsCanonical DEF Fresh
<1>6. d.tests = <<InfoOf(kind)>> /\ d.tests # <<>>
  BY DEF Fresh
<1>7. ~\E i \in DOMAIN d.tests : ~TestResolves(d, d.tests[i])
  <2>1. DOMAIN d.tests = {1} /\ d.tests[1] = InfoOf(kind)
    BY <1>6
  <2>2. d.files[Format(kind)] = DataFile(kind, hits) /\ DataFile(kind, hits).holds # "nothing"
    BY DEF Fresh, DataFile
  <2>3. Format(kind) \in DOMAIN d.files
    BY DEF IsDirectory, NoFiles, Format
  <2>4. TestResolves(d, InfoOf(kind))
    BY <1>2, <1>3, <2>2, <2>3 DEF TestResolves, InfoOf
  <2> QED BY <2>1, <2>4
<1>8. DataExt(d) # None /\ LogType(d) # "raw"
  BY <1>1, <1>3 DEF Format, NoFiles
<1>9. ~(LogType(d) = "evtx" /\ DataOf(d).holds # "evtx")
  BY <1>1 DEF Format, DataFile
<1>10. Events(DataOf(d), LogType(d)) = 0 <=> kind = "text"
  <2>1. kind \in {"evtx", "audit line", "audit group", "text"}
    BY DEF Kinds
  <2>2. CASE kind = "evtx"
    BY <1>1, <2>2 DEF Events, DataFile, Format, Records
  <2>3. CASE kind = "text"
    BY <1>1, <2>3 DEF Events, DataFile, Format
  <2>4. CASE kind \in {"audit line", "audit group"}
    <3>1. LogType(d) = "log" /\ DataOf(d).holds = "audit" /\ DataOf(d).events \in {1, 2}
      <4>1. Format(kind) = "log" /\ Records(kind) \in {1, 2}
        BY <2>4 DEF Format, Records
      <4>2. DataFile(kind, hits) = [holds |-> "audit", events |-> Records(kind), hits |-> hits, ends |-> 1]
        BY <2>4 DEF DataFile
      <4> QED BY <1>1, <4>1, <4>2
    <3>2. Events(DataOf(d), LogType(d)) = DataOf(d).events
      BY <3>1 DEF Events
    <3>3. kind # "text"
      BY <2>4
    <3> DEFINE n == DataOf(d).events
    <3>4. n \in {1, 2} /\ Events(DataOf(d), LogType(d)) = n
      BY <3>1, <3>2
    <3> HIDE DEF n
    <3>5. Events(DataOf(d), LogType(d)) # 0
      BY <3>4
    <3> QED BY <3>3, <3>5
  <2> QED BY <2>1, <2>2, <2>3, <2>4
<1>11. /\ DOMAIN checks = 1 .. 8
       /\ checks[1][2] = JsonSpoilt(d)
       /\ checks[2][2] = NeedsReindent(d.lines, CanonicalYaml[d.tests])
       /\ checks[3][2] = (d.tests = <<>>)
       /\ checks[4][2] = \E i \in DOMAIN d.tests : ~TestResolves(d, d.tests[i])
       /\ checks[5][2] = (DataExt(d) = None)
       /\ checks[6][2] = (LogType(d) = "evtx" /\ DataOf(d).holds # "evtx")
       /\ checks[7][2] = (LogType(d) = "raw")
       /\ checks[8] = <<"empty", Events(DataOf(d), LogType(d)) = 0>>
  BY DEF Checks
<1>12. failing = IF kind = "text" THEN {8} ELSE {}
  <2> HIDE DEF checks, d
  <2>1. checks[8][2] = (kind = "text")
    BY <1>10, <1>11
  <2>2. ~checks[1][2] /\ ~checks[2][2] /\ ~checks[3][2] /\ ~checks[4][2]
        /\ ~checks[5][2] /\ ~checks[6][2] /\ ~checks[7][2]
    BY <1>4, <1>5, <1>6, <1>7, <1>8, <1>9, <1>11
  <2>3. failing \subseteq {8}
    <3> SUFFICES ASSUME NEW i \in 1 .. 8, checks[i][2] PROVE i = 8
      BY <1>11
    <3> QED BY <2>2
  <2>4. 8 \in failing <=> kind = "text"
    <3>1. 8 \in DOMAIN checks
      BY <1>11
    <3>2. 8 \in failing <=> checks[8][2]
      BY <3>1
    <3> QED BY <2>1, <3>2, Zenon
  <2> HIDE DEF failing
  <2> QED BY <2>3, <2>4
<1>13. FirstFailed(d) = IF failing = {} THEN None ELSE checks[Min(failing)][1]
  BY DEF FirstFailed
<1>14. Min({8}) = 8
  BY DEF Min
<1>15. checks[8][1] = "empty"
  BY <1>11
<1> HIDE DEF failing, checks, d
<1> QED BY <1>12, <1>13, <1>14, <1>15 DEF d

LEMMA PassInv == Spec => [](TreeInv /\ ReportInv /\ FreshInv /\ JudgedInv)
<1> DEFINE Inv == TreeInv /\ ReportInv /\ FreshInv /\ JudgedInv
<1>1. Init => Inv
  BY CommittedDataAssumption, TreeInit, ReportInit, FreshInit
<1>2. Inv /\ [Next]_vars => Inv'
  BY CommittedDataAssumption, TreeStep, ReportStep, FreshStep, JudgedStep
<1> QED BY <1>1, <1>2, PTL DEF Spec

\* What the program writes passes the check that is run over it, whatever else the clone
\* holds: the exceptions are text that is not of auditd, which is not replayed, and an
\* audit event of which several records match (regression/mod.rs, add, and
\* bin/regressiondata-check.rs, main).
THEOREM WrittenDataPasses == Spec => []GeneratedPasses
<1>1. TreeInv /\ ReportInv /\ FreshInv /\ JudgedInv => GeneratedPasses
  <2> SUFFICES ASSUME TreeInv, ReportInv, FreshInv, JudgedInv,
                      NEW r \in fresh \cap entries, verdict[r] # None
               PROVE  \/ verdict[r] = "pass"
                      \/ verdict[r] = "empty" /\ DataOf(tree[r]).holds = "text"
                      \/ verdict[r] = "count" /\ IsJson(tree[r].files["json"])
                                              /\ DataOf(tree[r]).hits[r] > 1
    BY DEF GeneratedPasses
  <2> DEFINE d == tree[r]
  <2>1. r \in Rules /\ IsFresh(d, r) /\ rule[r].compiles
    BY DEF FreshInv
  <2>2. pc \in {"checking", "done"} /\ r \in entries \ todo
    BY <2>1 DEF JudgedInv
  <2>3. verdict[r] = VerdictAlone(r) /\ IsDirectory(d) /\ d # None
    BY <2>2 DEF ReportInv
  <2>4. r \notin Windows => d.files["evtx"] = None
    BY <2>1, <2>3 DEF FreshInv, HasDirectory
  <2>5. PICK kind \in Kinds, hits \in [Rules -> 0 .. 2] : Fresh(d, r, kind, hits)
    BY <2>1 DEF IsFresh
  <2>6. /\ FirstFailed(d) = IF kind = "text" THEN "empty" ELSE None
        /\ DataOf(d) = DataFile(kind, hits)
    BY <2>1, <2>3, <2>4, <2>5, CommittedDataAssumption, FreshChecks, FreshData
  <2>7. CASE kind = "text"
    <3>1. None # "empty"
      BY CommittedDataAssumption DEF CommittedDataAssumption, Findings
    <3> QED BY <2>3, <2>6, <2>7, <3>1 DEF VerdictAlone, DataFile
  <2>8. CASE kind # "text"
    <3>1. verdict[r] = Judge(d, r, Replay(d))
      BY <2>3, <2>6, <2>8 DEF VerdictAlone
    <3>2. Replay(d)[r] = hits[r] /\ DataOf(d).hits[r] = hits[r] /\ hits[r] \in 1 .. 2
      BY <2>1, <2>5, <2>6 DEF Replay, DataFile, Fresh
    <3>3. d.tests[1].count = 1
      BY <2>5 DEF Fresh, InfoOf
    <3>4. \/ verdict[r] = "pass"
          \/ verdict[r] = "count" /\ IsJson(d.files["json"]) /\ Replay(d)[r] # 1
      <4> DEFINE found == Replay(d)
      <4>1. Judge(d, r, found) = IF found[r] = 0 THEN "not matched"
                                 ELSE IF IsJson(d.files["json"]) /\ d.tests[1].count > 0
                                         /\ found[r] # d.tests[1].count
                                      THEN "count" ELSE "pass"
        BY DEF Judge
      <4>2. found[r] # 0
        BY <3>2
      <4> HIDE DEF found, d
      <4> QED BY <3>1, <3>3, <4>1, <4>2 DEF found
    <3> QED BY <3>2, <3>4
  <2> QED BY <2>7, <2>8
<1> QED BY <1>1, PassInv, PTL

-----------------------------------------------------------------------------
(* What --fix leaves.                                                      *)

\* What is no longer to be fixed, and could be, is as it has to be.
SettledInv ==
  /\ pc \in {"fixing", "fixed"} =>
       \A r \in entries :
         /\ r \in Rules /\ IsDirectory(tree[r])
         /\ <<r, "json">> \notin todo \cup spoilt /\ tree[r].files["json"] # None =>
              FixedJson(tree[r].files["json"]) = tree[r].files["json"]
         /\ <<r, "info">> \notin todo \cup spoilt
            /\ AllKnown(tree[r].lines, CanonicalYaml[tree[r].tests]) =>
              ~NeedsReindent(tree[r].lines, CanonicalYaml[tree[r].tests])
  /\ pc = "fixed" => todo = {}

\* A file is fixed once.
LEMMA FixedJsonStays ==
  ASSUME NEW f \in DataFiles
  PROVE  FixedJson(FixedJson(f)) = FixedJson(f)
BY DEF FixedJson, DataFiles

\* Lines that the canonical document knows are where it has them once they are indented.
LEMMA ReindentedStays ==
  ASSUME NEW lines, NEW canonical,
         \A i \in DOMAIN lines : IsLine(lines[i]),
         AllKnown(Reindent(lines, canonical), canonical)
  PROVE  ~NeedsReindent(Reindent(lines, canonical), canonical)
<1> DEFINE fixed == Reindent(lines, canonical)
<1>1. DOMAIN fixed = DOMAIN lines
  BY DEF Reindent
<1>2. ASSUME NEW i \in DOMAIN fixed PROVE ~Misplaced(fixed[i], canonical)
  <2> DEFINE l == lines[i]
             c == IF Known(l, canonical) = {} THEN 0 ELSE CanonicalIndent(l, canonical)
  <2>1. fixed[i] = [key |-> l.key, item |-> l.item, bare |-> l.bare, col |-> c]
    BY <1>1 DEF Reindent, IsLine
  <2>2. Known(fixed[i], canonical) = Known(l, canonical)
    BY <2>1 DEF Known
  <2>3. Known(fixed[i], canonical) # {}
    BY <1>2 DEF AllKnown
  <2>4. CanonicalIndent(fixed[i], canonical) = CanonicalIndent(l, canonical)
    BY <2>2 DEF CanonicalIndent
  <2>5. fixed[i].col = CanonicalIndent(fixed[i], canonical)
    BY <2>1, <2>2, <2>3, <2>4
  <2> QED BY <2>3, <2>5 DEF Misplaced
<1> QED BY <1>2 DEF NeedsReindent

\* One directory is replaced while it is fixed: what is not to be fixed any more is settled.
LEMMA OneSettled ==
  ASSUME TreeInv, SettledInv, NEW r \in Rules, NEW d, IsDirectory(d),
         tree' = [tree EXCEPT ![r] = d],
         pc = "fixing", pc' = "fixing", entries' = entries, todo' \subseteq todo, spoilt' = spoilt,
         \A q \in Rules \ {r}, file \in {"json", "info"} : <<q, file>> \in todo => <<q, file>> \in todo',
         r \in entries /\ <<r, "json">> \notin todo' \cup spoilt /\ d.files["json"] # None =>
           FixedJson(d.files["json"]) = d.files["json"],
         r \in entries /\ <<r, "info">> \notin todo' \cup spoilt
         /\ AllKnown(d.lines, CanonicalYaml[d.tests]) =>
           ~NeedsReindent(d.lines, CanonicalYaml[d.tests])
  PROVE  SettledInv'
<1>1. \A q \in Rules : tree'[q] = IF q = r THEN d ELSE tree[q]
  BY DEF TreeInv, PerRule
<1>2. ASSUME NEW q \in entries'
      PROVE  /\ q \in Rules /\ IsDirectory(tree'[q])
             /\ <<q, "json">> \notin todo' \cup spoilt' /\ tree'[q].files["json"] # None =>
                  FixedJson(tree'[q].files["json"]) = tree'[q].files["json"]
             /\ <<q, "info">> \notin todo' \cup spoilt'
                /\ AllKnown(tree'[q].lines, CanonicalYaml[tree'[q].tests]) =>
                  ~NeedsReindent(tree'[q].lines, CanonicalYaml[tree'[q].tests])
  <2>1. q \in Rules /\ IsDirectory(tree[q])
    BY <1>2 DEF SettledInv
  <2>2. CASE q = r
    BY <1>1, <1>2, <2>1, <2>2
  <2>3. CASE q # r
    <3>1. /\ tree'[q] = tree[q] /\ <<q, "json">> \in todo => <<q, "json">> \in todo'
          /\ <<q, "info">> \in todo => <<q, "info">> \in todo'
      BY <1>1, <2>1, <2>3
    <3> QED BY <1>2, <2>1, <3>1 DEF SettledInv
  <2> QED BY <2>2, <2>3
<1> QED BY <1>2 DEF SettledInv

LEMMA SettledStep ==
  ASSUME CommittedDataAssumption, TreeInv, SettledInv, [Next]_vars
  PROVE  SettledInv'
<1>1. ASSUME pc' \notin {"fixing", "fixed"} PROVE SettledInv'
  BY <1>1 DEF SettledInv
<1>2. ASSUME tree' = tree, entries' = entries, todo' = todo, spoilt' = spoilt,
             pc' \in {"fixing", "fixed"} => pc \in {"fixing", "fixed"},
             pc' = "fixed" => todo = {}
      PROVE  SettledInv'
  BY <1>2 DEF SettledInv
<1>3. ASSUME NEW r \in Rules, FixJson(r) PROVE SettledInv'
  <2> DEFINE t == tree[r]
             f == FixedJson(t.files["json"])
             d == [lines |-> t.lines, tests |-> t.tests, files |-> [t.files EXCEPT !["json"] = f]]
  <2>1. /\ pc = "fixing" /\ pc' = pc /\ <<r, "json">> \in todo /\ todo' = todo \ {<<r, "json">>}
        /\ tree' = [tree EXCEPT ![r].files["json"] = f] /\ entries' = entries /\ spoilt' = spoilt
    BY <1>3 DEF FixJson
  <2>2. IsDirectory(t) /\ t.files["json"] # None
    <3>1. ToFix(todo, tree)
      BY <2>1 DEF TreeInv
    <3> QED BY <2>1, <3>1 DEF ToFix
  <2>3. t.files \in [DOMAIN NoFiles -> DataFiles \cup {None}] /\ "json" \in DOMAIN NoFiles
    BY <2>2 DEF IsDirectory, NoFiles
  <2>4. t.files["json"] \in DataFiles
    BY <2>2, <2>3
  <2>5. f \in DataFiles /\ FixedJson(f) = f
    BY <2>4, FixedJsonStays DEF FixedJson, DataFiles
  <2>6. tree' = [tree EXCEPT ![r] = d]
    BY <2>1, <2>2, PartWritten
  <2>7. IsDirectory(d)
    <3> HIDE DEF f, t
    <3> QED BY <2>2, <2>3, <2>5 DEF IsDirectory
  <2>8. FixedJson(d.files["json"]) = d.files["json"]
    <3>1. d.files["json"] = f
      <4> HIDE DEF f, t
      <4> QED BY <2>3
    <3> QED BY <2>5, <3>1
  <2>9. r \in entries /\ <<r, "info">> \notin todo' \cup spoilt
        /\ AllKnown(d.lines, CanonicalYaml[d.tests]) =>
          ~NeedsReindent(d.lines, CanonicalYaml[d.tests])
    <3>1. <<r, "info">> \in todo => <<r, "info">> \in todo'
      BY <2>1
    <3> QED BY <2>1, <3>1 DEF SettledInv
  <2>10. \A q \in Rules \ {r}, file \in {"json", "info"} : <<q, file>> \in todo => <<q, file>> \in todo'
    BY <2>1
  <2> HIDE DEF d
  <2> QED BY <2>1, <2>6, <2>7, <2>8, <2>9, <2>10, OneSettled
<1>4. ASSUME NEW r \in Rules, FixInfo(r) PROVE SettledInv'
  <2> DEFINE t == tree[r]
             c == CanonicalYaml[t.tests]
             l == IF NeedsReindent(t.lines, c) THEN Reindent(t.lines, c) ELSE t.lines
             d == [lines |-> l, tests |-> t.tests, files |-> t.files]
  <2>1. /\ pc = "fixing" /\ pc' = pc /\ <<r, "info">> \in todo /\ todo' = todo \ {<<r, "info">>}
        /\ tree' = IF NeedsReindent(t.lines, c)
                   THEN [tree EXCEPT ![r].lines = Reindent(t.lines, c)] ELSE tree
        /\ entries' = entries /\ spoilt' = spoilt
    BY <1>4 DEF FixInfo
  <2>2. IsDirectory(t)
    <3>1. ToFix(todo, tree)
      BY <2>1 DEF TreeInv
    <3> QED BY <2>1, <3>1 DEF ToFix
  <2>3. tree' = [tree EXCEPT ![r] = d]
    <3>1. CASE NeedsReindent(t.lines, c)
      BY <2>1, <2>2, <3>1, PartWritten
    <3>2. CASE ~NeedsReindent(t.lines, c)
      <4>1. d = t
        BY <2>2, <3>2 DEF IsDirectory
      <4> HIDE DEF d
      <4> QED BY <2>1, <3>2, <4>1 DEF TreeInv, PerRule
    <3> QED BY <3>1, <3>2
  <2>4. IsDirectory(d)
    <3>1. \A i \in DOMAIN l : IsLine(l[i])
      BY <2>2, LinesStay DEF IsDirectory
    <3> HIDE DEF l, t
    <3> QED BY <2>2, <3>1 DEF IsDirectory
  <2>5. AllKnown(l, c) => ~NeedsReindent(l, c)
    BY <2>2, ReindentedStays DEF IsDirectory
  <2>6. d.lines = l /\ d.tests = t.tests /\ d.files = t.files
    OBVIOUS
  <2>7. r \in entries /\ <<r, "json">> \notin todo' \cup spoilt /\ d.files["json"] # None =>
          FixedJson(d.files["json"]) = d.files["json"]
    <3>1. <<r, "json">> \in todo => <<r, "json">> \in todo'
      BY <2>1
    <3> QED BY <2>1, <2>6, <3>1 DEF SettledInv
  <2>8. AllKnown(d.lines, CanonicalYaml[d.tests]) => ~NeedsReindent(d.lines, CanonicalYaml[d.tests])
    BY <2>5, <2>6
  <2>9. \A q \in Rules \ {r}, file \in {"json", "info"} : <<q, file>> \in todo => <<q, file>> \in todo'
    BY <2>1
  <2> HIDE DEF d, l, t, c
  <2> QED BY <2>1, <2>3, <2>4, <2>7, <2>8, <2>9, OneSettled
<1>5. CASE StartFix
  <2>1. /\ pc' = "fixing" /\ tree' = tree /\ entries' = Entries /\ spoilt' = {}
        /\ todo' = {<<r, "json">> : r \in {q \in Entries : tree[q].files["json"] # None}}
                   \cup {<<r, "info">> : r \in Entries}
    BY <1>5 DEF StartFix, disk
  <2>2. ASSUME NEW r \in entries'
        PROVE  /\ r \in Rules /\ IsDirectory(tree[r]) /\ <<r, "info">> \in todo'
               /\ tree[r].files["json"] # None => <<r, "json">> \in todo'
    BY <2>1, <2>2 DEF Entries, Loads, TreeInv
  <2> QED BY <2>1, <2>2 DEF SettledInv
<1>6. ASSUME NEW r \in Rules, NEW file \in {"json", "info"}, FixFails(r, file) PROVE SettledInv'
  <2>1. /\ pc = "fixing" /\ pc' = pc /\ todo' = todo \ {<<r, file>>} /\ tree' = tree
        /\ spoilt' = spoilt \cup {<<r, file>>} /\ entries' = entries
    BY <1>6 DEF FixFails, disk
  <2>2. todo' \cup spoilt' = todo \cup spoilt \cup {<<r, file>>}
    BY <2>1
  <2> QED BY <2>1, <2>2 DEF SettledInv
<1>7. CASE FinishFix
  <2>1. /\ pc = "fixing" /\ pc' = "fixed" /\ todo = {} /\ tree' = tree
        /\ entries' = entries /\ todo' = todo /\ spoilt' = spoilt
    BY <1>7 DEF FinishFix, disk
  <2> QED BY <1>2, <2>1
<1>8. CASE UNCHANGED vars
  BY <1>2, <1>8 DEF vars, disk, SettledInv
<1>9. ASSUME NEW r \in Rules, NEW kind \in Kinds, NEW withJson \in BOOLEAN,
             NEW hits \in [Rules -> 0 .. 2], Generate(r, kind, withJson, hits)
      PROVE  SettledInv'
  BY <1>1, <1>9 DEF Generate
<1>10. ASSUME NEW r \in Rules, NEW file \in {"json", "info"}, FixKilled(r, file) PROVE SettledInv'
  BY <1>1, <1>10 DEF FixKilled
<1>11. ASSUME NEW r \in Rules, CheckEntry(r) PROVE SettledInv'
  BY <1>1, <1>11 DEF CheckEntry
<1>12. ASSUME NEW i \in BOOLEAN, StartCheck(i) PROVE SettledInv'
  BY <1>1, <1>12 DEF StartCheck
<1>13. CASE FinishCheck \/ Leave
  BY <1>1, <1>13 DEF FinishCheck, Leave
<1> QED BY <1>3, <1>4, <1>5, <1>6, <1>7, <1>8, <1>9, <1>10, <1>11, <1>12, <1>13 DEF Next

-----------------------------------------------------------------------------
(* Numbers, and the loops that recursive functions are.                    *)

Less == {ss \in Nat \X Nat : ss[1] < ss[2]}

\* A set of naturals that is not empty has a least element.
LEMMA Least ==
  ASSUME NEW T, T \subseteq Nat, T # {}
  PROVE  Min(T) \in T /\ \A k \in T : Min(T) <= k
<1>1. IsWellFoundedOn(Less, Nat)
  BY NatLessThanWellFounded DEF OpToRel, Less
<1>2. PICK m \in T : \A k \in T : ~ (<<k, m>> \in Less)
  BY <1>1, WFMin
<1>3. ASSUME NEW k \in T PROVE m <= k
  <2>1. m \in Nat /\ k \in Nat
    OBVIOUS
  <2>2. ~ (k < m)
    BY <1>2, <2>1 DEF Less
  <2> QED BY <2>1, <2>2
<1>4. \E x \in T : \A y \in T : x <= y
  BY <1>3
<1> QED BY <1>4 DEF Min

\* A set of naturals that has 0 and with each number the next one has them all.
LEMMA Induct ==
  ASSUME NEW T, T \subseteq Nat, 0 \in T, \A n \in Nat : n \in T => n + 1 \in T
  PROVE  T = Nat
<1> SUFFICES ASSUME T # Nat PROVE FALSE
  OBVIOUS
<1>1. PICK m \in Nat \ T : \A k \in Nat \ T : m <= k
  BY Least
<1>2. m # 0 /\ m - 1 \in Nat /\ (m - 1) + 1 = m
  BY <1>1
<1>3. m - 1 \in T
  BY <1>1, <1>2
<1> QED BY <1>1, <1>2, <1>3

\* g are the states, all in S, of a loop of n turns that begins in b.
IsLoop(g, S, n, step, b) ==
  g \in [0 .. n -> S] /\ g[0] = b /\ \A k \in 1 .. n : g[k] = step[<<g[k - 1], k>>]

\* Such a loop has its sequence of states.
LEMMA LoopExists ==
  ASSUME NEW S, NEW n, NEW step, NEW b,
         n \in Nat, step \in [S \X (1 .. n) -> S], b \in S
  PROVE  \E g : IsLoop(g, S, n, step, b)
<1> DEFINE Runs(m, g) == g \in [0 .. m -> S] /\ g[0] = b
                         /\ \A k \in 1 .. m : g[k] = step[<<g[k - 1], k>>]
           T == {m \in Nat : m <= n => \E g : Runs(m, g)}
<1>1. 0 \in T
  <2>1. Runs(0, [k \in 0 .. 0 |-> b])
    OBVIOUS
  <2> QED BY <2>1
<1>2. ASSUME NEW m \in Nat, m \in T PROVE m + 1 \in T
  <2> SUFFICES ASSUME m + 1 <= n PROVE \E g : Runs(m + 1, g)
    OBVIOUS
  <2>1. PICK g : Runs(m, g)
    BY <1>2
  <2> DEFINE h == [k \in 0 .. (m + 1) |-> IF k = m + 1 THEN step[<<g[m], m + 1>>] ELSE g[k]]
  <2>2. g[m] \in S /\ m + 1 \in 1 .. n
    BY <2>1
  <2>3. step[<<g[m], m + 1>>] \in S
    BY <2>2
  <2>4. h \in [0 .. (m + 1) -> S] /\ h[0] = b
    BY <2>1, <2>3
  <2>5. ASSUME NEW k \in 1 .. (m + 1) PROVE h[k] = step[<<h[k - 1], k>>]
    <3>1. k - 1 \in 0 .. (m + 1) /\ k - 1 # m + 1 /\ h[k - 1] = g[k - 1]
      OBVIOUS
    <3>2. CASE k = m + 1
      BY <3>1, <3>2
    <3>3. CASE k # m + 1
      <4>1. k \in 1 .. m /\ h[k] = g[k]
        BY <3>3
      <4> QED BY <2>1, <3>1, <4>1
    <3> QED BY <3>2, <3>3
  <2> QED BY <2>4, <2>5
<1>3. T = Nat
  <2> HIDE DEF T
  <2>1. T \subseteq Nat
    BY DEF T
  <2> QED BY <1>1, <1>2, <2>1, Induct
<1>4. \E g : Runs(n, g)
  BY <1>3
<1> QED BY <1>4 DEF IsLoop

-----------------------------------------------------------------------------
(* The canonical layout is read as what serde_yaml wrote.                  *)

MarginKeys == {"id", "rule_metadata", "regression_tests_info"}
Names == MarginKeys \cup {"title", "name", "type", "pipelines", "path"}

\* The lines that serde_yaml writes: a key tells the column.
SerdeLines(K) ==
  {l \in [key : K, item : BOOLEAN, bare : BOOLEAN, col : {0, 2}] :
     /\ l.bare => ~l.item
     /\ l.item => (l.col = 0 <=> l.key \in {"id", "name"})
     /\ ~l.item => (l.col = 0 <=> l.key \in MarginKeys)}

\* A pipeline; and the lines after which there may be one.
IsPipeline(l) == l.item /\ l.col = 2
ListsPipelines(l) == l.col = 2 /\ (l.bare \/ l.item)

PipelinesFollow(s) == \A i \in DOMAIN s : IsPipeline(s[i]) => i > 1 /\ ListsPipelines(s[i - 1])

\* The lines of tests.
Bodies(K) ==
  {b \in Seq(SerdeLines(K)) :
     /\ b # <<>> => b[1].item /\ b[1].col = 0
     /\ \A i \in DOMAIN b : b[i].item \/ b[i].col = 2
     /\ PipelinesFollow(b)}

\* The records that lines are.
LEMMA LineRecords ==
  ASSUME NEW k, NEW n
  PROVE  /\ Line(k, n) = [key |-> k, item |-> FALSE, bare |-> FALSE, col |-> n]
         /\ Item(k, n) = [key |-> k, item |-> TRUE, bare |-> FALSE, col |-> n]
         /\ Block(k, n) = [key |-> k, item |-> FALSE, bare |-> TRUE, col |-> n]
<1> DEFINE l == [key |-> k, item |-> FALSE, bare |-> FALSE, col |-> n]
<1>1. Line(k, n) = l
  BY DEF Line
<1>2. Item(k, n) = [key |-> k, item |-> TRUE, bare |-> FALSE, col |-> n]
  <2>1. Item(k, n) = [l EXCEPT !.item = TRUE]
    BY <1>1 DEF Item
  <2> QED BY <2>1
<1>3. Block(k, n) = [key |-> k, item |-> FALSE, bare |-> TRUE, col |-> n]
  <2>1. Block(k, n) = [l EXCEPT !.bare = TRUE]
    BY <1>1 DEF Block
  <2> QED BY <2>1
<1> QED BY <1>1, <1>2, <1>3

LEMMA SerdeKeys ==
  ASSUME NEW K, NEW k \in K, NEW n \in {0, 2}, n = 0 <=> k \in MarginKeys
  PROVE  Line(k, n) \in SerdeLines(K) /\ Block(k, n) \in SerdeLines(K)
<1> SUFFICES ASSUME NEW bare \in BOOLEAN
             PROVE  [key |-> k, item |-> FALSE, bare |-> bare, col |-> n] \in SerdeLines(K)
  BY LineRecords
<1> DEFINE l == [key |-> k, item |-> FALSE, bare |-> bare, col |-> n]
<1>1. /\ l \in [key : K, item : BOOLEAN, bare : BOOLEAN, col : {0, 2}]
      /\ l.key = k /\ l.item = FALSE /\ l.col = n
  OBVIOUS
<1> QED BY <1>1 DEF SerdeLines

LEMMA SerdeItems ==
  ASSUME NEW K, NEW k \in K, NEW n \in {0, 2}, n = 0 <=> k \in {"id", "name"}
  PROVE  Item(k, n) \in SerdeLines(K)
<1> DEFINE l == [key |-> k, item |-> TRUE, bare |-> FALSE, col |-> n]
<1>1. /\ l \in [key : K, item : BOOLEAN, bare : BOOLEAN, col : {0, 2}]
      /\ l.key = k /\ l.item = TRUE /\ l.bare = FALSE /\ l.col = n
  OBVIOUS
<1>2. l \in SerdeLines(K)
  BY <1>1 DEF SerdeLines
<1> QED BY <1>2, LineRecords

\* A concatenation, element by element.
LEMMA Concatenated ==
  ASSUME NEW S, NEW s \in Seq(S), NEW t \in Seq(S)
  PROVE  /\ s \o t \in Seq(S) /\ Len(s \o t) = Len(s) + Len(t)
         /\ Len(s) \in Nat /\ Len(t) \in Nat
         /\ \A i \in 1 .. Len(s) : (s \o t)[i] = s[i]
         /\ \A i \in 1 .. Len(t) : (s \o t)[Len(s) + i] = t[i]
OBVIOUS

\* Tests after tests.
LEMMA BodiesJoin ==
  ASSUME NEW K, NEW a \in Bodies(K), NEW b \in Bodies(K)
  PROVE  a \o b \in Bodies(K)
<1> DEFINE c == a \o b
           S == SerdeLines(K)
<1>1. a \in Seq(S) /\ b \in Seq(S)
  BY DEF Bodies
<1>2. /\ c \in Seq(S) /\ Len(c) = Len(a) + Len(b) /\ Len(a) \in Nat /\ Len(b) \in Nat
      /\ \A i \in 1 .. Len(a) : c[i] = a[i]
      /\ \A i \in 1 .. Len(b) : c[Len(a) + i] = b[i]
  <2> HIDE DEF S
  <2> QED BY <1>1, Concatenated
<1>3. /\ DOMAIN a = 1 .. Len(a) /\ DOMAIN b = 1 .. Len(b) /\ DOMAIN c = 1 .. Len(c)
      /\ a # <<>> <=> Len(a) > 0
      /\ b # <<>> <=> Len(b) > 0
      /\ c # <<>> <=> Len(c) > 0
  <2> HIDE DEF S, c
  <2> QED BY <1>1, <1>2
<1> HIDE DEF c, S
<1>4. ASSUME NEW i \in DOMAIN c, i \notin DOMAIN a
      PROVE  /\ i - Len(a) \in DOMAIN b /\ c[i] = b[i - Len(a)]
             /\ i - Len(a) > 1 => i - Len(a) - 1 \in DOMAIN b /\ c[i - 1] = b[i - Len(a) - 1]
  <2> DEFINE j == i - Len(a)
  <2>1. j \in 1 .. Len(b) /\ i = Len(a) + j
    BY <1>2, <1>3, <1>4
  <2>2. j > 1 => j - 1 \in 1 .. Len(b) /\ i - 1 = Len(a) + (j - 1)
    BY <1>2, <2>1
  <2> HIDE DEF j
  <2>3. c[i] = b[j] /\ (j > 1 => c[i - 1] = b[j - 1])
    BY <1>2, <2>1, <2>2
  <2> QED BY <1>3, <2>1, <2>2, <2>3 DEF j
<1>5. ASSUME NEW i \in DOMAIN a
      PROVE  i \in DOMAIN c /\ c[i] = a[i] /\ (i > 1 => i - 1 \in DOMAIN a /\ c[i - 1] = a[i - 1])
  BY <1>2, <1>3
<1>6. ASSUME c # <<>> PROVE c[1].item /\ c[1].col = 0
  <2>1. CASE a # <<>>
    BY <1>2, <1>3, <1>5, <2>1 DEF Bodies
  <2>2. CASE a = <<>>
    <3>1. Len(a) = 0 /\ b # <<>> /\ 1 \in DOMAIN c /\ 1 \notin DOMAIN a
      BY <1>2, <1>3, <1>6, <2>2
    <3>2. 1 \in 1 .. Len(b) /\ Len(a) + 1 = 1
      BY <1>2, <1>3, <3>1
    <3>3. c[1] = b[1]
      BY <1>2, <3>2
    <3> QED BY <3>1, <3>3 DEF Bodies
  <2> QED BY <2>1, <2>2
<1>7. ASSUME NEW i \in DOMAIN c
      PROVE  /\ c[i].item \/ c[i].col = 2
             /\ IsPipeline(c[i]) => i > 1 /\ ListsPipelines(c[i - 1])
  <2>1. CASE i \in DOMAIN a
    BY <1>5, <2>1 DEF Bodies, PipelinesFollow
  <2>2. CASE i \notin DOMAIN a
    <3> DEFINE j == i - Len(a)
    <3>1. j \in DOMAIN b /\ c[i] = b[j] /\ (j > 1 => j - 1 \in DOMAIN b /\ c[i - 1] = b[j - 1])
      BY <1>4, <2>2
    <3>2. j > 1 => i > 1
      BY <1>2, <1>3
    <3> HIDE DEF j
    <3> QED BY <3>1, <3>2 DEF Bodies, PipelinesFollow
  <2> QED BY <2>1, <2>2
<1> QED BY <1>2, <1>6, <1>7 DEF Bodies, PipelinesFollow, c, S

\* One test.
LEMMA BodyOfTest ==
  ASSUME NEW K, Names \subseteq K,
         NEW t, t.pipelines \in Seq(K \ {"id", "name"})
  PROVE  SerdeTest(t) \in Bodies(K) /\ SerdeTest(t) # <<>>
<1> DEFINE S == SerdeLines(K)
           p == t.pipelines
           q == [i \in DOMAIN p |-> Item(p[i], 2)]
           one == <<Item("name", 0), Line("type", 2)>>
           two == IF p = <<>> THEN <<>> ELSE <<Block("pipelines", 2)>> \o q
           six == <<Line("path", 2)>>
<1>1. /\ Item("name", 0) \in S /\ Line("type", 2) \in S /\ Block("pipelines", 2) \in S
      /\ Line("path", 2) \in S /\ \A k \in K \ {"id", "name"} : Item(k, 2) \in S
  <2>2. /\ "name" \in K /\ "type" \in K /\ "pipelines" \in K /\ "path" \in K
        /\ "type" \notin MarginKeys /\ "pipelines" \notin MarginKeys /\ "path" \notin MarginKeys
    BY DEF Names, MarginKeys
  <2>3. Item("name", 0) \in S
    BY <2>2, SerdeItems
  <2>4. Line("type", 2) \in S /\ Line("path", 2) \in S
    BY <2>2, SerdeKeys
  <2>5. Block("pipelines", 2) \in S
    BY <2>2, SerdeKeys
  <2>6. ASSUME NEW k \in K \ {"id", "name"} PROVE Item(k, 2) \in S
    BY SerdeItems
  <2> QED BY <2>3, <2>4, <2>5, <2>6
<1>2. Len(p) \in Nat /\ DOMAIN p = 1 .. Len(p) /\ \A i \in 1 .. Len(p) : p[i] \in K \ {"id", "name"}
  OBVIOUS
<1>3. q \in Seq(S) /\ Len(q) = Len(p) /\ \A i \in 1 .. Len(p) : q[i] = Item(p[i], 2)
  <2> HIDE DEF S
  <2> QED BY <1>1, <1>2
<1>4. /\ IsPipeline(Item("name", 0)) = FALSE /\ IsPipeline(Line("type", 2)) = FALSE
      /\ IsPipeline(Line("path", 2)) = FALSE /\ IsPipeline(Block("pipelines", 2)) = FALSE
      /\ ListsPipelines(Block("pipelines", 2)) /\ \A k : ListsPipelines(Item(k, 2))
      /\ Item("name", 0).item /\ Item("name", 0).col = 0 /\ \A k : Item(k, 2).item
      /\ Line("type", 2).col = 2 /\ Line("path", 2).col = 2 /\ Block("pipelines", 2).col = 2
  BY DEF IsPipeline, ListsPipelines, Item, Line, Block
<1> HIDE DEF S, p, q
<1>5. one \in Seq(S) /\ Len(one) = 2 /\ one[1] = Item("name", 0) /\ one[2] = Line("type", 2)
  BY <1>1
<1>6. six \in Seq(S) /\ Len(six) = 1 /\ six[1] = Line("path", 2)
  BY <1>1
<1>7. <<Block("pipelines", 2)>> \in Seq(S) /\ Len(<<Block("pipelines", 2)>>) = 1
  BY <1>1
<1>8. /\ two \in Seq(S) /\ Len(two) \in Nat
      /\ Len(two) > 0 => two[1] = Block("pipelines", 2)
      /\ \A i \in 2 .. Len(two) : \E k : two[i] = Item(k, 2)
  <2>1. CASE p = <<>>
    BY <2>1
  <2>2. CASE p # <<>>
    <3> DEFINE b == <<Block("pipelines", 2)>>
    <3>1. two = b \o q /\ b[1] = Block("pipelines", 2)
      BY <2>2
    <3> HIDE DEF b, two
    <3>2. /\ b \o q \in Seq(S) /\ Len(b \o q) = 1 + Len(p) /\ (b \o q)[1] = b[1]
          /\ \A i \in 1 .. Len(q) : (b \o q)[1 + i] = q[i]
      BY <1>3, <1>7, Concatenated DEF b
    <3>3. ASSUME NEW i \in 2 .. Len(two) PROVE \E k : two[i] = Item(k, 2)
      <4>1. i - 1 \in 1 .. Len(p) /\ i = 1 + (i - 1)
        BY <1>2, <3>1, <3>2
      <4>2. two[i] = q[i - 1]
        BY <1>3, <3>1, <3>2, <4>1
      <4> QED BY <1>3, <4>1, <4>2
    <3> QED BY <1>2, <3>1, <3>2, <3>3
  <2> QED BY <2>1, <2>2
<1> DEFINE m == Len(two)
           s == (one \o two) \o six
<1>9. s = SerdeTest(t)
  BY DEF SerdeTest, p, q
<1> HIDE DEF one, two, six
<1>10. /\ one \o two \in Seq(S) /\ Len(one \o two) = 2 + m
       /\ (one \o two)[1] = one[1] /\ (one \o two)[2] = one[2]
       /\ \A i \in 1 .. m : (one \o two)[2 + i] = two[i]
  <2>1. /\ one \o two \in Seq(S) /\ Len(one \o two) = 2 + m
        /\ \A i \in 1 .. 2 : (one \o two)[i] = one[i]
        /\ \A i \in 1 .. m : (one \o two)[2 + i] = two[i]
    <3>1. one \in Seq(S) /\ two \in Seq(S) /\ Len(one) = 2
      BY <1>5, <1>8
    <3> HIDE DEF s, m
    <3>2. /\ one \o two \in Seq(S) /\ Len(one \o two) = Len(one) + Len(two)
          /\ \A i \in 1 .. Len(one) : (one \o two)[i] = one[i]
          /\ \A i \in 1 .. Len(two) : (one \o two)[Len(one) + i] = two[i]
      <4>1. \A x, y \in Seq(S) :
              /\ x \o y \in Seq(S) /\ Len(x \o y) = Len(x) + Len(y)
              /\ \A i \in 1 .. Len(x) : (x \o y)[i] = x[i]
              /\ \A i \in 1 .. Len(y) : (x \o y)[Len(x) + i] = y[i]
        BY Concatenated
      <4> QED BY <3>1, <4>1, Zenon
    <3> QED BY <3>1, <3>2 DEF m
  <2> QED BY <2>1
<1>11. /\ s \in Seq(S) /\ Len(s) = 3 + m /\ m \in Nat
       /\ \A i \in 1 .. (2 + m) : s[i] = (one \o two)[i]
       /\ s[3 + m] = six[1]
  BY <1>6, <1>8, <1>10, Concatenated
<1> HIDE DEF s
<1>12. s[1] = Item("name", 0) /\ s[2] = Line("type", 2) /\ s[3 + m] = Line("path", 2)
  BY <1>5, <1>6, <1>10, <1>11
<1>13. \A i \in 1 .. m : s[2 + i] = two[i]
  BY <1>10, <1>11
<1>14. (m > 0 => s[3] = Block("pipelines", 2)) /\ \A i \in 4 .. (2 + m) : \E k : s[i] = Item(k, 2)
  <2>1. m > 0 => s[2 + 1] = two[1]
    BY <1>11, <1>13
  <2>2. ASSUME NEW i \in 4 .. (2 + m) PROVE \E k : s[i] = Item(k, 2)
    <3>1. i - 2 \in 2 .. m /\ i - 2 \in 1 .. m /\ i = 2 + (i - 2)
      BY <1>11
    <3> QED BY <1>8, <1>13, <3>1
  <2> QED BY <1>8, <2>1, <2>2
<1>15. DOMAIN s = 1 .. (3 + m) /\ s # <<>>
  BY <1>11
<1>16. ASSUME NEW i \in DOMAIN s
       PROVE  /\ s[i].item \/ s[i].col = 2
              /\ IsPipeline(s[i]) => i > 1 /\ ListsPipelines(s[i - 1])
  <2>1. i \in {1, 2, 3 + m} \/ (i = 3 /\ m > 0) \/ i \in 4 .. (2 + m)
    BY <1>11, <1>15
  <2>2. CASE i \in {1, 2, 3 + m}
    BY <1>4, <1>12, <2>2
  <2>3. CASE i = 3 /\ m > 0
    BY <1>4, <1>14, <2>3
  <2>4. CASE i \in 4 .. (2 + m)
    <3>1. i > 1 /\ m > 0 /\ (i - 1 = 3 \/ i - 1 \in 4 .. (2 + m))
      BY <1>11, <2>4
    <3>2. s[i].item /\ ListsPipelines(s[i - 1])
      BY <1>4, <1>14, <2>4, <3>1
    <3> QED BY <3>1, <3>2
  <2> QED BY <2>1, <2>2, <2>3, <2>4
<1>17. s[1].item /\ s[1].col = 0
  BY <1>4, <1>12
<1> QED BY <1>9, <1>11, <1>15, <1>16, <1>17 DEF Bodies, PipelinesFollow, S

\* Any number of tests.
LEMMA BodyOfTests ==
  ASSUME NEW K, NEW q, NEW n \in Nat \ {0}, DOMAIN q = 1 .. n, q \in Seq(Bodies(K)),
         \A i \in 1 .. n : q[i] # <<>>
  PROVE  FlattenSeq(q) \in Bodies(K) /\ FlattenSeq(q) # <<>>
<1> DEFINE B == Bodies(K)
           F(f) == [i \in 1 .. Len(q) |-> IF i = 1 THEN q[i] ELSE f[i - 1] \o q[i]]
           step == [a \in B \X (1 .. n) |-> IF a[2] = 1 THEN q[1] ELSE a[1] \o q[a[2]]]
<1>1. Len(q) = n /\ \A i \in 1 .. n : q[i] \in B
  <2>1. q \in Seq(B) /\ DOMAIN q = 1 .. n
    OBVIOUS
  <2> HIDE DEF B
  <2>2. Len(q) \in Nat /\ DOMAIN q = 1 .. Len(q) /\ \A i \in DOMAIN q : q[i] \in B
    BY <2>1
  <2>3. n \in 1 .. Len(q)
    BY <2>1, <2>2
  <2>4. Len(q) \in 1 .. n
    BY <2>1, <2>2, <2>3
  <2> QED BY <2>1, <2>2, <2>3, <2>4
<1>2. \A a, b \in B : a \o b \in B
  BY BodiesJoin
<1>3. <<>> \in B
  BY DEF Bodies, PipelinesFollow
<1> HIDE DEF B
<1>4. step \in [B \X (1 .. n) -> B]
  BY <1>1, <1>2
<1>5. \E g : IsLoop(g, B, n, step, <<>>)
  <2> HIDE DEF step
  <2> QED BY <1>3, <1>4, LoopExists
<1>6. PICK g : IsLoop(g, B, n, step, <<>>)
  BY <1>5
<1>7. \A k \in 1 .. n : g[k] = IF k = 1 THEN q[k] ELSE g[k - 1] \o q[k]
  <2> SUFFICES ASSUME NEW k \in 1 .. n
               PROVE  g[k] = IF k = 1 THEN q[k] ELSE g[k - 1] \o q[k]
    OBVIOUS
  <2>1. k - 1 \in 0 .. n
    OBVIOUS
  <2>2. <<g[k - 1], k>> \in B \X (1 .. n) /\ g[k] = step[<<g[k - 1], k>>]
    BY <1>6, <2>1 DEF IsLoop
  <2> QED BY <2>2
<1>8. \E f : f = F(f)
  <2> DEFINE h == [i \in 1 .. n |-> g[i]]
  <2>1. h = F(h)
    <3>1. ASSUME NEW i \in 1 .. n PROVE h[i] = IF i = 1 THEN q[i] ELSE h[i - 1] \o q[i]
      <4>1. i # 1 => i - 1 \in 1 .. n
        OBVIOUS
      <4>2. h[i] = g[i] /\ (i # 1 => h[i - 1] = g[i - 1])
        BY <4>1
      <4> QED BY <1>7, <4>2
    <3>2. h = [i \in 1 .. n |-> h[i]]
      OBVIOUS
    <3> HIDE DEF h
    <3>3. h = [i \in 1 .. n |-> IF i = 1 THEN q[i] ELSE h[i - 1] \o q[i]]
      BY <3>1, <3>2
    <3> QED BY <1>1, <3>3
  <2> QED BY <2>1
<1> DEFINE c == CHOOSE f : f = F(f)
<1>9. c = F(c)
  BY <1>8
<1>10. FlattenSeq(q) = c[n]
  BY <1>1 DEF FlattenSeq
<1>11. \A i \in 1 .. n : c[i] = IF i = 1 THEN q[i] ELSE c[i - 1] \o q[i]
  <2> HIDE DEF c
  <2> QED BY <1>1, <1>9
<1> HIDE DEF c, F, step
<1> DEFINE T == {k \in Nat : k <= n /\ k # 0 => c[k] \in B /\ c[k] # <<>>}
<1>12. 0 \in T
  OBVIOUS
<1>13. ASSUME NEW k \in Nat, k \in T PROVE k + 1 \in T
  <2> SUFFICES ASSUME k + 1 <= n PROVE c[k + 1] \in B /\ c[k + 1] # <<>>
    OBVIOUS
  <2>1. CASE k = 0
    <3>1. 1 \in 1 .. n /\ k + 1 = 1
      BY <2>1
    <3>2. c[1] = q[1]
      BY <1>11, <3>1
    <3> QED BY <1>1, <3>1, <3>2
  <2>2. CASE k # 0
    <3>1. k + 1 \in 1 .. n /\ (k + 1) - 1 = k /\ k + 1 # 1
      BY <2>2
    <3>2. c[k + 1] = c[k] \o q[k + 1] /\ q[k + 1] \in B /\ q[k + 1] # <<>>
      BY <1>1, <1>11, <3>1
    <3>3. c[k] \in B /\ c[k] # <<>>
      BY <1>13, <2>2
    <3>4. c[k] \in Seq(SerdeLines(K)) /\ q[k + 1] \in Seq(SerdeLines(K))
      BY <3>2, <3>3 DEF Bodies, B
    <3>5. c[k] \o q[k + 1] # <<>>
      BY <3>3, <3>4
    <3> QED BY <1>2, <3>2, <3>3, <3>5
  <2> QED BY <2>1, <2>2
<1>14. T = Nat
  <2> HIDE DEF T
  <2>1. T \subseteq Nat
    BY DEF T
  <2> QED BY <1>12, <1>13, <2>1, Induct
<1> QED BY <1>10, <1>14 DEF B

\* How an info.yml begins, and that its lines after that are of tests.
IsSerde(s, K) ==
  /\ s \in Seq(SerdeLines(K)) /\ Len(s) >= 5
  /\ ~s[1].item /\ s[1].col = 0
  /\ ~s[2].item /\ s[2].col = 0 /\ s[2].bare
  /\ s[3].item /\ s[3].col = 0
  /\ ~s[4].item /\ s[4].col = 2 /\ ~s[4].bare
  /\ ~s[5].item /\ s[5].col = 0
  /\ Len(s) > 5 => s[5].bare /\ s[6].item /\ s[6].col = 0
  /\ \A i \in 6 .. Len(s) : s[i].item \/ s[i].col = 2
  /\ PipelinesFollow(s)

\* The names of the keys and of the pipelines.
KeysOf(tests) == Names \cup UNION {Range(t.pipelines) : t \in Range(tests)}

LEMMA SerdeShape ==
  ASSUME NEW tests, IsTestList(tests)
  PROVE  IsSerde(Serde(tests), KeysOf(tests))
<1> DEFINE K == KeysOf(tests)
           S == SerdeLines(K)
           n == Len(tests)
           q == [i \in DOMAIN tests |-> SerdeTest(tests[i])]
           head == <<Line("id", 0), Block("rule_metadata", 0), Item("id", 0), Line("title", 2)>>
           five == IF tests = <<>> THEN Line("regression_tests_info", 0)
                   ELSE Block("regression_tests_info", 0)
           body == IF tests = <<>> THEN <<>> ELSE FlattenSeq(q)
           s == Serde(tests)
<1>1. n \in Nat /\ DOMAIN tests = 1 .. n /\ (tests # <<>> <=> n # 0)
  BY DEF IsTestList
<1>2. Names \subseteq K
  BY DEF KeysOf
<1>3. ASSUME NEW i \in 1 .. n PROVE SerdeTest(tests[i]) \in Bodies(K) /\ SerdeTest(tests[i]) # <<>>
  <2> DEFINE t == tests[i]
  <2>1. t \in Range(tests)
    BY <1>1 DEF Range
  <2>2. t.pipelines \in Seq(Range(t.pipelines) \ {"id", "name"})
    BY <2>1 DEF IsTestList
  <2>3. Range(t.pipelines) \ {"id", "name"} \subseteq K \ {"id", "name"}
    BY <2>1 DEF KeysOf
  <2>4. t.pipelines \in Seq(K \ {"id", "name"})
    <3> HIDE DEF t, K
    <3> QED BY <2>2, <2>3
  <2> HIDE DEF t, K
  <2>5. SerdeTest(t) \in Bodies(K) /\ SerdeTest(t) # <<>>
    BY <1>2, <2>4, BodyOfTest
  <2> QED BY <2>5 DEF t
<1> HIDE DEF K
<1>4. body \in Bodies(K) /\ (tests # <<>> => body # <<>>)
  <2>1. CASE tests = <<>>
    <3>1. body = <<>>
      BY <2>1
    <3>2. <<>> \in Bodies(K)
      BY DEF Bodies, PipelinesFollow
    <3> QED BY <2>1, <3>1, <3>2
  <2>2. CASE tests # <<>>
    <3>1. q \in Seq(Bodies(K)) /\ DOMAIN q = 1 .. n /\ n \in Nat \ {0}
          /\ \A i \in 1 .. n : q[i] # <<>>
      BY <1>1, <1>3, <2>2
    <3>2. FlattenSeq(q) \in Bodies(K) /\ FlattenSeq(q) # <<>>
      <4> HIDE DEF q, n
      <4> QED BY <3>1, BodyOfTests
    <3> QED BY <2>2, <3>2
  <2> QED BY <2>1, <2>2
<1>5. body \in Seq(S) /\ Len(body) \in Nat /\ (body # <<>> <=> Len(body) > 0)
      /\ (tests = <<>> => Len(body) = 0)
  BY <1>4 DEF Bodies
<1>6. s = head \o (<<five>> \o body)
  <2>1. CASE tests = <<>>
    <3>1. <<five>> \o <<>> = <<five>>
      OBVIOUS
    <3> QED BY <2>1, <3>1 DEF Serde
  <2>2. CASE tests # <<>>
    BY <2>2 DEF Serde
  <2> QED BY <2>1, <2>2
<1>7. head \in Seq(S) /\ Len(head) = 4 /\ <<five>> \in Seq(S) /\ Len(<<five>>) = 1
  <2>1. /\ "id" \in K /\ "rule_metadata" \in K /\ "title" \in K /\ "regression_tests_info" \in K
        /\ "title" \notin MarginKeys
        /\ {"id", "rule_metadata", "regression_tests_info"} \subseteq MarginKeys
    BY <1>2 DEF Names, MarginKeys
  <2>2. /\ Line("id", 0) \in S /\ Block("rule_metadata", 0) \in S /\ Line("title", 2) \in S
        /\ Line("regression_tests_info", 0) \in S /\ Block("regression_tests_info", 0) \in S
    BY <2>1, SerdeKeys
  <2>3. Item("id", 0) \in S
    BY <2>1, SerdeItems
  <2> HIDE DEF S
  <2> QED BY <2>2, <2>3
<1>8. /\ head[1] = Line("id", 0) /\ head[2] = Block("rule_metadata", 0) /\ head[3] = Item("id", 0)
      /\ head[4] = Line("title", 2) /\ <<five>>[1] = five
  OBVIOUS
<1>9. /\ ~five.item /\ five.col = 0 /\ (tests # <<>> => five.bare)
      /\ ~Line("id", 0).item /\ Line("id", 0).col = 0
      /\ ~Block("rule_metadata", 0).item /\ Block("rule_metadata", 0).col = 0
      /\ Block("rule_metadata", 0).bare
      /\ Item("id", 0).item /\ Item("id", 0).col = 0
      /\ ~Line("title", 2).item /\ Line("title", 2).col = 2 /\ ~Line("title", 2).bare
  BY LineRecords
<1>10. \A x, y \in Seq(S) :
         /\ x \o y \in Seq(S) /\ Len(x \o y) = Len(x) + Len(y)
         /\ \A i \in 1 .. Len(x) : (x \o y)[i] = x[i]
         /\ \A i \in 1 .. Len(y) : (x \o y)[Len(x) + i] = y[i]
  BY Concatenated
<1> DEFINE f == <<five>>
           u == f \o body
           m == Len(body)
<1> HIDE DEF S, head, five, body, q, n, s, f, u
<1>11. /\ u \in Seq(S) /\ Len(u) = Len(f) + Len(body)
       /\ \A i \in 1 .. Len(f) : u[i] = f[i]
       /\ \A i \in 1 .. Len(body) : u[Len(f) + i] = body[i]
  BY <1>5, <1>7, <1>10, Zenon DEF u, f
<1>12. /\ u \in Seq(S) /\ Len(u) = 1 + m /\ u[1] = five /\ m \in Nat
       /\ \A i \in 1 .. m : u[1 + i] = body[i]
  BY <1>5, <1>7, <1>8, <1>11 DEF f
<1>13. /\ s \in Seq(S) /\ Len(s) = Len(head) + Len(u)
       /\ \A i \in 1 .. Len(head) : s[i] = head[i]
       /\ \A i \in 1 .. Len(u) : s[Len(head) + i] = u[i]
  <2>1. s = head \o u
    BY <1>6 DEF u, f
  <2>2. head \in Seq(S) /\ u \in Seq(S)
    BY <1>7, <1>12
  <2>3. /\ head \o u \in Seq(S) /\ Len(head \o u) = Len(head) + Len(u)
        /\ \A i \in 1 .. Len(head) : (head \o u)[i] = head[i]
        /\ \A i \in 1 .. Len(u) : (head \o u)[Len(head) + i] = u[i]
    BY <2>2, Concatenated
  <2> QED BY <2>1, <2>3, Zenon
<1>14. /\ Len(s) = 5 + m /\ \A i \in 1 .. 4 : s[i] = head[i]
       /\ \A i \in 1 .. (1 + m) : s[4 + i] = u[i]
  BY <1>7, <1>12, <1>13
<1>15. s[5] = five /\ \A i \in 1 .. m : s[5 + i] = body[i]
  <2>1. s[4 + 1] = u[1]
    BY <1>12, <1>14
  <2>2. ASSUME NEW i \in 1 .. m PROVE s[5 + i] = body[i]
    <3>1. 1 + i \in 1 .. (1 + m) /\ 4 + (1 + i) = 5 + i
      BY <1>12
    <3>2. s[4 + (1 + i)] = u[1 + i]
      BY <1>14, <3>1
    <3> QED BY <1>12, <3>1, <3>2
  <2> QED BY <1>12, <2>1, <2>2
<1>16. ASSUME NEW i \in 6 .. Len(s)
       PROVE  /\ i - 5 \in DOMAIN body /\ s[i] = body[i - 5]
              /\ i - 5 > 1 => i - 5 - 1 \in DOMAIN body /\ s[i - 1] = body[i - 5 - 1]
  <2> DEFINE j == i - 5
  <2>1. j \in 1 .. m /\ i = 5 + j /\ DOMAIN body = 1 .. m
    BY <1>5, <1>12, <1>14
  <2>2. j > 1 => j - 1 \in 1 .. m /\ i - 1 = 5 + (j - 1)
    BY <1>12, <2>1
  <2> HIDE DEF j
  <2> QED BY <1>15, <2>1, <2>2 DEF j
<1>17. \A i \in 6 .. Len(s) : s[i].item \/ s[i].col = 2
  BY <1>4, <1>16 DEF Bodies
<1>18. Len(s) > 5 => s[5].bare /\ s[6].item /\ s[6].col = 0
  <2> SUFFICES ASSUME Len(s) > 5 PROVE s[5].bare /\ s[6].item /\ s[6].col = 0
    OBVIOUS
  <2>1. m > 0 /\ 6 \in 6 .. Len(s) /\ 6 - 5 = 1
    BY <1>12, <1>14
  <2>2. body # <<>> /\ tests # <<>>
    BY <1>5, <2>1
  <2>3. s[6] = body[1]
    BY <1>16, <2>1
  <2> QED BY <1>4, <1>9, <1>15, <2>2, <2>3 DEF Bodies
<1>19. /\ s[1] = head[1] /\ s[2] = head[2] /\ s[3] = head[3] /\ s[4] = head[4]
  BY <1>14
<1>20. PipelinesFollow(s)
  <2> SUFFICES ASSUME NEW i \in DOMAIN s, IsPipeline(s[i])
               PROVE  i > 1 /\ ListsPipelines(s[i - 1])
    BY DEF PipelinesFollow
  <2>1. i \in 1 .. 5 \/ i \in 6 .. Len(s)
    BY <1>12, <1>13, <1>14
  <2>2. CASE i \in 1 .. 5
    <3>1. i \in {1, 2, 3, 4, 5}
      BY <2>2
    <3> QED BY <1>8, <1>9, <1>15, <1>19, <3>1 DEF IsPipeline
  <2>3. CASE i \in 6 .. Len(s)
    <3> DEFINE j == i - 5
    <3>1. j \in DOMAIN body /\ s[i] = body[j]
          /\ (j > 1 => j - 1 \in DOMAIN body /\ s[i - 1] = body[j - 1])
      BY <1>16, <2>3
    <3>2. i > 1
      BY <2>3
    <3> HIDE DEF j
    <3> QED BY <1>4, <2>3, <3>1, <3>2 DEF Bodies, PipelinesFollow
  <2> QED BY <2>1, <2>2, <2>3
<1> QED BY <1>8, <1>9, <1>12, <1>13, <1>14, <1>15, <1>17, <1>18, <1>19, <1>20
        DEF IsSerde, S, K, s

-----------------------------------------------------------------------------
(* Where to_sigma_indent puts these lines.                                 *)

\* The keys that can be open: one at the margin, or the one that lists the pipelines.
MarginKey == [src |-> 0, col |-> 0, open |-> TRUE]
ListKey == [src |-> 2, col |-> 6, open |-> TRUE]
OpenKeys == {NoKey, MarginKey, ListKey}

NewColumn(l) == IF l.item THEN (IF l.col = 0 THEN 4 ELSE 10) ELSE IF l.col = 0 THEN 0 ELSE 6

\* One line.
LEMMA OneIndented ==
  ASSUME NEW K, NEW l \in SerdeLines(K), NEW key \in OpenKeys
  PROVE  /\ OpenKey(l, Column(l, key), key) \in OpenKeys
         /\ l.bare /\ l.col = 2 => OpenKey(l, Column(l, key), key) = ListKey
         /\ l.item => OpenKey(l, Column(l, key), key) = key
         /\ ~IsPipeline(l) \/ key = ListKey => Column(l, key) = NewColumn(l)
<1>1. /\ l.item \in BOOLEAN /\ l.bare \in BOOLEAN /\ l.col \in {0, 2} /\ (l.bare => ~l.item)
  BY DEF SerdeLines
<1>2. /\ NoKey.src = 0 /\ NoKey.col = 0 /\ NoKey.open = FALSE
      /\ MarginKey.src = 0 /\ MarginKey.col = 0 /\ MarginKey.open = TRUE
      /\ ListKey.src = 2 /\ ListKey.col = 6 /\ ListKey.open = TRUE
  BY DEF NoKey, MarginKey, ListKey
<1>3. ~l.item => Column(l, key) = IF l.col = 0 THEN 0 ELSE 6
  BY <1>1 DEF Column
<1>4. l.item => Column(l, key) = IF key.open /\ key.src = l.col THEN key.col + 4 ELSE l.col + 4
  BY <1>1 DEF Column
<1>5. ~IsPipeline(l) \/ key = ListKey => Column(l, key) = NewColumn(l)
  <2>1. CASE l.item /\ l.col = 0
    <3>1. Column(l, key) = 4
      BY <1>2, <1>4, <2>1 DEF OpenKeys
    <3> QED BY <2>1, <3>1 DEF NewColumn
  <2>2. CASE l.item /\ l.col = 2
    BY <1>2, <1>4, <2>2 DEF NewColumn, IsPipeline
  <2>3. CASE ~l.item
    BY <1>3, <2>3 DEF NewColumn
  <2> QED BY <1>1, <2>1, <2>2, <2>3
<1>6. l.item => OpenKey(l, Column(l, key), key) = key
  BY DEF OpenKey
<1>7. l.bare /\ l.col = 2 => OpenKey(l, Column(l, key), key) = ListKey
  BY <1>1, <1>3 DEF OpenKey, ListKey
<1>8. l.bare /\ l.col = 0 => OpenKey(l, Column(l, key), key) = MarginKey
  BY <1>1, <1>3 DEF OpenKey, MarginKey
<1>9. ~l.item /\ ~l.bare => OpenKey(l, Column(l, key), key) \in {NoKey, key}
  BY DEF OpenKey
<1> QED BY <1>1, <1>5, <1>6, <1>7, <1>8, <1>9 DEF OpenKeys

\* Line by line.
LEMMA LineByLine ==
  ASSUME NEW K, NEW s \in Seq(SerdeLines(K))
  PROVE  /\ OpenAfter(s) \in [0 .. Len(s) -> OpenKeys]
         /\ \A k \in 1 .. Len(s) :
              OpenAfter(s)[k] = OpenKey(s[k], Column(s[k], OpenAfter(s)[k - 1]), OpenAfter(s)[k - 1])
<1> DEFINE n == Len(s)
           Next1(key, k) == OpenKey(s[k], Column(s[k], key), key)
           step == [a \in OpenKeys \X (1 .. n) |-> Next1(a[1], a[2])]
           Loops(f) == f = [k \in 0 .. n |-> IF k = 0 THEN NoKey ELSE Next1(f[k - 1], k)]
           o == OpenAfter(s)
<1>1. n \in Nat /\ \A k \in 1 .. n : s[k] \in SerdeLines(K)
  OBVIOUS
<1>2. NoKey \in OpenKeys
  BY DEF OpenKeys
<1>3. \A key \in OpenKeys, k \in 1 .. n : Next1(key, k) \in OpenKeys
  BY <1>1, OneIndented
<1>4. step \in [OpenKeys \X (1 .. n) -> OpenKeys]
  <2> HIDE DEF Next1, n
  <2> QED BY <1>3
<1>5. PICK g : IsLoop(g, OpenKeys, n, step, NoKey)
  <2> HIDE DEF step, n
  <2> QED BY <1>1, <1>2, <1>4, LoopExists
<1>6. \A k \in 1 .. n : g[k] = Next1(g[k - 1], k)
  <2> SUFFICES ASSUME NEW k \in 1 .. n PROVE g[k] = Next1(g[k - 1], k)
    OBVIOUS
  <2> HIDE DEF Next1
  <2>1. k - 1 \in 0 .. n
    BY <1>1
  <2>2. <<g[k - 1], k>> \in OpenKeys \X (1 .. n)
    BY <1>5, <2>1 DEF IsLoop
  <2> QED BY <1>5, <2>2 DEF IsLoop
<1>7. o = CHOOSE f : Loops(f)
  BY DEF OpenAfter
<1> HIDE DEF Next1, o
<1>8. Loops(g)
  BY <1>1, <1>5, <1>6 DEF IsLoop
<1>9. Loops(o)
  <2> HIDE DEF Loops
  <2> QED BY <1>7, <1>8
<1>10. /\ o = [k \in 0 .. n |-> o[k]] /\ o[0] = NoKey
       /\ \A k \in 1 .. n : o[k] = Next1(o[k - 1], k)
  BY <1>1, <1>9
<1> DEFINE T == {k \in Nat : k <= n => o[k] \in OpenKeys}
<1>11. 0 \in T
  BY <1>2, <1>10
<1>12. ASSUME NEW k \in Nat, k \in T PROVE k + 1 \in T
  <2> SUFFICES ASSUME k + 1 <= n PROVE o[k + 1] \in OpenKeys
    OBVIOUS
  <2>1. o[k] \in OpenKeys /\ k + 1 \in 1 .. n /\ (k + 1) - 1 = k
    BY <1>1, <1>12
  <2> QED BY <1>3, <1>10, <2>1
<1>13. T = Nat
  <2> HIDE DEF T
  <2>1. T \subseteq Nat
    BY DEF T
  <2> QED BY <1>11, <1>12, <2>1, Induct
<1>14. \A k \in 0 .. n : o[k] \in OpenKeys
  BY <1>1, <1>13
<1> QED BY <1>10, <1>14 DEF o, Next1

\* While pipelines are listed their key is open.
LEMMA ListsAreOpen ==
  ASSUME NEW K, NEW s \in Seq(SerdeLines(K)), PipelinesFollow(s)
  PROVE  \A k \in 1 .. Len(s) : ListsPipelines(s[k]) => OpenAfter(s)[k] = ListKey
<1> DEFINE n == Len(s)
           o == OpenAfter(s)
           T == {k \in Nat : k > 0 /\ k <= n /\ ListsPipelines(s[k]) => o[k] = ListKey}
<1>1. n \in Nat /\ DOMAIN s = 1 .. n /\ \A k \in 1 .. n : s[k] \in SerdeLines(K)
  OBVIOUS
<1>2. /\ \A k \in 0 .. n : o[k] \in OpenKeys
      /\ \A k \in 1 .. n : o[k] = OpenKey(s[k], Column(s[k], o[k - 1]), o[k - 1])
  BY LineByLine
<1> HIDE DEF o
<1>3. 0 \in T
  OBVIOUS
<1>4. ASSUME NEW k \in Nat, k \in T PROVE k + 1 \in T
  <2> SUFFICES ASSUME k + 1 <= n, ListsPipelines(s[k + 1]) PROVE o[k + 1] = ListKey
    OBVIOUS
  <2>1. k + 1 \in 1 .. n /\ k \in 0 .. n /\ (k + 1) - 1 = k
    BY <1>1
  <2>2. s[k + 1] \in SerdeLines(K) /\ o[k] \in OpenKeys
        /\ o[k + 1] = OpenKey(s[k + 1], Column(s[k + 1], o[k]), o[k])
    BY <1>1, <1>2, <2>1
  <2>3. CASE s[k + 1].bare /\ s[k + 1].col = 2
    BY <2>2, <2>3, OneIndented
  <2>4. CASE s[k + 1].item /\ s[k + 1].col = 2
    <3>1. k + 1 > 1 /\ ListsPipelines(s[k])
      BY <1>1, <2>1, <2>4 DEF PipelinesFollow, IsPipeline
    <3>2. o[k] = ListKey
      BY <1>4, <2>1, <3>1
    <3> QED BY <2>2, <2>4, <3>2, OneIndented
  <2> QED BY <2>3, <2>4 DEF ListsPipelines
<1>5. T = Nat
  <2> HIDE DEF T
  <2>1. T \subseteq Nat
    BY DEF T
  <2> QED BY <1>3, <1>4, <2>1, Induct
<1> QED BY <1>1, <1>5 DEF o

\* Every line goes where its column and its being an item say.
LEMMA Indented ==
  ASSUME NEW K, NEW s \in Seq(SerdeLines(K)), PipelinesFollow(s)
  PROVE  /\ DOMAIN ToSigmaIndent(s) = 1 .. Len(s)
         /\ \A i \in 1 .. Len(s) :
              ToSigmaIndent(s)[i] = [key |-> s[i].key, item |-> s[i].item, bare |-> s[i].bare,
                                     col |-> NewColumn(s[i])]
<1>1. DOMAIN s = 1 .. Len(s) /\ Len(s) \in Nat /\ \A k \in 1 .. Len(s) : s[k] \in SerdeLines(K)
  OBVIOUS
<1>2. ASSUME NEW i \in 1 .. Len(s)
      PROVE  ToSigmaIndent(s)[i] = [key |-> s[i].key, item |-> s[i].item, bare |-> s[i].bare,
                                    col |-> NewColumn(s[i])]
  <2> DEFINE l == s[i]
             key == OpenAfter(s)[i - 1]
             n == Column(l, key)
  <2>1. l \in SerdeLines(K) /\ i - 1 \in 0 .. Len(s)
    BY <1>1
  <2>2. key \in OpenKeys
    BY <2>1, LineByLine
  <2>3. IsPipeline(l) => key = ListKey
    <3> SUFFICES ASSUME IsPipeline(l) PROVE key = ListKey
      OBVIOUS
    <3>1. i > 1 /\ ListsPipelines(s[i - 1]) /\ i - 1 \in 1 .. Len(s)
      BY <1>1 DEF PipelinesFollow
    <3> QED BY <3>1, ListsAreOpen
  <2>4. n = NewColumn(l)
    BY <2>1, <2>2, <2>3, OneIndented
  <2>5. l = [key |-> l.key, item |-> l.item, bare |-> l.bare, col |-> l.col]
    BY <2>1 DEF SerdeLines
  <2>6. ToSigmaIndent(s)[i] = [l EXCEPT !.col = n]
    BY <1>1 DEF ToSigmaIndent
  <2> HIDE DEF l, n
  <2>7. [l EXCEPT !.col = n] = [key |-> l.key, item |-> l.item, bare |-> l.bare, col |-> n]
    BY <2>5
  <2> QED BY <2>4, <2>6, <2>7 DEF l
<1> QED BY <1>1, <1>2 DEF ToSigmaIndent

\* What a line belongs to does not change with its column.
LEMMA OwnersStay ==
  ASSUME NEW K, NEW s \in Seq(SerdeLines(K)), NEW t,
         \A i \in 1 .. Len(s) :
           t[i] = [key |-> s[i].key, item |-> s[i].item, bare |-> s[i].bare, col |-> NewColumn(s[i])],
         NEW i \in 1 .. Len(s)
  PROVE  Owners(t, i) = Owners(s, i)
<1>1. Len(s) \in Nat /\ \A k \in 1 .. Len(s) :
        /\ s[k].item \in BOOLEAN /\ s[k].bare \in BOOLEAN /\ s[k].col \in {0, 2}
        /\ s[k].bare => ~s[k].item
  <2>1. \A k \in 1 .. Len(s) : s[k] \in SerdeLines(K)
    OBVIOUS
  <2> QED BY <2>1 DEF SerdeLines
<1>2. ASSUME NEW k \in 1 .. Len(s)
      PROVE  t[k].item = s[k].item /\ t[k].bare = s[k].bare /\ t[k].col = NewColumn(s[k])
  <2> DEFINE a == s[k].key
             b == s[k].item
             c == s[k].bare
             n == NewColumn(s[k])
  <2>1. t[k] = [key |-> a, item |-> b, bare |-> c, col |-> n]
    OBVIOUS
  <2> HIDE DEF a, b, c, n
  <2>2. t[k].item = b /\ t[k].bare = c /\ t[k].col = n
    BY <2>1
  <2> QED BY <2>2 DEF b, c, n
<1>3. \A k \in 1 .. Len(s) :
        /\ (t[k].item /\ s[k].item /\ t[k].col = (IF s[k].col = 0 THEN 4 ELSE 10))
           \/ (~t[k].item /\ ~s[k].item /\ t[k].col = (IF s[k].col = 0 THEN 0 ELSE 6))
        /\ t[k].bare = s[k].bare /\ s[k].bare \in BOOLEAN /\ s[k].col \in {0, 2}
        /\ s[k].bare => ~s[k].item
  BY <1>1, <1>2 DEF NewColumn
<1>4. \A j \in 1 .. (i - 1) : j \in 1 .. Len(s) /\ \A k \in (j + 1) .. (i - 1) : k \in 1 .. Len(s)
  BY <1>1
<1> DEFINE Above(u, k) == u[k].col > u[i].col \/ (u[k].item /\ u[k].col = u[i].col)
           Waits(u, j) == u[j].bare /\ ContentColumn(u[j]) <= u[i].col
           Inside(u, k) == u[k].col >= u[i].col
           Begins(u, j) == u[j].item /\ ContentColumn(u[j]) = u[i].col
           ItemOf(u) == {j \in 1 .. (i - 1) : Waits(u, j) /\ \A k \in (j + 1) .. (i - 1) : Above(u, k)}
           KeyOf(u) == {j \in 1 .. (i - 1) : Begins(u, j) /\ \A k \in (j + 1) .. (i - 1) : Inside(u, k)}
<1>5. \A u : /\ u[i].item => Owners(u, i) = ItemOf(u)
             /\ ~u[i].item /\ u[i].col = 0 => Owners(u, i) = {0}
             /\ ~u[i].item /\ u[i].col # 0 => Owners(u, i) = KeyOf(u)
  BY DEF Owners
<1>6. CASE s[i].item
  <2>1. t[i].item /\ t[i].col = (IF s[i].col = 0 THEN 4 ELSE 10) /\ s[i].col \in {0, 2}
    BY <1>3, <1>6
  <2>2. ASSUME NEW j \in 1 .. (i - 1) PROVE Waits(t, j) <=> Waits(s, j)
    <3>1. /\ (t[j].item /\ s[j].item /\ t[j].col = (IF s[j].col = 0 THEN 4 ELSE 10))
             \/ (~t[j].item /\ ~s[j].item /\ t[j].col = (IF s[j].col = 0 THEN 0 ELSE 6))
          /\ t[j].bare = s[j].bare /\ s[j].bare \in BOOLEAN /\ s[j].col \in {0, 2}
          /\ s[j].bare => ~s[j].item
      BY <1>3, <1>4
    <3> QED BY <2>1, <3>1 DEF ContentColumn
  <2>3. ASSUME NEW j \in 1 .. (i - 1), NEW k \in (j + 1) .. (i - 1) PROVE Above(t, k) <=> Above(s, k)
    <3>1. /\ (t[k].item /\ s[k].item /\ t[k].col = (IF s[k].col = 0 THEN 4 ELSE 10))
             \/ (~t[k].item /\ ~s[k].item /\ t[k].col = (IF s[k].col = 0 THEN 0 ELSE 6))
          /\ s[k].col \in {0, 2}
      BY <1>3, <1>4
    <3> QED BY <2>1, <3>1
  <2> HIDE DEF Waits, Above
  <2>4. ItemOf(t) = ItemOf(s)
    BY <2>2, <2>3
  <2> QED BY <1>5, <1>6, <2>1, <2>4
<1>7. CASE ~s[i].item /\ s[i].col = 0
  <2>1. ~t[i].item /\ t[i].col = 0
    BY <1>3, <1>7
  <2> HIDE DEF ItemOf, KeyOf
  <2> QED BY <1>5, <1>7, <2>1
<1>8. CASE ~s[i].item /\ s[i].col = 2
  <2>1. ~t[i].item /\ t[i].col = 6
    BY <1>3, <1>8
  <2>2. ASSUME NEW j \in 1 .. (i - 1) PROVE Begins(t, j) <=> Begins(s, j)
    <3>1. /\ (t[j].item /\ s[j].item /\ t[j].col = (IF s[j].col = 0 THEN 4 ELSE 10))
             \/ (~t[j].item /\ ~s[j].item /\ t[j].col = (IF s[j].col = 0 THEN 0 ELSE 6))
          /\ s[j].col \in {0, 2}
      BY <1>3, <1>4
    <3> QED BY <1>8, <2>1, <3>1 DEF ContentColumn
  <2>3. ASSUME NEW j \in 1 .. (i - 1), NEW k \in (j + 1) .. (i - 1) PROVE Inside(t, k) <=> Inside(s, k)
    <3>1. /\ (t[k].item /\ s[k].item /\ t[k].col = (IF s[k].col = 0 THEN 4 ELSE 10))
             \/ (~t[k].item /\ ~s[k].item /\ t[k].col = (IF s[k].col = 0 THEN 0 ELSE 6))
          /\ s[k].col \in {0, 2}
      BY <1>3, <1>4
    <3> QED BY <1>8, <2>1, <3>1
  <2> HIDE DEF Begins, Inside
  <2>4. KeyOf(t) = KeyOf(s)
    BY <2>2, <2>3
  <2>5. s[i].col # 0 /\ t[i].col # 0
    BY <1>8, <2>1
  <2> HIDE DEF KeyOf
  <2> QED BY <1>5, <1>8, <2>1, <2>4, <2>5, Zenon
<1>9. s[i].item \/ s[i].col = 0 \/ s[i].col = 2
  BY <1>1
<1> QED
  <2> HIDE DEF Above, Waits, Inside, Begins
  <2> QED BY <1>6, <1>7, <1>8, <1>9, Zenon

\* A test begins with its name, and its keys follow in the second column.
LEMMA TestsBegin ==
  ASSUME NEW K, NEW s, IsSerde(s, K)
  PROVE  \A n \in 6 .. Len(s) :
           \E j \in 6 .. n : s[j].item /\ s[j].col = 0 /\ \A k \in (j + 1) .. n : s[k].col = 2
<1> DEFINE Begun(n) == \E j \in 6 .. n : s[j].item /\ s[j].col = 0
                                          /\ \A k \in (j + 1) .. n : s[k].col = 2
           T == {n \in Nat : n + 6 <= Len(s) => Begun(n + 6)}
<1>1. /\ Len(s) \in Nat /\ \A k \in 1 .. Len(s) : s[k] \in SerdeLines(K)
      /\ Len(s) > 5 => s[6].item /\ s[6].col = 0
      /\ \A i \in 6 .. Len(s) : s[i].item \/ s[i].col = 2
  BY DEF IsSerde
<1>2. \A k \in 1 .. Len(s) : s[k].col = 0 \/ s[k].col = 2
  BY <1>1 DEF SerdeLines
<1>3. 0 \in T
  <2> SUFFICES ASSUME 0 + 6 <= Len(s) PROVE Begun(6)
    OBVIOUS
  <2>1. 6 \in 6 .. 6 /\ s[6].item /\ s[6].col = 0 /\ \A k \in (6 + 1) .. 6 : s[k].col = 2
    BY <1>1
  <2> QED BY <2>1
<1>4. ASSUME NEW n \in Nat, n \in T PROVE n + 1 \in T
  <2> SUFFICES ASSUME (n + 1) + 6 <= Len(s) PROVE Begun((n + 1) + 6)
    OBVIOUS
  <2> DEFINE m == n + 7
  <2>1. (n + 1) + 6 = m /\ m \in 6 .. Len(s) /\ m \in 1 .. Len(s) /\ n + 6 = m - 1
    BY <1>1
  <2>2. CASE s[m].col = 0
    <3>1. m \in 6 .. m /\ s[m].item /\ \A k \in (m + 1) .. m : s[k].col = 2
      BY <1>1, <2>1, <2>2
    <3> HIDE DEF m
    <3> QED BY <2>1, <2>2, <3>1
  <2>3. CASE s[m].col = 2
    <3>1. PICK j \in 6 .. (m - 1) : s[j].item /\ s[j].col = 0
                                    /\ \A k \in (j + 1) .. (m - 1) : s[k].col = 2
      <4>1. Begun(n + 6)
        BY <1>1, <1>4, <2>1
      <4> QED BY <2>1, <4>1
    <3>2. j \in 6 .. m
      BY <2>1
    <3>3. ASSUME NEW k \in (j + 1) .. m PROVE s[k].col = 2
      <4>1. k = m \/ k \in (j + 1) .. (m - 1)
        BY <2>1
      <4> QED BY <2>3, <3>1, <4>1
    <3> HIDE DEF m
    <3> QED BY <2>1, <3>1, <3>2, <3>3
  <2> QED BY <1>2, <2>1, <2>2, <2>3
<1>5. T = Nat
  <2> HIDE DEF T
  <2>1. T \subseteq Nat
    BY DEF T
  <2> QED BY <1>3, <1>4, <2>1, Induct
<1>6. ASSUME NEW n \in 6 .. Len(s) PROVE Begun(n)
  <2>1. n - 6 \in Nat /\ (n - 6) + 6 = n /\ n <= Len(s)
    BY <1>1
  <2>2. n - 6 \in T
    BY <1>5, <2>1
  <2> HIDE DEF Begun
  <2> QED BY <2>1, <2>2
<1> QED BY <1>6

\* Pipelines follow the key that lists them.
LEMMA ListsBegin ==
  ASSUME NEW K, NEW s \in Seq(SerdeLines(K)), PipelinesFollow(s)
  PROVE  \A n \in 1 .. Len(s) : ListsPipelines(s[n]) =>
           \E j \in 1 .. n : s[j].bare /\ s[j].col = 2
                             /\ \A k \in (j + 1) .. n : s[k].item /\ s[k].col = 2
<1> DEFINE Begun(n) == \E j \in 1 .. n : s[j].bare /\ s[j].col = 2
                                          /\ \A k \in (j + 1) .. n : s[k].item /\ s[k].col = 2
           T == {n \in Nat : n > 0 /\ n <= Len(s) /\ ListsPipelines(s[n]) => Begun(n)}
<1>1. Len(s) \in Nat /\ DOMAIN s = 1 .. Len(s)
  OBVIOUS
<1>2. 0 \in T
  OBVIOUS
<1>3. ASSUME NEW n \in Nat, n \in T PROVE n + 1 \in T
  <2> DEFINE m == n + 1
  <2> SUFFICES ASSUME m <= Len(s), ListsPipelines(s[m]) PROVE Begun(m)
    OBVIOUS
  <2>1. m \in 1 .. Len(s) /\ n = m - 1 /\ m \in 1 .. m
    BY <1>1
  <2>2. s[m].col = 2 /\ (s[m].bare \/ s[m].item)
    BY DEF ListsPipelines
  <2>3. CASE s[m].bare
    <3>1. \A k \in (m + 1) .. m : s[k].item /\ s[k].col = 2
      BY <2>1
    <3> HIDE DEF m
    <3> QED BY <2>1, <2>2, <2>3, <3>1
  <2>4. CASE s[m].item
    <3>1. m > 1 /\ ListsPipelines(s[m - 1])
      <4> HIDE DEF m
      <4> QED BY <1>1, <2>1, <2>2, <2>4 DEF PipelinesFollow, IsPipeline
    <3>2. PICK j \in 1 .. (m - 1) : s[j].bare /\ s[j].col = 2
                                    /\ \A k \in (j + 1) .. (m - 1) : s[k].item /\ s[k].col = 2
      <4>1. Begun(n)
        <5> HIDE DEF Begun
        <5> QED BY <1>1, <1>3, <2>1, <3>1
      <4> QED BY <2>1, <4>1
    <3>3. j \in 1 .. m
      BY <2>1
    <3>4. ASSUME NEW k \in (j + 1) .. m PROVE s[k].item /\ s[k].col = 2
      <4>1. k = m \/ k \in (j + 1) .. (m - 1)
        BY <2>1
      <4> QED BY <2>2, <2>4, <3>2, <4>1
    <3> HIDE DEF m
    <3> QED BY <3>2, <3>3, <3>4
  <2> QED BY <2>2, <2>3, <2>4
<1>4. T = Nat
  <2> HIDE DEF T
  <2>1. T \subseteq Nat
    BY DEF T
  <2> QED BY <1>2, <1>3, <2>1, Induct
<1>5. ASSUME NEW n \in 1 .. Len(s), ListsPipelines(s[n]) PROVE Begun(n)
  <2>1. n \in T /\ n > 0 /\ n <= Len(s)
    BY <1>1, <1>4
  <2> HIDE DEF Begun
  <2> QED BY <1>5, <2>1
<1> QED BY <1>5

\* serde_yaml writes no line that belongs nowhere.
LEMMA SerdeNests ==
  ASSUME NEW K, NEW s, IsSerde(s, K), NEW i \in 1 .. Len(s)
  PROVE  Owners(s, i) # {}
<1>1. /\ s \in Seq(SerdeLines(K)) /\ PipelinesFollow(s) /\ Len(s) \in Nat /\ DOMAIN s = 1 .. Len(s)
      /\ Len(s) >= 5
  BY DEF IsSerde
<1>2. \A k \in 1 .. Len(s) : /\ s[k].item \in BOOLEAN /\ s[k].bare \in BOOLEAN
                             /\ s[k].col = 0 \/ s[k].col = 2
                             /\ s[k].bare => ~s[k].item
  <2>1. \A k \in 1 .. Len(s) : s[k] \in SerdeLines(K)
    BY <1>1
  <2> QED BY <2>1 DEF SerdeLines
<1>3. ASSUME NEW j \in 1 .. (i - 1), s[i].item,
             s[j].bare, ContentColumn(s[j]) <= s[i].col,
             \A k \in (j + 1) .. (i - 1) : s[k].col > s[i].col \/ (s[k].item /\ s[k].col = s[i].col)
      PROVE  Owners(s, i) # {}
  <2>1. j \in Owners(s, i)
    BY <1>3 DEF Owners
  <2> QED BY <2>1
<1>4. ASSUME NEW j \in 1 .. (i - 1), ~s[i].item, s[i].col # 0,
             s[j].item, ContentColumn(s[j]) = s[i].col,
             \A k \in (j + 1) .. (i - 1) : s[k].col >= s[i].col
      PROVE  Owners(s, i) # {}
  <2>1. j \in Owners(s, i)
    BY <1>4 DEF Owners
  <2> QED BY <2>1
<1>5. CASE ~s[i].item /\ s[i].col = 0
  <2>1. Owners(s, i) = {0}
    BY <1>5 DEF Owners
  <2> QED BY <2>1
<1>6. CASE i = 3
  <2>1. 2 \in 1 .. (i - 1) /\ 2 \in 1 .. Len(s) /\ s[i].item /\ s[2].bare /\ s[i].col = 0 /\ s[2].col = 0
        /\ ~s[2].item /\ (2 + 1) .. (i - 1) = {}
    BY <1>1, <1>6 DEF IsSerde
  <2>2. ContentColumn(s[2]) <= s[i].col
    BY <2>1 DEF ContentColumn
  <2> QED BY <1>3, <2>1, <2>2
<1>7. CASE i = 4
  <2>1. 3 \in 1 .. (i - 1) /\ ~s[i].item /\ s[i].col = 2 /\ s[3].item /\ s[3].col = 0
        /\ (3 + 1) .. (i - 1) = {}
    BY <1>1, <1>7 DEF IsSerde
  <2>2. ContentColumn(s[3]) = s[i].col /\ s[i].col # 0
    BY <2>1 DEF ContentColumn
  <2> QED BY <1>4, <2>1, <2>2
<1>8. CASE i \in 6 .. Len(s) /\ s[i].item /\ s[i].col = 0
  <2>1. 5 \in 1 .. (i - 1) /\ s[5].bare /\ ~s[5].item /\ s[5].col = 0
    BY <1>1, <1>8 DEF IsSerde
  <2>2. ContentColumn(s[5]) <= s[i].col
    BY <1>8, <2>1 DEF ContentColumn
  <2>3. ASSUME NEW k \in (5 + 1) .. (i - 1)
        PROVE  s[k].col > s[i].col \/ (s[k].item /\ s[k].col = s[i].col)
    <3>1. k \in 6 .. Len(s) /\ k \in 1 .. Len(s)
      BY <1>1
    <3>2. s[k].item \/ s[k].col = 2
      BY <3>1 DEF IsSerde
    <3>3. s[k].col = 0 \/ s[k].col = 2
      BY <1>2, <3>1
    <3> QED BY <1>8, <3>2, <3>3
  <2> QED BY <1>3, <1>8, <2>1, <2>2, <2>3
<1>9. CASE i \in 6 .. Len(s) /\ ~s[i].item /\ s[i].col = 2
  <2>1. i # 6
    BY <1>1, <1>9 DEF IsSerde
  <2>2. i - 1 \in 6 .. Len(s)
    BY <1>1, <1>9, <2>1
  <2>3. PICK j \in 6 .. (i - 1) : s[j].item /\ s[j].col = 0
                                  /\ \A k \in (j + 1) .. (i - 1) : s[k].col = 2
    <3>1. \A n \in 6 .. Len(s) :
            \E j \in 6 .. n : s[j].item /\ s[j].col = 0 /\ \A k \in (j + 1) .. n : s[k].col = 2
      BY TestsBegin
    <3> QED BY <2>2, <3>1, Zenon
  <2>4. j \in 1 .. (i - 1)
    BY <2>2
  <2>5. ContentColumn(s[j]) = s[i].col /\ s[i].col # 0
    BY <1>9, <2>3 DEF ContentColumn
  <2>6. \A k \in (j + 1) .. (i - 1) : s[k].col >= s[i].col
    BY <1>9, <2>3
  <2> QED BY <1>4, <1>9, <2>3, <2>4, <2>5, <2>6
<1>10. CASE s[i].item /\ s[i].col = 2
  <2>1. i > 1 /\ ListsPipelines(s[i - 1]) /\ i - 1 \in 1 .. Len(s)
    <3>1. i > 1 /\ ListsPipelines(s[i - 1])
      BY <1>1, <1>10 DEF PipelinesFollow, IsPipeline
    <3> QED BY <1>1, <3>1
  <2>2. PICK j \in 1 .. (i - 1) : s[j].bare /\ s[j].col = 2
                                  /\ \A k \in (j + 1) .. (i - 1) : s[k].item /\ s[k].col = 2
    BY <1>1, <2>1, ListsBegin
  <2>3. ContentColumn(s[j]) <= s[i].col
    <3>1. j \in 1 .. Len(s)
      BY <1>1, <2>1
    <3>2. ~s[j].item
      BY <1>2, <2>2, <3>1
    <3> QED BY <1>10, <2>2, <3>2 DEF ContentColumn
  <2>4. \A k \in (j + 1) .. (i - 1) : s[k].col > s[i].col \/ (s[k].item /\ s[k].col = s[i].col)
    BY <1>10, <2>2
  <2> QED BY <1>3, <1>10, <2>2, <2>3, <2>4
<1>11. CASE i \in {1, 2, 5}
  <2>1. ~s[i].item /\ s[i].col = 0
    BY <1>11 DEF IsSerde
  <2> QED BY <1>5, <2>1
<1>12. i \in {1, 2, 5} \/ i = 3 \/ i = 4 \/ i \in 6 .. Len(s)
  BY <1>1
<1>13. s[i].col = 0 \/ s[i].col = 2
  BY <1>2
<1> QED BY <1>5, <1>6, <1>7, <1>8, <1>9, <1>10, <1>11, <1>12, <1>13, Zenon

\* The canonical layout nests as serde_yaml nested it, and lines that are called the same
\* are in the same column.
LEMMA CanonicalNests ==
  ASSUME NEW tests, IsTestList(tests)
  PROVE  LET canonical == Canonical(tests)
             n == Len(Serde(tests))
         IN  /\ n \in Nat \ {0} /\ DOMAIN canonical = 1 .. n
             /\ \A i \in 1 .. n : Owners(canonical, i) # {}
             /\ Nesting(canonical) = Nesting(Serde(tests))
             /\ \A i, j \in 1 .. n :
                  canonical[i].key = canonical[j].key /\ canonical[i].item = canonical[j].item =>
                    canonical[i].col = canonical[j].col
<1> DEFINE s == Serde(tests)
           c == ToSigmaIndent(s)
           n == Len(s)
           K == KeysOf(tests)
<1>1. IsSerde(s, K)
  BY SerdeShape
<1>2. Canonical(tests) = c
  BY DEF Canonical
<1> HIDE DEF s, K, c
<1>3. /\ s \in Seq(SerdeLines(K)) /\ PipelinesFollow(s) /\ n \in Nat \ {0} /\ DOMAIN s = 1 .. n
      /\ \A i \in 1 .. n : s[i] \in SerdeLines(K)
  BY <1>1 DEF IsSerde
<1>4. /\ DOMAIN c = 1 .. n
      /\ \A i \in 1 .. n : c[i] = [key |-> s[i].key, item |-> s[i].item, bare |-> s[i].bare,
                                   col |-> NewColumn(s[i])]
  BY <1>3, Indented DEF c
<1>5. \A i \in 1 .. n : Owners(c, i) = Owners(s, i)
  BY <1>3, <1>4, OwnersStay
<1>6. \A i \in 1 .. n : Owners(s, i) # {}
  BY <1>1, SerdeNests
<1>7. Nesting(c) = Nesting(s)
  BY <1>3, <1>4, <1>5 DEF Nesting
<1>8. ASSUME NEW i \in 1 .. n, NEW j \in 1 .. n, c[i].key = c[j].key, c[i].item = c[j].item
      PROVE  c[i].col = c[j].col
  <2>1. /\ c[i].key = s[i].key /\ c[i].item = s[i].item /\ c[i].col = NewColumn(s[i])
        /\ c[j].key = s[j].key /\ c[j].item = s[j].item /\ c[j].col = NewColumn(s[j])
    <3>1. \A k \in 1 .. n : c[k].key = s[k].key /\ c[k].item = s[k].item /\ c[k].col = NewColumn(s[k])
      <4> SUFFICES ASSUME NEW k \in 1 .. n
                   PROVE  c[k].key = s[k].key /\ c[k].item = s[k].item /\ c[k].col = NewColumn(s[k])
        OBVIOUS
      <4> DEFINE col == NewColumn(s[k])
      <4>1. c[k] = [key |-> s[k].key, item |-> s[k].item, bare |-> s[k].bare, col |-> col]
        BY <1>4
      <4> HIDE DEF col
      <4>2. c[k].key = s[k].key /\ c[k].item = s[k].item /\ c[k].col = col
        BY <4>1
      <4> QED BY <4>2 DEF col
    <3> QED BY <3>1
  <2>2. /\ s[i].key = s[j].key /\ s[i].item = s[j].item
        /\ s[i] \in SerdeLines(K) /\ s[j] \in SerdeLines(K)
    BY <1>3, <1>8, <2>1
  <2>3. /\ s[i].item \in BOOLEAN /\ s[j].item \in BOOLEAN
        /\ s[i].col = 0 <=> s[j].col = 0
    BY <2>2 DEF SerdeLines
  <2>4. NewColumn(s[i]) = NewColumn(s[j])
    BY <2>2, <2>3 DEF NewColumn
  <2> QED BY <2>1, <2>4
<1> QED BY <1>2, <1>3, <1>4, <1>5, <1>6, <1>7, <1>8 DEF s

-----------------------------------------------------------------------------
(* How a fixed file is read.                                               *)

\* A file of the canonical lines in which no line has to be moved is the canonical one.
LEMMA FixedNests ==
  ASSUME NEW tests, IsTestList(tests), NEW lines, \A i \in DOMAIN lines : IsLine(lines[i]),
         SameLines(lines, Canonical(tests)),
         AllKnown(lines, Canonical(tests)) => ~NeedsReindent(lines, Canonical(tests))
  PROVE  /\ WellNested(lines) /\ Nesting(Canonical(tests)) = Nesting(Serde(tests))
         /\ Nesting(lines) = Nesting(Canonical(tests))
<1> DEFINE c == Canonical(tests)
           n == Len(Serde(tests))
<1>1. /\ n \in Nat \ {0} /\ DOMAIN c = 1 .. n /\ DOMAIN lines = 1 .. n
      /\ \A i \in 1 .. n : Owners(c, i) # {}
      /\ Nesting(c) = Nesting(Serde(tests))
      /\ \A i, j \in 1 .. n : c[i].key = c[j].key /\ c[i].item = c[j].item => c[i].col = c[j].col
  BY CanonicalNests DEF SameLines
<1>2. ASSUME NEW i \in 1 .. n
      PROVE  /\ i \in Known(lines[i], c) /\ CanonicalIndent(lines[i], c) = c[i].col
  <2> DEFINE known == Known(lines[i], c)
  <2>1. lines[i].key = c[i].key /\ lines[i].item = c[i].item
    BY <1>1 DEF SameLines
  <2>2. /\ known \subseteq 1 .. n /\ i \in known
        /\ \A j \in known : c[j].key = c[i].key /\ c[j].item = c[i].item
    BY <1>1, <2>1 DEF Known
  <2>3. Min(known) \in known
    <3>1. known \subseteq Nat /\ known # {}
      BY <1>1, <2>2
    <3> HIDE DEF known
    <3> QED BY <3>1, Least
  <2>4. CanonicalIndent(lines[i], c) = c[Min(known)].col
    BY DEF CanonicalIndent
  <2> HIDE DEF known, c
  <2>5. c[Min(known)].col = c[i].col
    BY <1>1, <2>2, <2>3
  <2> QED BY <2>2, <2>4, <2>5 DEF known
<1>3. \A i \in 1 .. n : lines[i].col = c[i].col
  <2>1. AllKnown(lines, c)
    BY <1>1, <1>2 DEF AllKnown
  <2>2. ~NeedsReindent(lines, c)
    BY <2>1
  <2> HIDE DEF c
  <2> QED BY <1>1, <1>2, <2>2 DEF NeedsReindent, Misplaced
<1> HIDE DEF c
<1>4. \A i \in 1 .. n : /\ lines[i].item = c[i].item /\ lines[i].bare = c[i].bare
                        /\ lines[i].col = c[i].col
  BY <1>1, <1>3 DEF SameLines, c
<1>5. ASSUME NEW i \in 1 .. n PROVE Owners(lines, i) = Owners(c, i)
  <2> DEFINE Above(u, k) == u[k].col > u[i].col \/ (u[k].item /\ u[k].col = u[i].col)
             Waits(u, j) == u[j].bare /\ ContentColumn(u[j]) <= u[i].col
             Inside(u, k) == u[k].col >= u[i].col
             Begins(u, j) == u[j].item /\ ContentColumn(u[j]) = u[i].col
             ItemOf(u) == {j \in 1 .. (i - 1) : Waits(u, j) /\ \A k \in (j + 1) .. (i - 1) : Above(u, k)}
             KeyOf(u) == {j \in 1 .. (i - 1) : Begins(u, j) /\ \A k \in (j + 1) .. (i - 1) : Inside(u, k)}
  <2>1. \A u : /\ u[i].item => Owners(u, i) = ItemOf(u)
               /\ ~u[i].item /\ u[i].col = 0 => Owners(u, i) = {0}
               /\ ~u[i].item /\ u[i].col # 0 => Owners(u, i) = KeyOf(u)
    BY DEF Owners
  <2>2. \A j \in 1 .. (i - 1) : j \in 1 .. n /\ \A k \in (j + 1) .. (i - 1) : k \in 1 .. n
    BY <1>1
  <2>3. \A j \in 1 .. (i - 1) : Waits(lines, j) = Waits(c, j) /\ Begins(lines, j) = Begins(c, j)
    BY <1>4, <2>2 DEF ContentColumn
  <2>4. \A j \in 1 .. (i - 1) : \A k \in (j + 1) .. (i - 1) :
          Above(lines, k) = Above(c, k) /\ Inside(lines, k) = Inside(c, k)
    BY <1>4, <2>2
  <2> HIDE DEF Above, Waits, Inside, Begins
  <2>5. ItemOf(lines) = ItemOf(c) /\ KeyOf(lines) = KeyOf(c)
    BY <2>3, <2>4
  <2>6. lines[i].item = c[i].item /\ lines[i].col = c[i].col
    BY <1>4
  <2> HIDE DEF ItemOf, KeyOf
  <2>7. /\ c[i].item => Owners(c, i) = ItemOf(c) /\ Owners(lines, i) = ItemOf(lines)
        /\ ~c[i].item /\ c[i].col = 0 => Owners(c, i) = {0} /\ Owners(lines, i) = {0}
        /\ ~c[i].item /\ c[i].col # 0 => Owners(c, i) = KeyOf(c) /\ Owners(lines, i) = KeyOf(lines)
    BY <2>1, <2>6
  <2>8. CASE c[i].item
    BY <2>5, <2>7, <2>8
  <2>9. CASE ~c[i].item /\ c[i].col = 0
    BY <2>7, <2>9
  <2>10. CASE ~c[i].item /\ c[i].col # 0
    BY <2>5, <2>7, <2>10
  <2> QED BY <2>8, <2>9, <2>10, Zenon
<1>6. lines # <<>>
  BY <1>1
<1> QED BY <1>1, <1>5, <1>6 DEF WellNested, Nesting, c

\* The tests of every directory are among those with a canonical layout.
TestsInv ==
  /\ \A r \in Rules : tree[r] # None => tree[r].tests \in TestLists
  /\ pc \in {"fixing", "fixed"} =>
       /\ \A r \in entries : r \in Rules /\ tree[r].tests \in TestLists
       /\ \A r \in Rules, file \in {"json", "info"} : <<r, file>> \in todo => r \in entries

LEMMA TestListsAre ==
  ASSUME TestListAssumption, NEW tests \in TestLists
  PROVE  IsTestList(tests) /\ CanonicalYaml[tests] = Canonical(tests)
<1>1. ASSUME NEW kind \in Kinds PROVE IsTestList(<<InfoOf(kind)>>)
  <2> DEFINE t == InfoOf(kind)
  <2>1. t.pipelines = <<>>
    BY DEF InfoOf
  <2>2. <<>> \in Seq(Range(<<>>) \ {"id", "name"})
    OBVIOUS
  <2> HIDE DEF t
  <2>3. Range(<<t>>) = {t} /\ <<t>> \in Seq({t})
    BY DEF Range
  <2> QED BY <2>1, <2>2, <2>3 DEF IsTestList, t
<1>2. ASSUME \E r \in Rules : \E d \in Committed[r] \ {None} : tests = d.tests
      PROVE  IsTestList(tests)
  <2>1. PICK r \in Rules : \E d \in Committed[r] \ {None} : tests = d.tests
    BY <1>2
  <2>2. \A d \in Committed[r] \ {None} : IsTestList(d.tests)
    BY TestListAssumption DEF TestListAssumption
  <2> QED BY <2>1, <2>2
<1>3. IsTestList(tests)
  <2>1. \/ \E d \in (UNION {Committed[r] : r \in Rules}) \ {None} : tests = d.tests
        \/ \E kind \in Kinds : tests = <<InfoOf(kind)>>
    BY DEF TestLists
  <2>2. CASE \E kind \in Kinds : tests = <<InfoOf(kind)>>
    BY <1>1, <2>2
  <2>3. CASE \E d \in (UNION {Committed[r] : r \in Rules}) \ {None} : tests = d.tests
    <3>1. PICK d \in (UNION {Committed[r] : r \in Rules}) \ {None} : tests = d.tests
      BY <2>3
    <3>2. PICK r \in Rules : d \in Committed[r]
      OBVIOUS
    <3>3. d \in Committed[r] \ {None}
      BY <3>2
    <3>4. \E q \in Rules : \E e \in Committed[q] \ {None} : tests = e.tests
      BY <3>1, <3>3
    <3> QED BY <1>2, <3>4
  <2> QED BY <2>1, <2>2, <2>3
<1> QED BY <1>3 DEF CanonicalYaml

LEMMA TestsStep ==
  ASSUME TreeInv, TestsInv, [Next]_vars
  PROVE  TestsInv'
<1>1. ASSUME tree' = tree, pc' \notin {"fixing", "fixed"} PROVE TestsInv'
  BY <1>1 DEF TestsInv
<1>2. ASSUME tree' = tree, entries' = entries, todo' \subseteq todo, pc \in {"fixing", "fixed"}
      PROVE  TestsInv'
  BY <1>2 DEF TestsInv
<1>3. ASSUME NEW r \in Rules, NEW d, d.tests \in TestLists, tree' = [tree EXCEPT ![r] = d],
             pc' \in {"fixing", "fixed"} =>
               pc \in {"fixing", "fixed"} /\ entries' = entries /\ todo' \subseteq todo
      PROVE  TestsInv'
  <2>1. \A q \in Rules : tree'[q] = IF q = r THEN d ELSE tree[q]
    BY <1>3 DEF TreeInv, PerRule
  <2> QED BY <1>3, <2>1 DEF TestsInv
<1>4. ASSUME NEW r \in Rules, NEW file \in {"json", "info"}, pc = "fixing", <<r, file>> \in todo,
             \/ \E f : tree' = [tree EXCEPT ![r].files["json"] = f]
             \/ \E l : tree' = [tree EXCEPT ![r].lines = l],
             pc' = "fixing" => entries' = entries /\ todo' \subseteq todo, pc' # "fixed"
      PROVE  TestsInv'
  <2> DEFINE t == tree[r]
  <2>1. IsDirectory(t) /\ t.tests \in TestLists
    <3>1. ToFix(todo, tree)
      BY <1>4 DEF TreeInv
    <3> QED BY <1>4, <3>1 DEF ToFix, TestsInv
  <2>2. \E d : tree' = [tree EXCEPT ![r] = d] /\ d.tests = t.tests
    <3>1. CASE \E f : tree' = [tree EXCEPT ![r].files["json"] = f]
      <4>1. PICK f : tree' = [tree EXCEPT ![r].files["json"] = f]
        BY <3>1
      <4> DEFINE d == [lines |-> t.lines, tests |-> t.tests, files |-> [t.files EXCEPT !["json"] = f]]
      <4>2. tree' = [tree EXCEPT ![r] = d]
        BY <2>1, <4>1, PartWritten
      <4>3. d.tests = t.tests
        OBVIOUS
      <4> QED BY <4>2, <4>3
    <3>2. CASE \E l : tree' = [tree EXCEPT ![r].lines = l]
      <4>1. PICK l : tree' = [tree EXCEPT ![r].lines = l]
        BY <3>2
      <4> DEFINE d == [lines |-> l, tests |-> t.tests, files |-> t.files]
      <4>2. tree' = [tree EXCEPT ![r] = d]
        BY <2>1, <4>1, PartWritten
      <4>3. d.tests = t.tests
        OBVIOUS
      <4> QED BY <4>2, <4>3
    <3> QED BY <1>4, <3>1, <3>2
  <2>3. PICK d : tree' = [tree EXCEPT ![r] = d] /\ d.tests = t.tests
    BY <2>2
  <2> QED BY <1>3, <1>4, <2>1, <2>3
<1>5. ASSUME NEW r \in Rules, NEW kind \in Kinds, NEW withJson \in BOOLEAN,
             NEW hits \in [Rules -> 0 .. 2], Generate(r, kind, withJson, hits)
      PROVE  TestsInv'
  <2> DEFINE old == IF tree[r] = None THEN NoFiles ELSE tree[r].files
             tests == <<InfoOf(kind)>>
             d == [lines |-> CanonicalYaml[tests], tests |-> tests,
                   files |-> [old EXCEPT ![Format(kind)] = DataFile(kind, hits),
                                         !["json"] = IF withJson THEN JsonFile(kind, hits) ELSE @]]
  <2>1. tree' = [tree EXCEPT ![r] = d] /\ pc' \notin {"fixing", "fixed"}
    BY <1>5 DEF Generate
  <2>2. d.tests = tests /\ tests \in TestLists
    BY DEF TestLists
  <2> HIDE DEF d
  <2> QED BY <1>3, <2>1, <2>2
<1>6. ASSUME NEW r \in Rules, FixJson(r) PROVE TestsInv'
  <2>1. /\ pc = "fixing" /\ pc' = pc /\ <<r, "json">> \in todo /\ todo' \subseteq todo
        /\ entries' = entries
        /\ tree' = [tree EXCEPT ![r].files["json"] = FixedJson(tree[r].files["json"])]
    BY <1>6 DEF FixJson
  <2> QED BY <1>4, <2>1
<1>7. ASSUME NEW r \in Rules, FixInfo(r) PROVE TestsInv'
  <2>1. /\ pc = "fixing" /\ pc' = pc /\ <<r, "info">> \in todo /\ todo' \subseteq todo
        /\ entries' = entries
        /\ \/ tree' = tree
           \/ tree' = [tree EXCEPT ![r].lines = Reindent(tree[r].lines, CanonicalYaml[tree[r].tests])]
    BY <1>7 DEF FixInfo
  <2> QED BY <1>2, <1>4, <2>1
<1>8. ASSUME NEW r \in Rules, NEW file \in {"json", "info"}, FixKilled(r, file) PROVE TestsInv'
  <2>1. /\ pc = "fixing" /\ pc' = "idle" /\ <<r, file>> \in todo
        /\ \/ tree' = [tree EXCEPT ![r].files["json"] = Nothing]
           \/ tree' = [tree EXCEPT ![r].lines = <<>>]
    BY <1>8 DEF FixKilled, Written, Tear
  <2> QED BY <1>4, <2>1
<1>9. ASSUME NEW r \in Rules, NEW file \in {"json", "info"}, FixFails(r, file) PROVE TestsInv'
  BY <1>2, <1>9 DEF FixFails, disk
<1>10. CASE StartFix
  <2>1. /\ pc' = "fixing" /\ tree' = tree /\ entries' = Entries
        /\ todo' = {<<r, "json">> : r \in {q \in Entries : tree[q].files["json"] # None}}
                   \cup {<<r, "info">> : r \in Entries}
    BY <1>10 DEF StartFix, disk
  <2>2. \A r \in Entries : r \in Rules /\ tree[r] # None
    BY DEF Entries, Loads
  <2>3. \A r \in Rules, file \in {"json", "info"} : <<r, file>> \in todo' => r \in entries'
    BY <2>1
  <2> QED BY <2>1, <2>2, <2>3 DEF TestsInv
<1>11. CASE FinishFix
  BY <1>2, <1>11 DEF FinishFix, disk
<1>12. CASE UNCHANGED vars
  BY <1>12 DEF vars, disk, TestsInv
<1>13. ASSUME NEW r \in Rules, CheckEntry(r) PROVE TestsInv'
  BY <1>1, <1>13 DEF CheckEntry, disk
<1>14. ASSUME NEW i \in BOOLEAN, StartCheck(i) PROVE TestsInv'
  BY <1>1, <1>14 DEF StartCheck, disk
<1>15. CASE FinishCheck \/ Leave
  BY <1>1, <1>15 DEF FinishCheck, Leave, disk
<1> QED BY <1>5, <1>6, <1>7, <1>8, <1>9, <1>10, <1>11, <1>12, <1>13, <1>14, <1>15 DEF Next

\* What --fix could write is canonical, and a second --fix finds nothing to do; a directory
\* that the program wrote is canonical from the start; and a file of the lines that
\* serde_yaml writes for its tests, however it was indented, nests as serde_yaml nested
\* them, whatever the tests and their pipelines are (bin/regressiondata-check.rs,
\* reindent_yaml and fix_json_newlines; regression/info.rs, save and to_sigma_indent).
THEOREM FixLeavesCanonical == Spec => []FixSettles
<1> DEFINE Inv == TreeInv /\ FreshInv /\ SettledInv /\ TestsInv
<1>1. Init => Inv
  <2> SUFFICES ASSUME Init PROVE Inv
    OBVIOUS
  <2>1. TestsInv
    <3>1. pc = "idle" /\ \A r \in Rules : tree[r] \in Committed[r]
      BY DEF Init
    <3>2. ASSUME NEW r \in Rules, tree[r] # None PROVE tree[r].tests \in TestLists
      <4>1. tree[r] \in (UNION {Committed[q] : q \in Rules}) \ {None}
        BY <3>1, <3>2
      <4> QED BY <4>1 DEF TestLists
    <3> QED BY <3>1, <3>2 DEF TestsInv
  <2> QED BY <2>1, CommittedDataAssumption, TreeInit, FreshInit DEF Init, SettledInv
<1>2. Inv /\ [Next]_vars => Inv'
  BY CommittedDataAssumption, TreeStep, FreshStep, SettledStep, TestsStep
<1>3. Inv => FixSettles
  <2> SUFFICES ASSUME Inv PROVE FixSettles
    OBVIOUS
  <2>1. \A r \in fresh : ~NeedsReindent(tree[r].lines, CanonicalYaml[tree[r].tests])
    BY CommittedDataAssumption, FreshStays
  <2>2. FixedIsCanonical
    BY <2>1 DEF FixedIsCanonical, SettledInv
  <2>3. ASSUME pc = "fixed", NEW r \in entries, <<r, "info">> \notin spoilt,
               SameLines(tree[r].lines, CanonicalYaml[tree[r].tests])
        PROVE  LET d == tree[r]
                   canonical == CanonicalYaml[d.tests]
               IN  /\ WellNested(d.lines) /\ Nesting(canonical) = Nesting(Serde(d.tests))
                   /\ Nesting(d.lines) = Nesting(canonical)
    <3> DEFINE lines == tree[r].lines
               tests == tree[r].tests
    <3>1. tests \in TestLists /\ \A i \in DOMAIN lines : IsLine(lines[i])
      BY <2>3 DEF TestsInv, SettledInv, IsDirectory
    <3>2. IsTestList(tests) /\ CanonicalYaml[tests] = Canonical(tests)
      BY <3>1, TestListAssumption, TestListsAre
    <3>3. AllKnown(lines, CanonicalYaml[tests]) => ~NeedsReindent(lines, CanonicalYaml[tests])
      BY <2>3 DEF SettledInv
    <3>4. SameLines(lines, Canonical(tests))
      BY <2>3, <3>2
    <3> HIDE DEF lines, tests
    <3>5. /\ WellNested(lines) /\ Nesting(Canonical(tests)) = Nesting(Serde(tests))
          /\ Nesting(lines) = Nesting(Canonical(tests))
      BY <3>1, <3>2, <3>3, <3>4, FixedNests
    <3> QED BY <3>2, <3>5 DEF lines, tests
  <2> QED BY <2>2, <2>3 DEF FixSettles
<1> QED BY <1>1, <1>2, <1>3, PTL DEF Spec
=============================================================================
