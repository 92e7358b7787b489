--------------------------- MODULE CommittedData ---------------------------
(***************************************************************************)
(* The committed regression data: what the program writes for a rule, and  *)
(* what regressiondata-check makes of it - the validation, entry by entry, *)
(* through one detection engine, and --fix, which rewrites files in place. *)
(*                                                                         *)
(* The tree holds a directory per rule.  Its info.yml is a layout          *)
(* (InfoLayout; empty when the text is torn) with the tests it declares.   *)
(* Of a data file matters what it is, how many events it holds, how often  *)
(* each rule matches them, and with how many newlines it ends.             *)
(***************************************************************************)
EXTENDS InfoLayout, FiniteSets

CONSTANTS Rules,       \* the ids of the rules
          Windows,     \* those of product windows; the others are of Linux
          Committed,   \* the directories a clone may hold, per rule: [Rules -> set]
          RuleFiles,   \* the rule files it may hold, per rule: [Rules -> set]
          None

VARIABLES
  tree,      \* the directory of every rule, or None
  rule,      \* the rule file: does it parse, does it compile, which path it names
  pc, ignore,
  entries,   \* SigmahqRegression::entries: the directories that were loaded
  todo,      \* entries, or files, still to be worked on
  alerts,    \* the alerts in the engine, per rule
  verdict,   \* what was found of every entry
  count,     \* the counters of the report
  exit,      \* the exit code
  spoilt,    \* files that --fix could not write
  fresh      \* rules whose files were all written here and not torn since

disk == <<tree, rule, fresh>>
report == <<ignore, alerts, verdict, count>>
vars == <<disk, pc, entries, todo, report, exit, spoilt>>

Extensions == <<"evtx", "log", "raw", "json">>     \* DATA_EXTENSIONS, by precedence
NoFiles == [ext \in {"evtx", "log", "raw", "json"} |-> None]
NoAlerts == [r \in Rules |-> 0]
NoCount == [total |-> 0, passed |-> 0, skipped |-> 0, ignored |-> 0, failed |-> 0,
            missing |-> 0, mismatched |-> 0]

\* What a file is; a JSON document of several lines is no ndjson.
Contents == {"evtx", "audit", "text", "ndjson", "document", "garbage", "nothing"}

\* A data file, or the JSON export.
DataFiles == [holds : Contents, events : Nat, hits : [Rules -> Nat], ends : Nat]

\* What the validation of an entry may end with before its events are replayed.
Findings == {"json", "layout", "no tests", "paths", "no data", "not evtx", "raw", "empty"}

IsLine(l) == l = [key |-> l.key, item |-> l.item, bare |-> l.bare, col |-> l.col]

IsDirectory(d) == /\ d = [lines |-> d.lines, tests |-> d.tests, files |-> d.files]
                  /\ \A i \in DOMAIN d.lines : IsLine(d.lines[i])
                  /\ d.files \in [DOMAIN NoFiles -> DataFiles \cup {None}]

IsRuleFile(f) == f \in [there : BOOLEAN, parses : BOOLEAN, compiles : BOOLEAN,
                        names : Rules \cup {None, "nowhere"}]

ASSUME CommittedDataAssumption ==
  /\ IsFiniteSet(Rules) /\ Windows \subseteq Rules
  /\ None \notin Rules \cup DataFiles \cup DOMAIN NoFiles \cup Findings
  /\ \A r \in Rules : /\ \A d \in Committed[r] \ {None} : IsDirectory(d)
                      /\ \A f \in RuleFiles[r] : IsRuleFile(f)

\* A pipeline is named by the path of its file, which is not the name of a key.
IsTestList(tests) ==
  /\ tests \in Seq(Range(tests))
  /\ \A t \in Range(tests) : t.pipelines \in Seq(Range(t.pipelines) \ {"id", "name"})

ASSUME TestListAssumption ==
  \A r \in Rules : \A d \in Committed[r] \ {None} : IsTestList(d.tests)

\* A clone has no evtx file of a Linux rule: resolve_data_file would prefer it to the log.
ASSUME LinuxAssumption ==
  \A r \in Rules \ Windows : \A d \in Committed[r] \ {None} : d.files["evtx"] = None

Kinds == {"evtx", "audit line", "audit group", "text"}
Format(kind) == IF kind = "evtx" THEN "evtx" ELSE "log"
InfoOf(kind) == [type |-> Format(kind), count |-> 1, path |-> Format(kind),
                 pipelines |-> <<>>, pipelinesFound |-> TRUE]

\* The canonical layout of the info.yml of every directory that comes up.
TestLists == {d.tests : d \in (UNION {Committed[r] : r \in Rules}) \ {None}}
             \cup {<<InfoOf(kind)>> : kind \in Kinds}
CanonicalYaml == [tests \in TestLists |-> Canonical(tests)]

-----------------------------------------------------------------------------
(* Reading a directory. *)

\* InfoYml::load; an info.yml that cannot be read is passed over with a warning.
Loads(d) == d # None /\ WellNested(d.lines)
Entries == {r \in Rules : Loads(tree[r])}

\* resolve_data_file: an empty file counts as one.
DataExt(d) ==
  LET found == {i \in DOMAIN Extensions : d.files[Extensions[i]] # None}
  IN IF found = {} THEN None ELSE Extensions[Min(found)]

Nothing == [holds |-> "nothing", events |-> 0, hits |-> [r \in Rules |-> 0], ends |-> 0]
DataOf(d) == IF DataExt(d) = None THEN Nothing ELSE d.files[DataExt(d)]

\* An unknown type in info.yml does not decide how the data is read.
LogType(d) ==
  IF d.tests # <<>> /\ d.tests[1].type \in DOMAIN d.files THEN d.tests[1].type
  ELSE IF d.tests = <<>> \/ DataExt(d) = None THEN "json" ELSE DataExt(d)

\* The number of events that the reader of a log type finds.  Only lines of auditd
\* are found in a log, and JSON is read line by line.
Events(file, logtype) ==
  CASE logtype = "evtx" -> IF file.holds = "evtx" THEN file.events ELSE 0
    [] logtype = "log" -> IF file.holds = "audit" THEN file.events ELSE 0
    [] OTHER -> IF file.holds = "ndjson" THEN file.events ELSE 0

IsJson(file) == file # None /\ file.holds \in {"ndjson", "document"}

\* validate_json_auxiliary: if the file is there, it ends with one newline and is JSON.
JsonSpoilt(d) == LET f == d.files["json"] IN f # None /\ (f.ends # 1 \/ ~IsJson(f))

\* validate_declared_tests: every declared test, not only the first.
TestResolves(d, t) ==
  /\ t.path \in DOMAIN d.files /\ d.files[t.path] # None /\ d.files[t.path].holds # "nothing"
  /\ t.pipelinesFound

\* The tests of an entry before its events are replayed, in their order.
Checks(d) ==
  <<<<"json", JsonSpoilt(d)>>,
    <<"layout", NeedsReindent(d.lines, CanonicalYaml[d.tests])>>,
    <<"no tests", d.tests = <<>>>>,
    <<"paths", \E i \in DOMAIN d.tests : ~TestResolves(d, d.tests[i])>>,
    <<"no data", DataExt(d) = None>>,
    <<"not evtx", LogType(d) = "evtx" /\ DataOf(d).holds # "evtx">>,
    <<"raw", LogType(d) = "raw">>,
    <<"empty", Events(DataOf(d), LogType(d)) = 0>>>>

FirstFailed(d) ==
  LET checks == Checks(d)
      failing == {i \in DOMAIN checks : checks[i][2]}
  IN IF failing = {} THEN None ELSE checks[Min(failing)][1]

\* The alerts of a replay, by the rules that compiled.
Replay(d) == [r \in Rules |-> IF rule[r].compiles THEN DataOf(d).hits[r] ELSE 0]

\* match_count is compared only beside a JSON export that can be read.
Judge(d, r, found) ==
  IF found[r] = 0 THEN "not matched"
  ELSE IF IsJson(d.files["json"]) /\ d.tests[1].count > 0 /\ found[r] # d.tests[1].count
       THEN "count" ELSE "pass"

\* What one entry comes to, looked at by itself.
VerdictAlone(r) ==
  LET early == FirstFailed(tree[r])
  IN IF early # None THEN early ELSE Judge(tree[r], r, Replay(tree[r]))

-----------------------------------------------------------------------------
Init ==
  /\ tree \in {f \in [Rules -> UNION {Committed[r] : r \in Rules}] :
                 \A r \in Rules : f[r] \in Committed[r]}
  /\ rule \in {f \in [Rules -> UNION {RuleFiles[r] : r \in Rules}] :
                 \A r \in Rules : f[r] \in RuleFiles[r]}
  /\ pc = "idle" /\ ignore = FALSE /\ entries = {} /\ todo = {}
  /\ alerts = NoAlerts /\ verdict = [r \in Rules |-> None] /\ count = NoCount
  /\ exit = None /\ spoilt = {} /\ fresh = {}

(* Capture: one alert of rule r, of a collector whose events are `kind`. *)

\* The records of an audit event are its lines; any other event is one record.
Records(kind) == IF kind = "audit group" THEN 2 ELSE 1

DataFile(kind, hits) ==
  [holds |-> CASE kind = "evtx" -> "evtx" [] kind = "text" -> "text" [] OTHER -> "audit",
   events |-> Records(kind), hits |-> hits, ends |-> 1]

\* Mutant: several records are pretty-printed as well.
JsonFilePretty(kind, hits) ==
  [holds |-> "document", events |-> Records(kind), hits |-> hits, ends |-> 2]

\* One record is pretty-printed, several are a line each; each ends its line.
JsonFile(kind, hits) ==
  [holds |-> IF Records(kind) = 1 THEN "document" ELSE "ndjson",
   events |-> Records(kind), hits |-> hits, ends |-> 1]

Exists(r, ext) == /\ tree[r] # None /\ tree[r].files[ext] # None
                  /\ tree[r].files[ext].holds # "nothing"

\* add(): files of other formats stay.  The rule matched at least one record.
Generate(r, kind, withJson, hits) ==
  LET old == IF tree[r] = None THEN NoFiles ELSE tree[r].files
      ext == Format(kind)
      tests == <<InfoOf(kind)>>
  IN
  /\ pc = "idle" /\ rule[r].there /\ rule[r].parses /\ rule[r].compiles
  /\ ~Exists(r, ext)
  /\ r \in Windows <=> kind = "evtx"
  /\ hits[r] > 0 /\ \A q \in Rules : hits[q] <= Records(kind)
  /\ tree' = [tree EXCEPT ![r] =
       [lines |-> CanonicalYaml[tests], tests |-> tests,
        files |-> [old EXCEPT ![ext] = DataFile(kind, hits),
                              !["json"] = IF withJson THEN JsonFile(kind, hits) ELSE @]]]
  /\ rule' = [rule EXCEPT ![r].names = r]
  /\ fresh' = IF withJson \/ old["json"] = None THEN fresh \cup {r} ELSE fresh
  /\ UNCHANGED <<pc, entries, todo, report, exit, spoilt>>

-----------------------------------------------------------------------------
(* Validation. *)

\* Entries whose rule is not there or names no path, and paths without an entry.
MissingPaths(E) ==
  {r \in E : ~rule[r].there \/ rule[r].names = None}
  \cup {<<"named", q>> : q \in {p \in Rules : /\ rule[p].there /\ rule[p].names \in Rules
                                              /\ tree[rule[p].names] # None
                                              /\ rule[p].names \notin E}}

\* Entries whose rule names another path, and paths that name no file.
MismatchedPaths(E) ==
  {r \in E : rule[r].there /\ rule[r].names \notin {None, r}}
  \cup {<<"named", q>> : q \in {p \in Rules : /\ rule[p].there /\ rule[p].names # None
                                              /\ \/ rule[p].names = "nowhere"
                                                 \/ tree[rule[p].names] = None}}

\* A rule file that does not parse, or a tree without entries, ends it.
StartCheck(i) ==
  LET E == Entries
      refused == E = {} \/ \E r \in Rules : rule[r].there /\ ~rule[r].parses
  IN
  /\ pc = "idle"
  /\ pc' = IF refused THEN "done" ELSE "checking"
  /\ exit' = IF refused THEN 1 ELSE None
  /\ entries' = IF refused THEN {} ELSE E
  /\ todo' = entries'
  /\ ignore' = i
  /\ count' = IF refused THEN NoCount
              ELSE [NoCount EXCEPT !.missing = Cardinality(MissingPaths(E)),
                                   !.mismatched = Cardinality(MismatchedPaths(E))]
  /\ verdict' = [r \in Rules |-> None]
  /\ alerts' = NoAlerts
  /\ UNCHANGED <<disk, spoilt>>

Ignorable == {"no tests", "no data", "empty"}

Counted(v) ==
  IF ignore /\ v \in Ignorable THEN [count EXCEPT !.ignored = @ + 1]
  ELSE [count EXCEPT !.total = @ + 1,
                     !.passed = @ + (IF v = "pass" THEN 1 ELSE 0),
                     !.skipped = @ + (IF v = "raw" THEN 1 ELSE 0),
                     !.failed = @ + (IF v \notin {"pass", "raw"} THEN 1 ELSE 0)]

\* Mutant: get_alerts hands out a copy.
AlertsKept(found) == found

\* get_alerts takes what process_events has pushed.
AlertsLeft(found) == NoAlerts

CheckEntry(r) ==
  LET d == tree[r]
      early == FirstFailed(d)
      found == [q \in Rules |-> alerts[q] + Replay(d)[q]]
      v == IF early # None THEN early ELSE Judge(d, r, found)
  IN
  /\ pc = "checking" /\ r \in todo
  /\ todo' = todo \ {r}
  /\ verdict' = [verdict EXCEPT ![r] = v]
  /\ count' = Counted(v)
  /\ alerts' = IF early # None THEN alerts ELSE AlertsLeft(found)
  /\ UNCHANGED <<disk, pc, ignore, entries, exit, spoilt>>

\* Mutant: the paths that were found wrong do not count.
ExitCodeOfEntries == IF count.failed > 0 THEN 1 ELSE 0

ExitCode == IF count.missing + count.mismatched > 0 \/ count.failed > 0 THEN 1 ELSE 0

FinishCheck ==
  /\ pc = "checking" /\ todo = {}
  /\ pc' = "done" /\ exit' = ExitCode
  /\ UNCHANGED <<disk, entries, todo, report, spoilt>>

-----------------------------------------------------------------------------
(* --fix. *)

\* The JSON files and the info.yml of the entries that could be loaded.
StartFix ==
  /\ pc = "idle"
  /\ pc' = "fixing"
  /\ entries' = Entries
  /\ todo' = {<<r, "json">> : r \in {q \in Entries : tree[q].files["json"] # None}}
             \cup {<<r, "info">> : r \in Entries}
  /\ spoilt' = {}
  /\ UNCHANGED <<disk, report, exit>>

\* Nothing is written where nothing has to be.
FixedJson(f) == IF f.holds = "nothing" THEN f ELSE [f EXCEPT !.ends = 1]

FixJson(r) ==
  /\ pc = "fixing" /\ <<r, "json">> \in todo
  /\ todo' = todo \ {<<r, "json">>}
  /\ tree' = [tree EXCEPT ![r].files["json"] = FixedJson(@)]
  /\ UNCHANGED <<rule, fresh, pc, entries, report, exit, spoilt>>

FixInfo(r) ==
  LET canonical == CanonicalYaml[tree[r].tests] IN
  /\ pc = "fixing" /\ <<r, "info">> \in todo
  /\ todo' = todo \ {<<r, "info">>}
  /\ tree' = IF NeedsReindent(tree[r].lines, canonical)
             THEN [tree EXCEPT ![r].lines = Reindent(@, canonical)] ELSE tree
  /\ UNCHANGED <<rule, fresh, pc, entries, report, exit, spoilt>>

\* A file is written only if it has to be, and a write truncates the file first.
Written(r, file) ==
  /\ <<r, file>> \in todo
  /\ IF file = "info" THEN NeedsReindent(tree[r].lines, CanonicalYaml[tree[r].tests])
     ELSE FixedJson(tree[r].files["json"]) # tree[r].files["json"]

Tear(r, file) ==
  /\ tree' = IF file = "info" THEN [tree EXCEPT ![r].lines = <<>>]
             ELSE [tree EXCEPT ![r].files["json"] = Nothing]
  /\ fresh' = fresh \ {r}

\* The file cannot be read or opened, and stays as it is.
FixFails(r, file) ==
  /\ pc = "fixing" /\ <<r, file>> \in todo
  /\ todo' = todo \ {<<r, file>>}
  /\ spoilt' = spoilt \cup {<<r, file>>}
  /\ UNCHANGED <<disk, pc, entries, report, exit>>

\* A kill in the middle of a write; a full disk leaves the same files behind.
FixKilled(r, file) ==
  /\ pc = "fixing"
  /\ Written(r, file) /\ Tear(r, file)
  /\ pc' = "idle" /\ todo' = {} /\ entries' = {}
  /\ UNCHANGED <<rule, report, exit, spoilt>>

FinishFix ==
  /\ pc = "fixing" /\ todo = {}
  /\ pc' = "fixed" /\ exit' = 0
  /\ UNCHANGED <<disk, entries, todo, report, spoilt>>

\* The tool has ended; the report is gone with it.
Leave ==
  /\ pc \in {"done", "fixed"}
  /\ pc' = "idle" /\ exit' = None /\ entries' = {} /\ spoilt' = {}
  /\ ignore' = FALSE /\ alerts' = NoAlerts
  /\ verdict' = [r \in Rules |-> None] /\ count' = NoCount
  /\ UNCHANGED <<disk, todo>>

Next ==
  \/ \E r \in Rules, kind \in Kinds, withJson \in BOOLEAN, hits \in [Rules -> 0..2] :
       Generate(r, kind, withJson, hits)
  \/ \E i \in BOOLEAN : StartCheck(i)
  \/ \E r \in Rules : CheckEntry(r) \/ FixJson(r) \/ FixInfo(r)
  \/ \E r \in Rules, file \in {"json", "info"} : FixFails(r, file) \/ FixKilled(r, file)
  \/ FinishCheck \/ StartFix \/ FinishFix \/ Leave

Spec == Init /\ [][Next]_vars

-----------------------------------------------------------------------------
(* Properties. *)

\* Every entry is judged by its own events, whatever the entries before it left in the
\* engine, and is counted by exactly one of the counters that the report adds up.
VerdictsAreTheirOwn ==
  pc \in {"checking", "done"} =>
    /\ \A r \in entries \ todo : verdict[r] = VerdictAlone(r)
    /\ Cardinality(entries \ todo) = count.passed + count.failed + count.ignored + count.skipped
    /\ count.total = count.passed + count.failed + count.skipped

\* Exit code 0 means that every directory with an info.yml which some rule names was
\* loaded - a torn one is not passed over in silence - that every entry loaded is named
\* by its rule, and that all data which had to match did.
CleanMeansSound ==
  pc = "done" /\ exit = 0 =>
    /\ \A q \in Rules : rule[q].there /\ rule[q].names \in Rules => rule[q].names \in entries
    /\ \A r \in entries :
         /\ rule[r].there /\ rule[r].names = r
         /\ VerdictAlone(r) \in {"pass", "raw"} \cup (IF ignore THEN Ignorable ELSE {})

\* After --fix every file that could be written, of a layout whose keys are all known,
\* is canonical and needs no second fix; what save() writes is canonical from the start.
FixedIsCanonical ==
  /\ \A r \in fresh : pc = "idle" => ~NeedsReindent(tree[r].lines, CanonicalYaml[tree[r].tests])
  /\ pc = "fixed" =>
       \A r \in entries :
         LET d == tree[r]
             canonical == CanonicalYaml[d.tests]
         IN /\ <<r, "json">> \notin spoilt /\ d.files["json"] # None =>
                 FixedJson(d.files["json"]) = d.files["json"]
            /\ <<r, "info">> \notin spoilt /\ AllKnown(d.lines, canonical) =>
                 ~NeedsReindent(d.lines, canonical)

\* Line by line the same keys and items, wherever they are.
SameLines(lines, canonical) ==
  /\ DOMAIN lines = DOMAIN canonical
  /\ \A i \in DOMAIN lines : /\ lines[i].key = canonical[i].key /\ lines[i].item = canonical[i].item
                             /\ lines[i].bare = canonical[i].bare

\* And what is fixed is read as serde_yaml wrote it: a file of those lines, however it was
\* indented, nests as serde_yaml nested them.
FixSettles ==
  /\ FixedIsCanonical
  /\ pc = "fixed" =>
       \A r \in entries :
         LET d == tree[r]
             canonical == CanonicalYaml[d.tests]
         IN <<r, "info">> \notin spoilt /\ SameLines(d.lines, canonical) =>
              /\ WellNested(d.lines) /\ Nesting(canonical) = Nesting(Serde(d.tests))
              /\ Nesting(d.lines) = Nesting(canonical)

\* Data that the program has just written passes its own check.  Two outcomes are
\* excepted by name: text that is not of auditd is not replayed, and an audit event of
\* which several records match has more hits than the one alert it was written for.
GeneratedPasses ==
  \A r \in fresh \cap entries :
    verdict[r] # None =>
      \/ verdict[r] = "pass"
      \/ verdict[r] = "empty" /\ DataOf(tree[r]).holds = "text"
      \/ verdict[r] = "count" /\ IsJson(tree[r].files["json"])
                              /\ DataOf(tree[r]).hits[r] > 1
=============================================================================
