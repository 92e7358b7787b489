------------------------------ MODULE RuleSet ------------------------------
(***************************************************************************)
(* From the rule files of the Sigma clone to the alerts of the detection   *)
(* engine: discovery of the rules directories, loading with its duplicates *)
(* and parse failures, the skip set, the filter, the compiled engine with  *)
(* its cache on disk, and the retirement of rules between the cycles of a  *)
(* run (rule/, detection/, run_with_cli and process_and_generate).         *)
(*                                                                         *)
(* A document is what a rule file says, without the annotation             *)
(* regression_tests_path, which fingerprint() strips; Meta tells what      *)
(* loading, filtering, compiling and naming look at.  A rule is a document *)
(* together with the file it was loaded from.  Parsing, lowering and       *)
(* matching are the rsigma libraries: whether a document parses and        *)
(* compiles is a field of it, and any rule of the engine may match.        *)
(***************************************************************************)
EXTENDS Naturals, FiniteSets, FiniteSetsExt

CONSTANTS Files,     \* the files below the clone
          Place,     \* where a file is: its top directory, how deep, its name
          Called,    \* how a top directory is called: links give it more names
          Docs,      \* the documents that rule files may hold
          Meta,      \* what a document says
          Uuids,     \* the ids
          Filters,   \* the filter configurations a process may start with
          ServiceChannels, CategoryChannels,  \* tables of types.rs, as functions
          ChannelCollector,  \* does the collector read Windows channels?
          None       \* an absent value

ASSUME NoneAssumption == None \notin Files \cup Uuids
ASSUME FilesAssumption == IsFiniteSet(Files)
ASSUME DocsAssumption == \A f \in Files : Place[f].docs \subseteq Docs
ASSUME MetaAssumption ==
  \A d \in Docs : Meta[d].form \in {"canonical", "other"} => Meta[d].uuid \in Uuids

VARIABLES
  disk,         \* the document of every file
  hasData,      \* ids with regression data on disk
  cache,        \* the cache file of the compiled engine
  pc, mode, filter, caching,   \* the process and how it was started
  dirs,         \* the rules directories found
  todo,         \* the files still to be visited
  rules,        \* SigmahqRules::rules
  rulePaths,    \* SigmahqRules::rule_paths
  stats,        \* LoadStats
  engine,       \* how often each document is compiled in the engine
  enginePaths,  \* the rule_paths of the engine, from which its id map is built
  channels,     \* cycle_channels, resolved once
  retired,      \* the ids removed from the rule set by this process
  alerts        \* the alerts of the current cycle

disks == <<disk, hasData>>
started == <<mode, filter, caching, dirs>>
set == <<rules, rulePaths>>
compiled == <<engine, enginePaths>>
vars == <<disks, cache, pc, started, todo, set, stats, compiled, channels, retired, alerts>>

-----------------------------------------------------------------------------
(* Documents and thresholds. *)

StatusRank == [unsupported |-> 0, deprecated |-> 1, experimental |-> 2, test |-> 3, stable |-> 4]
LevelRank == [informational |-> 0, low |-> 1, medium |-> 2, high |-> 3, critical |-> 4]

\* A rule without the field passes every threshold.
Accepts(rank, threshold, value) ==
  threshold = None \/ value = None \/ rank[value] >= rank[threshold]

ProductOk(flt, d) == Meta[d].product = flt.product
StatusOk(flt, d) == Accepts(StatusRank, flt.min_status, Meta[d].status)
LevelOk(flt, d) == Accepts(LevelRank, flt.min_level, Meta[d].level)
\* A rule without an author fails a filter by author.
AuthorOk(flt, d) == flt.author = None \/ flt.author \in Meta[d].authors

\* The digests of the rules, sorted and with their repetitions.
Fingerprint(S) == [d \in Docs |-> Cardinality({r \in S : r.doc = d})]

Compiles(r) == Meta[r.doc].compiles
NoRules == [d \in Docs |-> 0]
\* add_rules: the rules that compile are added to what the engine holds.
Compile(base, S) ==
  [d \in Docs |-> base[d] + Cardinality({r \in S : Compiles(r) /\ r.doc = d})]

\* The id string of a document: that of no other file if it has none.
IdKey(f, d) == IF Meta[d].form = "none" THEN <<f, "none">> ELSE <<Meta[d].uuid, Meta[d].form>>
HasUuid(d) == Meta[d].form \in {"canonical", "other"}
NamedBy(d, u) == Meta[d].uuid = u /\ Meta[d].form = "canonical"

NoPaths == [u \in Uuids |-> None]
NoStats == [candidate |-> 0, loaded |-> 0, product |-> 0, status |-> 0, level |-> 0,
            author |-> 0, parse_failed |-> 0, timeframe |-> 0]

-----------------------------------------------------------------------------
(* Discovery of the rules directories. *)

AllDirs == {Place[f].dir : f \in Files}
IsYaml(ext) == ext \in {"yml", "yaml"}
\* The look for YAML files stops at depth 8 and ignores the case of extensions.
HasYmlFiles(dir) ==
  \E f \in Files : /\ Place[f].dir = dir /\ ~Place[f].deep
                   /\ \/ IsYaml(Place[f].ext) \/ Place[f].ext = "YML"

IsRulesDir(name, dir) ==
  \/ name = "rules"
  \/ name = "rules-*" /\ HasYmlFiles(dir)   \* but not rules-compliance*

\* Of the names of one directory only the first that read_dir yields counts.
FindRulesDirs(first) == {dir \in AllDirs : IsRulesDir(first[dir], dir)}

\* The files that loading reads: index.yml apart, by the exact extension.
Candidates == {f \in Files : /\ Place[f].dir \in dirs
                             /\ IsYaml(Place[f].ext)
                             /\ Place[f].name # "index.yml"}

-----------------------------------------------------------------------------
Init ==
  /\ disk \in {g \in [Files -> Docs] : \A f \in Files : g[f] \in Place[f].docs}
  /\ hasData = {}
  /\ cache = [state |-> "absent", key |-> NoRules, blob |-> NoRules]
  /\ pc = "down" /\ mode = "run" /\ filter = None /\ caching = FALSE
  /\ dirs = {} /\ todo = {}
  /\ rules = {} /\ rulePaths = NoPaths /\ stats = NoStats
  /\ engine = NoRules /\ enginePaths = NoPaths
  /\ channels = {} /\ retired = {} /\ alerts = {}

\* Nothing in memory outlives a process.
NoMemory ==
  /\ mode' = "run" /\ filter' = None /\ caching' = FALSE
  /\ dirs' = {} /\ todo' = {}
  /\ rules' = {} /\ rulePaths' = NoPaths /\ stats' = NoStats
  /\ engine' = NoRules /\ enginePaths' = NoPaths
  /\ channels' = {} /\ retired' = {} /\ alerts' = {}

\* A process starts.  --all-rules starts with an empty skip set, --dry-run ends
\* with the engine built.
Start(m, flt, withCache) ==
  /\ pc = "down"
  /\ \E first \in [AllDirs -> UNION {Called[d] : d \in AllDirs}] :
       /\ \A d \in AllDirs : first[d] \in Called[d]
       /\ dirs' = FindRulesDirs(first)
  /\ dirs' # {}     \* NoRulesDirs otherwise
  /\ todo' = Candidates'
  /\ mode' = m /\ filter' = flt /\ caching' = withCache
  /\ pc' = "loading"
  /\ retired' = IF m = "run" THEN hasData ELSE {}
  /\ UNCHANGED <<disks, cache, set, stats, compiled, channels, alerts>>

\* Mutant: the path of a duplicate replaces that of the rule that was kept.
LoadFileLastPath(f) ==
  LET d == disk[f]
      duplicate == \E r \in rules : IdKey(r.file, r.doc) = IdKey(f, d)
      parsed == Meta[d].parse = "ok"
  IN
  /\ pc = "loading" /\ f \in todo
  /\ todo' = todo \ {f}
  /\ rules' = IF parsed /\ ~duplicate THEN rules \cup {[file |-> f, doc |-> d]} ELSE rules
  /\ rulePaths' = IF parsed /\ HasUuid(d) THEN [rulePaths EXCEPT ![Meta[d].uuid] = f] ELSE rulePaths
  /\ UNCHANGED <<disks, cache, pc, started, stats, compiled, channels, retired, alerts>>

\* One file, in whatever order the directories yield them.  The first document
\* of an id string wins.
LoadFile(f) ==
  LET d == disk[f]
      duplicate == \E r \in rules : IdKey(r.file, r.doc) = IdKey(f, d)
      parsed == Meta[d].parse = "ok"
  IN
  /\ pc = "loading" /\ f \in todo
  /\ todo' = todo \ {f}
  /\ rules' = IF parsed /\ ~duplicate THEN rules \cup {[file |-> f, doc |-> d]} ELSE rules
  /\ rulePaths' = IF parsed /\ ~duplicate /\ HasUuid(d)
                  THEN [rulePaths EXCEPT ![Meta[d].uuid] = f] ELSE rulePaths
  /\ stats' = [stats EXCEPT !.parse_failed = @ + (IF parsed THEN 0 ELSE 1),
                            !.timeframe = @ + (IF parsed /\ Meta[d].timeframe THEN 1 ELSE 0)]
  /\ UNCHANGED <<disks, cache, pc, started, compiled, channels, retired, alerts>>

\* remove_id: by the canonical spelling of the id, and from rule_paths.
RemoveIds(S, ids) == {r \in S : \A u \in ids : ~NamedBy(r.doc, u)}
RemovePaths(paths, ids) == [u \in Uuids |-> IF u \in ids THEN None ELSE paths[u]]

Kept(flt, S) == {r \in S : /\ ProductOk(flt, r.doc) /\ StatusOk(flt, r.doc)
                           /\ LevelOk(flt, r.doc) /\ AuthorOk(flt, r.doc)}

\* Mutant: counted by every test it fails.
FilterStatsIndependent(flt, S) ==
  [stats EXCEPT !.candidate = Cardinality(S),
                !.product = Cardinality({r \in S : ~ProductOk(flt, r.doc)}),
                !.status = Cardinality({r \in S : ~StatusOk(flt, r.doc)}),
                !.level = Cardinality({r \in S : ~LevelOk(flt, r.doc)}),
                !.author = Cardinality({r \in S : ~AuthorOk(flt, r.doc)}),
                !.loaded = Cardinality(Kept(flt, S))]

\* The counters of the filter: a rule is counted by the first test it fails.
FilterStats(flt, S) ==
  LET afterProduct == {r \in S : ProductOk(flt, r.doc)}
      afterStatus == {r \in afterProduct : StatusOk(flt, r.doc)}
      afterLevel == {r \in afterStatus : LevelOk(flt, r.doc)}
      afterAuthor == {r \in afterLevel : AuthorOk(flt, r.doc)}
  IN [stats EXCEPT !.candidate = Cardinality(S),
                   !.product = Cardinality(S \ afterProduct),
                   !.status = Cardinality(afterProduct \ afterStatus),
                   !.level = Cardinality(afterStatus \ afterLevel),
                   !.author = Cardinality(afterLevel \ afterAuthor),
                   !.loaded = Cardinality(afterAuthor)]

\* Skip set and filter.  Nothing left to detect ends the process.
FilterRules ==
  LET left == RemoveIds(rules, retired)
      kept == Kept(filter, left)
      paths == RemovePaths(rulePaths, retired)
  IN
  /\ pc = "loading" /\ todo = {}
  /\ rules' = kept
  /\ rulePaths' = [u \in Uuids |-> IF \E r \in kept : HasUuid(r.doc) /\ Meta[r.doc].uuid = u
                                   THEN paths[u] ELSE None]
  /\ stats' = FilterStats(filter, left)
  /\ pc' = IF kept = {} THEN "ended" ELSE "filtered"
  /\ UNCHANGED <<disks, cache, started, todo, compiled, channels, retired, alerts>>

-----------------------------------------------------------------------------
(* The engine and its cache. *)

\* read_hir_cache: the first line is the key of these rules, whole.
CacheHit == caching /\ cache.state \in {"blobTorn", "whole"} /\ cache.key = Fingerprint(rules)

\* The channels of the compiled rules, by service or else by category.
ChannelsOf(d) ==
  LET md == Meta[d] IN
  IF md.product # "windows" THEN {}
  ELSE IF md.service # None THEN ServiceChannels[md.service]
  ELSE IF md.category # None THEN CategoryChannels[md.category] ELSE {}
ResolveChannels(eng) == UNION {ChannelsOf(d) : d \in {x \in Docs : eng[x] > 0}}

\* A dry run ends, and so does a run without a channel to read.
AfterBuild(chans) ==
  IF mode = "dry" \/ (ChannelCollector /\ chans = {}) THEN "ended" ELSE "running"

\* Mutant: it was loaded into the engine that is then compiled into.
EngineAfterRejectionLoaded == cache.blob

\* A blob that is rejected half way was loaded into an engine of its own.
EngineAfterRejection == NoRules

UseEngine(eng) ==
  /\ engine' = eng
  /\ enginePaths' = rulePaths
  /\ channels' = ResolveChannels(eng)

\* load_hir accepts the blob: no rule is compiled.
WarmStart ==
  /\ pc = "filtered"
  /\ CacheHit /\ cache.state = "whole"
  /\ UseEngine(cache.blob)
  /\ pc' = AfterBuild(channels')
  /\ UNCHANGED <<disks, cache, started, todo, set, stats, retired, alerts>>

\* Mutant: startup goes on after rules that do not compile, as reload_rules does.
ColdStartLenient ==
  /\ pc = "filtered"
  /\ UseEngine(Compile(IF CacheHit THEN EngineAfterRejection ELSE NoRules, rules))
  /\ pc' = IF caching THEN "saving" ELSE AfterBuild(channels')
  /\ UNCHANGED <<disks, cache, started, todo, set, stats, retired, alerts>>

\* No usable cache: everything is compiled, after a blob that was rejected, too.
\* One rule that does not compile ends the process before anything is saved.
ColdStart ==
  /\ pc = "filtered"
  /\ \A r \in rules : Compiles(r)
  /\ UseEngine(Compile(IF CacheHit THEN EngineAfterRejection ELSE NoRules, rules))
  /\ pc' = IF caching THEN "saving" ELSE AfterBuild(channels')
  /\ UNCHANGED <<disks, cache, started, todo, set, stats, retired, alerts>>

AddRulesFails ==
  /\ pc = "filtered"
  /\ \E r \in rules : ~Compiles(r)
  /\ ~(CacheHit /\ cache.state = "whole")
  /\ pc' = "ended"
  /\ UNCHANGED <<disks, cache, started, todo, set, stats, compiled, channels, retired, alerts>>

\* write_hir_cache truncates the file and writes key and blob: a kill or a full
\* disk leaves it torn in the key or in the blob.
BeginSave ==
  /\ pc = "saving"
  /\ \E s \in {"keyTorn", "blobTorn"} :
       cache' = [state |-> s, key |-> Fingerprint(rules), blob |-> engine]
  /\ pc' = "writing"
  /\ UNCHANGED <<disks, started, todo, set, stats, compiled, channels, retired, alerts>>

EndSave ==
  /\ pc = "writing"
  /\ cache' = [state |-> "whole", key |-> Fingerprint(rules), blob |-> engine]
  /\ pc' = AfterBuild(channels)
  /\ UNCHANGED <<disks, started, todo, set, stats, compiled, channels, retired, alerts>>

SaveFails ==
  /\ pc \in {"saving", "writing"}
  /\ pc' = AfterBuild(channels)
  /\ UNCHANGED <<disks, cache, started, todo, set, stats, compiled, channels, retired, alerts>>

-----------------------------------------------------------------------------
(* Cycles. *)

\* The id of a match, through the canonical strings of the ids in rule_paths.
LookupId(d) ==
  IF Meta[d].form = "canonical" /\ enginePaths[Meta[d].uuid] # None THEN Meta[d].uuid ELSE None

AlertOf(d) == LET u == LookupId(d)
              IN [rule_id |-> u, doc |-> d, path |-> IF u = None THEN None ELSE enginePaths[u]]

ProcessEvents(matched) ==
  /\ pc = "running"
  /\ matched # {} /\ matched \subseteq {d \in Docs : engine[d] > 0}
  /\ alerts' = {AlertOf(d) : d \in matched}
  /\ pc' = "generating"
  /\ UNCHANGED <<disks, cache, started, todo, set, stats, compiled, channels, retired>>

\* Mutant: only the captured rules are removed from the set.
RetireCaptured(captured, blocked) ==
  LET left == RemoveIds(rules, captured)
  IN
  /\ pc = "generating"
  /\ (captured \cup blocked) \subseteq {a.rule_id : a \in alerts} \ {None}
  /\ captured \cap (blocked \cup hasData) = {}
  /\ alerts' = {}
  /\ hasData' = hasData \cup captured
  /\ rules' = left
  /\ rulePaths' = RemovePaths(rulePaths, captured)
  /\ retired' = retired \cup captured \cup blocked
  /\ engine' = Compile(NoRules, left)
  /\ enginePaths' = rulePaths'
  /\ pc' = IF caching THEN "saving" ELSE "running"
  /\ UNCHANGED <<disk, cache, started, todo, stats, channels>>

\* add() and take_blocked() as seen from here: of the alerts with an id, some are
\* captured, some given up, and the rest stay.  The first two leave the rule set
\* and the engine, which is compiled again and saved again.
Retire(captured, blocked) ==
  LET ids == captured \cup blocked
      left == RemoveIds(rules, ids)
  IN
  /\ pc = "generating"
  /\ ids \subseteq {a.rule_id : a \in alerts} \ {None}
  /\ captured \cap (blocked \cup hasData) = {}
  /\ alerts' = {}
  /\ hasData' = hasData \cup captured
  /\ IF ids = {}
     THEN /\ pc' = "running"
          /\ UNCHANGED <<set, compiled, retired>>
     ELSE /\ rules' = left
          /\ rulePaths' = RemovePaths(rulePaths, ids)
          /\ retired' = retired \cup ids
          /\ engine' = Compile(NoRules, left)
          /\ enginePaths' = rulePaths'
          /\ pc' = IF caching THEN "saving" ELSE "running"
  /\ UNCHANGED <<disk, cache, started, todo, stats, channels>>

\* The process ends or is killed, at any point.
Stop ==
  /\ pc # "down"
  /\ pc' = "down"
  /\ NoMemory
  /\ UNCHANGED <<disks, cache>>

\* Between two processes the clone is updated: a file holds another document.
Update(f, d) ==
  /\ pc = "down"
  /\ d \in Place[f].docs /\ d # disk[f]
  /\ disk' = [disk EXCEPT ![f] = d]
  /\ UNCHANGED <<hasData, cache, pc, started, todo, set, stats, compiled, channels, retired, alerts>>

Next ==
  \/ \E m \in {"run", "all", "dry"}, flt \in Filters, c \in BOOLEAN : Start(m, flt, c)
  \/ \E f \in Files : LoadFile(f) \/ \E d \in Docs : Update(f, d)
  \/ FilterRules \/ WarmStart \/ ColdStart \/ AddRulesFails
  \/ BeginSave \/ EndSave \/ SaveFails
  \/ \E matched \in SUBSET {d \in Docs : engine[d] > 0} : ProcessEvents(matched)
  \/ \E captured, blocked \in SUBSET ({a.rule_id : a \in alerts} \ {None}) :
       Retire(captured, blocked)
  \/ Stop

Spec == Init /\ [][Next]_vars

-----------------------------------------------------------------------------
(* Properties. *)

Rule == [file : Files, doc : Docs]

\* Every variable has its type.
TypeOK ==
  /\ disk \in [Files -> Docs]
  /\ hasData \subseteq Uuids /\ retired \subseteq Uuids
  /\ cache.state \in {"absent", "keyTorn", "blobTorn", "whole"}
  /\ stats \in [DOMAIN NoStats -> Nat]
  /\ cache.key \in [Docs -> Nat] /\ cache.blob \in [Docs -> Nat]
  /\ pc \in {"down", "loading", "filtered", "saving", "writing", "running", "generating", "ended"}
  /\ mode \in {"run", "all", "dry"} /\ filter \in Filters \cup {None} /\ caching \in BOOLEAN
  /\ todo \subseteq Files
  /\ rules \subseteq Rule
  /\ rulePaths \in [Uuids -> Files \cup {None}] /\ enginePaths \in [Uuids -> Files \cup {None}]
  /\ engine \in [Docs -> Nat]
  /\ \A a \in alerts : a.rule_id \in Uuids \cup {None}

\* Whatever was found on disk as a cache - nothing, the cache of other rules or of
\* another filter, one torn by a kill, one that the engine rejects - the engine runs
\* every rule of the set, once, and no other (new_with_hir_cache, reload_rules).
EngineRunsTheRules ==
  pc \in {"saving", "writing", "running", "generating"} =>
    \A d \in Docs : engine[d] = Cardinality({r \in rules : r.doc = d})

\* A whole cache holds the compiled form of just the rules that its key names,
\* although reload_rules goes on after rules that do not compile and saves all the
\* same: startup refuses such rules, and a run only ever takes rules away.
CacheHoldsItsKey == cache.state = "whole" => cache.blob = cache.key

\* A rule that has left - for data on disk at startup, or captured or given up since -
\* is not compiled in the engine that the following cycles use (remove_id,
\* process_and_generate).
RetiredAreNotDetected ==
  pc \in {"saving", "writing", "running"} =>
    \A u \in retired, d \in Docs : engine[d] > 0 => ~NamedBy(d, u)

\* Every id string found in the rules directories is in the set, was skipped for its
\* data or is counted by exactly one filter, whatever the order of the directories
\* and however many files repeat it (new_from_path, remove_id, filter).
EveryIdIsAccountedFor ==
  pc = "filtered" =>
    LET ids == {IdKey(f, disk[f]) : f \in {g \in Candidates : Meta[disk[g]].parse = "ok"}}
        skipped == {k \in ids : \E u \in retired : k = <<u, "canonical">>}
    IN /\ Cardinality(ids) = Cardinality(skipped) + stats.candidate
       /\ stats.candidate = stats.loaded + stats.product + stats.status
                              + stats.level + stats.author
       /\ stats.loaded = Cardinality(rules)

\* No file of the clone spells this id in another way than the canonical one.
SpelledOnce(u) ==
  \A f \in Files : HasUuid(disk[f]) /\ Meta[disk[f]].uuid = u => Meta[disk[f]].form = "canonical"

\* The path of an alert, whose file add() annotates, is the file of the rule that
\* matched and not that of a duplicate with other content; with a cache, the compiled
\* rule may come from an earlier process (rule_paths, process_events).  Two spellings
\* of one id are loaded as two rules that share an entry of rule_paths, and are exempt.
AlertsPointAtTheirFile ==
  \A a \in alerts : a.path # None /\ SpelledOnce(a.rule_id) => disk[a.path] = a.doc
=============================================================================
