---------------------------- MODULE Regression ----------------------------
(***************************************************************************)
(* The generation task: SigmahqRegression (regression/mod.rs) driven by    *)
(* process_and_generate (runner.rs), over the regression_data tree, with   *)
(* the process killed between any two file operations and restarted.       *)
(*                                                                         *)
(* One rule directory holds the data file <rule_id>.<ext>, info.yml, the   *)
(* optional <rule_id>.json and, from older captures, a data file in        *)
(* another format (legacy).  The run is offline, so the tree on disk is    *)
(* all that a restart finds; Repo.tla adds git.                            *)
(***************************************************************************)
EXTENDS Naturals, Sequences, FiniteSets

CONSTANTS
  Rules,            \* the rules the filter selects, all with a valid id
  MaxFailedCycles,  \* config regression.max_failed_cycles, clamped to >= 1
  AddJson,          \* config regression.add_json_output
  Format,           \* "Evtx" or "Log": the data format of the collector
  MaxAlerts,        \* bound: alerts of one cycle
  MaxRestarts       \* bound: processes after the first

ASSUME RegressionAssumption ==
  /\ MaxFailedCycles \in Nat \ {0}
  /\ MaxAlerts \in Nat \ {0}
  /\ MaxRestarts \in Nat
  /\ AddJson \in BOOLEAN
  /\ Format \in {"Evtx", "Log"}

VARIABLES
  \* the sigma repository on disk
  json,      \* is <rule_id>.json in the rule directory?
  data,      \* <rule_id>.<ext>: absent, zero bytes, unusable bytes, or whole
  info,      \* info.yml: absent, cut short, of an older capture, or of this data
  legacy,    \* is there a data file of another format?
  yaml,      \* regression_tests_path in the rule file, or the file cut short
  \* SigmahqRegression
  retired, failed_cycles, failed_this_cycle, blocked,
  \* Pipeline.rules and Pipeline.engine
  rules, engine,
  \* process_and_generate
  pc, alerts, batches,
  \* history: failing cycles of a rule in this process (up to the limit), the
  \* rules that failed in this cycle, the rules handed over for upload, restarts
  failures, failedNow, handed, restarts

disk == <<json, data, info, legacy, yaml>>
memory == <<retired, failed_cycles, failed_this_cycle, blocked>>
loaded == <<rules, engine>>
task == <<pc, alerts, batches>>
history == <<failures, failedNow, handed, restarts>>
vars == <<disk, memory, loaded, task, history>>

Generating == {"json", "data", "data_write", "info", "info_write", "yaml", "yaml_write"}

Phases == {"down", "idle", "add"} \cup Generating

TypeOK ==
  /\ json \in [Rules -> BOOLEAN]
  /\ data \in [Rules -> {"none", "empty", "bad", "ok"}]
  /\ info \in [Rules -> {"none", "torn", "old", "ok"}]
  /\ legacy \in [Rules -> BOOLEAN]
  /\ yaml \in [Rules -> {"unset", "torn", "set"}]
  /\ retired \subseteq Rules
  /\ failed_cycles \in [Rules -> 0 .. (MaxFailedCycles - 1)]
  /\ failed_this_cycle \subseteq Rules
  /\ blocked \subseteq Rules
  /\ rules \subseteq Rules
  /\ engine \subseteq Rules
  /\ pc \in Phases
  /\ alerts \in Seq(Rules)
  /\ batches \subseteq Rules
  /\ failures \in [Rules -> 0 .. MaxFailedCycles]
  /\ failedNow \subseteq Rules
  /\ handed \subseteq Rules
  /\ restarts \in Nat

-----------------------------------------------------------------------------
\* data_file_exists: present and not empty; nobody opens the file.
HasData(r) == data[r] \in {"bad", "ok"}

\* RegressionData::exists, the test add() makes before it generates.
Exists(r) == info[r] # "none" /\ HasData(r)

\* new_from_path keeps the entries whose info.yml parses; get_sigma_id keeps
\* those whose data file exists.
SkipSet == {r \in Rules : info[r] \in {"old", "ok"} /\ HasData(r)}

\* Mutant: a directory with an info.yml is cleaned too.
PartialWithInfo(r) == data[r] # "none" \/ json[r] \/ legacy[r]

\* clean_recursive removes a directory with a data file (of any extension)
\* and no info.yml.
Partial(r) == info[r] = "none" /\ (data[r] # "none" \/ json[r] \/ legacy[r])

\* Complete data of this generation, as opposed to an older capture.
Captured(r) == data[r] = "ok" /\ info[r] = "ok"

Life == [r \in Rules |-> IF Captured(r) THEN "captured"
                         ELSE IF r \in retired THEN "blocked" ELSE "open"]

Lifecycle == INSTANCE RuleLifecycle WITH life <- Life, up <- (pc # "down")

\* A rule never captured, captured by an earlier process, or with committed
\* data of another format.
Init ==
  /\ \E old \in [Rules -> {"none", "ok", "legacy"}] :
       /\ data = [r \in Rules |-> IF old[r] = "ok" THEN "ok" ELSE "none"]
       /\ info = [r \in Rules |-> CASE old[r] = "ok" -> "ok"
                                    [] old[r] = "legacy" -> "old"
                                    [] old[r] = "none" -> "none"]
       /\ legacy = [r \in Rules |-> old[r] = "legacy"]
       /\ yaml = [r \in Rules |-> IF old[r] = "none" THEN "unset" ELSE "set"]
  /\ json = [r \in Rules |-> FALSE]
  /\ retired = {} /\ failed_this_cycle = {} /\ blocked = {}
  /\ failed_cycles = [r \in Rules |-> 0]
  /\ rules = {} /\ engine = {}
  /\ pc = "down" /\ alerts = <<>> /\ batches = {}
  /\ failures = [r \in Rules |-> 0] /\ failedNow = {} /\ handed = {}
  /\ restarts = 0

\* run(): load the tree, drop the skip set, compile the engine, clean what an
\* interrupted run left.  A rule file cut short does not parse and is not
\* loaded; with no rule left the process ends before it cleans anything.  The
\* skip set is empty under -a/--all-rules.  A removal that fails only warns.
Startup ==
  LET found == {r \in Rules : yaml[r] # "torn"}
  IN /\ pc = "down"
     /\ \E skip \in {{}, SkipSet} : rules' = found \ skip
     /\ rules' # {}
     /\ engine' = rules'
     /\ \E cleaned \in SUBSET {r \in Rules : Partial(r)} :
          /\ json' = [r \in Rules |-> json[r] /\ r \notin cleaned]
          /\ data' = [r \in Rules |-> IF r \in cleaned THEN "none" ELSE data[r]]
          /\ legacy' = [r \in Rules |-> legacy[r] /\ r \notin cleaned]
     /\ pc' = "idle"
     /\ UNCHANGED <<info, yaml, memory, alerts, batches, history>>

\* Mutant: begin_cycle is not called, so a rule fails once for ever.
BeginCycleKeepsFailures ==
  /\ pc = "idle"
  /\ \E n \in 1 .. MaxAlerts : alerts' \in [1 .. n -> engine]
  /\ failedNow' = {}
  /\ pc' = "add"
  /\ UNCHANGED <<disk, memory, loaded, batches, failures, handed, restarts>>

\* process_events and get_alerts found matches; begin_cycle.
BeginCycle ==
  /\ pc = "idle"
  /\ \E n \in 1 .. MaxAlerts : alerts' \in [1 .. n -> engine]
  /\ failed_this_cycle' = {} /\ failedNow' = {}
  /\ pc' = "add"
  /\ UNCHANGED <<disk, retired, failed_cycles, blocked, loaded, batches,
                 failures, handed, restarts>>

\* Mutant: add() only looks at the disk.
SkipsOnDisk(r) == Exists(r)

\* add() returns None for a retired rule and for one that has data.
Skips(r) == r \in retired \/ Exists(r)

SkipAlert ==
  /\ pc = "add" /\ alerts # <<>> /\ Skips(Head(alerts))
  /\ alerts' = Tail(alerts)
  /\ UNCHANGED <<disk, memory, loaded, pc, batches, history>>

\* Mutant: every failing alert counts.
NoteFailurePerAlert(r) ==
  /\ failed_this_cycle' = failed_this_cycle \cup {r}
  /\ IF failed_cycles[r] + 1 >= MaxFailedCycles
     THEN /\ failed_cycles' = [failed_cycles EXCEPT ![r] = 0]
          /\ retired' = retired \cup {r}
          /\ blocked' = blocked \cup {r}
     ELSE /\ failed_cycles' = [failed_cycles EXCEPT ![r] = @ + 1]
          /\ UNCHANGED <<retired, blocked>>

\* note_generation_failure: at most one failure per rule and cycle counts.
NoteFailure(r) ==
  IF r \in failed_this_cycle
  THEN UNCHANGED memory
  ELSE /\ failed_this_cycle' = failed_this_cycle \cup {r}
       /\ IF failed_cycles[r] + 1 >= MaxFailedCycles
          THEN /\ failed_cycles' = [failed_cycles EXCEPT ![r] = 0]
               /\ retired' = retired \cup {r}
               /\ blocked' = blocked \cup {r}
          ELSE /\ failed_cycles' = [failed_cycles EXCEPT ![r] = @ + 1]
               /\ UNCHANGED <<retired, blocked>>

\* generate() returned an error: add() counts it and goes to the next alert.
Fail(r) ==
  /\ NoteFailure(r)
  /\ failures' = IF r \in failedNow \/ failures[r] = MaxFailedCycles THEN failures
                 ELSE [failures EXCEPT ![r] = @ + 1]
  /\ failedNow' = failedNow \cup {r}
  /\ pc' = "add"
  /\ alerts' = Tail(alerts)
  /\ UNCHANGED <<loaded, batches, handed, restarts>>

\* cleanup_on_failure removes the json it wrote and then the whole directory,
\* data of another format included; failures of its own are ignored, so that
\* any file may be left.
Cleanup(r) ==
  \E left \in SUBSET {"json", "data", "info", "legacy"} :
    /\ json' = [json EXCEPT ![r] = @ /\ "json" \in left]
    /\ data' = [data EXCEPT ![r] = IF "data" \in left THEN @ ELSE "none"]
    /\ info' = [info EXCEPT ![r] = IF "info" \in left THEN @ ELSE "none"]
    /\ legacy' = [legacy EXCEPT ![r] = @ /\ "legacy" \in left]
    /\ UNCHANGED yaml

BeginGenerate ==
  /\ pc = "add" /\ alerts # <<>> /\ ~Skips(Head(alerts))
  /\ pc' = IF AddJson THEN "json" ELSE "data"
  /\ UNCHANGED <<disk, memory, loaded, alerts, batches, history>>

\* No provider in the event, or create_dir_all fails: nothing was written.
GenerateRefused ==
  /\ pc = "add" /\ alerts # <<>> /\ ~Skips(Head(alerts))
  /\ Fail(Head(alerts))
  /\ UNCHANGED disk

\* write_json_output.
WriteJson ==
  /\ pc = "json"
  /\ json' = [json EXCEPT ![Head(alerts)] = TRUE]
  /\ pc' = "data"
  /\ UNCHANGED <<data, info, legacy, yaml, memory, loaded, alerts, batches, history>>

\* write_primary_data creates the file and then fills it; EvtExportLog may
\* leave a file with a header and no record in between.
OpenData ==
  /\ pc = "data"
  /\ \E torn \in {"empty"} \cup (IF Format = "Evtx" THEN {"bad"} ELSE {}) :
       data' = [data EXCEPT ![Head(alerts)] = torn]
  /\ pc' = "data_write"
  /\ UNCHANGED <<json, info, legacy, yaml, memory, loaded, alerts, batches, history>>

WriteData ==
  /\ pc = "data_write"
  /\ data' = [data EXCEPT ![Head(alerts)] = "ok"]
  /\ pc' = "info"
  /\ UNCHANGED <<json, info, legacy, yaml, memory, loaded, alerts, batches, history>>

\* A failure of write_data_files at any of its operations.
DataFails ==
  /\ pc \in {"json", "data", "data_write"}
  /\ Cleanup(Head(alerts))
  /\ Fail(Head(alerts))

\* InfoYml::save creates info.yml and then writes it.
OpenInfo ==
  /\ pc = "info"
  /\ info' = [info EXCEPT ![Head(alerts)] = "torn"]
  /\ pc' = "info_write"
  /\ UNCHANGED <<json, data, legacy, yaml, memory, loaded, alerts, batches, history>>

WriteInfo ==
  /\ pc = "info_write"
  /\ info' = [info EXCEPT ![Head(alerts)] = "ok"]
  /\ pc' = "yaml"
  /\ UNCHANGED <<json, data, legacy, yaml, memory, loaded, alerts, batches, history>>

\* Mutant: generate() ignores the result of save().
InfoFailsSilently ==
  /\ pc \in {"info", "info_write"}
  /\ pc' = "yaml"
  /\ UNCHANGED <<disk, memory, loaded, alerts, batches, history>>

\* save() failed: the error goes up with `?` and nothing is cleaned.
InfoFails ==
  /\ pc \in {"info", "info_write"}
  /\ Fail(Head(alerts))
  /\ UNCHANGED disk

\* update_regression_tests_path rewrites the rule file in place.
OpenYaml ==
  /\ pc = "yaml" /\ yaml[Head(alerts)] # "set"
  /\ yaml' = [yaml EXCEPT ![Head(alerts)] = "torn"]
  /\ pc' = "yaml_write"
  /\ UNCHANGED <<json, data, info, legacy, memory, loaded, alerts, batches, history>>

\* add() returns the files: the rule file was already annotated, could not be
\* read, is written now, or its write failed and left it cut short; the last
\* two of the failures only warn.
Deliver ==
  /\ \/ pc = "yaml" /\ UNCHANGED yaml
     \/ pc = "yaml_write" /\ yaml' = [yaml EXCEPT ![Head(alerts)] = "set"]
     \/ pc = "yaml_write" /\ UNCHANGED yaml
  /\ retired' = retired \cup {Head(alerts)}
  /\ batches' = batches \cup {Head(alerts)}
  /\ alerts' = Tail(alerts)
  /\ pc' = "add"
  /\ UNCHANGED <<json, data, info, legacy, failed_cycles, failed_this_cycle,
                 blocked, loaded, history>>

\* Mutant: the blocked rules are not drained into the retired ones.
RetiredIdsWithoutBlocked == batches

\* take_blocked: the rules of this cycle to drop from the engine.
RetiredIds == batches \cup blocked

\* The end of process_and_generate; reload_rules may fail, which only warns
\* and leaves the engine with the retired rules.
EndCycle ==
  /\ pc = "add" /\ alerts = <<>>
  /\ rules' = rules \ RetiredIds
  /\ IF RetiredIds = {} THEN UNCHANGED engine ELSE engine' \in {rules', engine}
  /\ blocked' = {}
  /\ handed' = handed \cup batches
  /\ batches' = {}
  /\ pc' = "idle"
  /\ UNCHANGED <<disk, retired, failed_cycles, failed_this_cycle, alerts,
                 failures, failedNow, restarts>>

\* The process ends: between cycles by itself, at any point when killed.
Stop ==
  /\ pc # "down" /\ restarts < MaxRestarts
  /\ retired' = {} /\ failed_this_cycle' = {} /\ blocked' = {}
  /\ failed_cycles' = [r \in Rules |-> 0]
  /\ rules' = {} /\ engine' = {}
  /\ pc' = "down" /\ alerts' = <<>> /\ batches' = {}
  /\ failures' = [r \in Rules |-> 0] /\ failedNow' = {} /\ handed' = {}
  /\ restarts' = restarts + 1
  /\ UNCHANGED disk

Step == \/ SkipAlert \/ BeginGenerate \/ GenerateRefused
        \/ WriteJson \/ OpenData \/ WriteData \/ DataFails
        \/ OpenInfo \/ WriteInfo \/ InfoFails
        \/ OpenYaml \/ Deliver \/ EndCycle

Next == Startup \/ BeginCycle \/ Step \/ Stop

Spec == Init /\ [][Next]_vars

\* A cycle that began runs to its end (a blocking task is not cancelled), a
\* process is started, and a rule in the engine keeps matching.
Fairness ==
  /\ WF_vars(Startup)
  /\ WF_vars(Step)
  /\ \A r \in Rules : SF_vars(BeginCycle /\ alerts' = <<r>>)

FairSpec == Spec /\ Fairness

-----------------------------------------------------------------------------
\* What add() hands over for commit has whole data and a whole info.yml, and
\* still has it when the rule file is written and at upload.
BatchesAreWhole == \A r \in batches \cup handed : data[r] = "ok" /\ info[r] = "ok"

\* max_failed_cycles counts cycles, not alerts: a rule is given up exactly when
\* it failed in that many cycles of this process, however often it matched.
GivenUpAtTheLimit ==
  \A r \in Rules : failures[r] = MaxFailedCycles <=> r \in retired \ (batches \cup handed)

\* Between cycles no retired rule is in the rule set, so every later reload
\* drops it even when the reload of its own cycle failed.
RetiredLeaveTheRules == pc = "idle" => rules \cap retired = {} /\ blocked = {}

\* Within a process nothing is written for a rule that was retired, although
\* an engine that failed to reload still matches it.
RetiredAreLeftAlone ==
  [][\A r \in retired : pc' # "down" =>
       <<data[r], info[r], json[r], yaml[r]>>' = <<data[r], info[r], json[r], yaml[r]>>]_vars

\* A rule that keeps matching is captured or given up, or its directory holds
\* an info.yml that makes add() skip it.
KeepsMatchingIsSettled ==
  \A r \in Rules : (pc = "idle" /\ r \in engine)
                     ~> (r \in retired \/ Exists(r) \/ pc = "down")

\* The tree implements the promise made of one rule.
ImplementsLifecycle == Lifecycle!Spec
=============================================================================
