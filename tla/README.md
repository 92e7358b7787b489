# A TLA+ model of sigmacatch

sigmacatch watches a host's logs, matches every event against the Sigma rules
of a cloned SigmaHQ repository, and for each rule that matches writes the
event as *regression data* into the clone, commits it on a working branch and,
if asked, pushes it to a fork. A rule is captured once; data that was captured
must be complete, must not be captured again and must not be lost on the way.

This directory holds TLA+ modules of the parts of the program on which that
depends, TLC configurations that check them on small instances, and proofs of
the central modules' properties for every instance. Source paths below are
relative to `sigmacatch/src/`, documents to `docs/en/`.

    tlc -config MCRegression.cfg MCRegression      # one run
    tlapm Regression_proofs.tla                    # the proofs

The leaves of the proofs are small enough for a slow machine: all are proved with a
third of the provers' default time as well (`tlapm --stretch 0.3`).

## 1. Inventory

### Parts and their state

| Part | State | Operations |
| --- | --- | --- |
| Generation, `regression/mod.rs`, `info.rs`, `format.rs`, `evtx.rs`, `logtype.rs` | the `regression_data` tree on disk; `retired`, `failed_cycles`, `failed_this_cycle`, `blocked` in memory | `begin_cycle`, `add`/`generate`, `note_generation_failure`, `take_blocked`, `clean_partial_artifacts`, `get_sigma_id` |
| Pipeline, `runner.rs` | `Pipeline { rules, engine, sigmahq }` in an `Option` slot, the channel, the `stop` watch, `runs_completed` | `run_with_cli`: startup, select loop, generation task, upload, shutdown |
| Git repository, `repo/mod.rs`, `repo/branch.rs`, `repo/porcelain.rs`, `repo/plumbing/*` | clone: refs, working tree, `.git/shallow`; the fork | `init`, `set_working_branch`, `get_sigma_id`, `upload_rule_batches`, rollback, `push`, background unshallow |
| File tail, `inputs/tail.rs` with `auditd.rs`, `syslog.rs`, `sysmon.rs` | open file and its identity, offset, partial line, open record group | poll, rotate, read, `flush`, `send_all` |
| Linux collectors, `inputs/linux.rs` | the set of running tails | spawn, join, report the failed ones |
| EVTX input, `evtx_reader.rs`, `inputs/evtx.rs` | list of files | `run` |
| Windows channels, `inputs/channels.rs` | `last_record_id`, query handle, batch of event handles, idle counters | query, `EvtNext`, send, rollover probe |
| eBPF collector, `ebpf/src/main.rs` (under `sigmacatch/`), `inputs/ebpf*.rs` | in the kernel two staging maps and the ring; in the collector the processes it has seen, the hash cache with its order | tracepoint probes; poll, render, send |
| Events, `types.rs`, `inputs/sysmon_parse.rs`, `evtx_reader.rs` | none: two JSON views of an event, tables of channels, services, categories | parse, normalise, inject the logsource |
| Detection engine, `detection/*` | compiled rules, id map, event buffer, alerts, compiled-rule cache on disk | `new_with_hir_cache`, `put_event`, `process_events`, `get_alerts`, `reload_rules` |
| Rule loading and filter, `rule/*` | rules, `rule_paths`, counters | `new_from_path`, `filter`, `remove_id`, `fingerprint` |
| EVTX writer, `regression/evtx_writer.rs` | none | record, checksum, FILETIME |
| Configuration and CLI, `config.rs`, `cli.rs`, the start of `runner.rs`, `main.rs` | `Config`, none changes after startup | arguments, file, overrides, validation, dry run |
| `bin/regressiondata-check.rs` | entries, one engine for all of them, counters | validate, replay, exit code, `--fix` |
| Transport, signing, git objects, logging | external or encodings | |

### How they interact

    collector task --mpsc(10 000)--> main task --move--> generation task (blocking)
         ^                             |  ^------ batches, retired rules ---|
         '--------- stop (watch) ------'
                                       |--> upload_rule_batches: commit, push
    background unshallow ---------- working tree, refs ----------'

The collector is a task (one-shot) or blocking threads (tails). The main task
`select!`s over shutdown, the channel and a 30 s interval. On a tick it moves
the whole `Pipeline` into a blocking task, which examines the buffered events,
writes the files of every captured rule and gives the pipeline back, and then
uploads what was captured. While the pipeline is lent nothing is received; the
channel is the only buffer. Ctrl+C and a stop file set the `stop` watch, which
the collector, the select loop and the upload each read at their own moment.
The clone's working tree is written by the generation task, the upload and the
background unshallow without a common lock.

### What is hard, and what must hold

* Generation: every file operation can fail, and the process can be killed
  between any two. *What is handed over is whole; a failure is counted once per
  cycle and a rule is given up exactly at the limit; a retired rule is never
  written again; a matching rule is settled.*
* Pipeline: four actors, two timeouts, panics, a lent pipeline and a bounded
  channel. *Events reach the engine in order and exactly once; the last flush
  is complete; shutdown terminates, whoever waits for whom.*
* Repository: stale fetches, lost answers, partial batches, several processes
  on one day and the next. *A rule is contributed once; only published data is
  skipped; the working branch extends the fork's; a failed upload leaves
  nothing behind for a later push.*
* Rule set and engine: files in any order that name one id, a cache left by
  another process, saves cut short, reloads that fail. *The engine runs just the
  rules of the set, each once; a rule that has left is not detected again; an
  alert points at the file of the rule that matched.*
* Committed data: data of older versions and of people, one engine for all
  entries, files rewritten in place. *A verdict depends on its own entry only;
  exit code 0 means that the data is sound; `--fix` leaves a layout that is read
  as before and needs no second fix; what the program writes passes its check.*
* eBPF: records of threads and processes that are gone when they are read, ids
  that are used again, a ring that is full, images that change while they are
  hashed. *An event has the identity of the process that caused it; a hash is of
  a content that the file had; the cache can always be emptied.*
* Events: two JSON views built by two recursions, tables in four files that must
  agree. *Every rule sees the events of its category and no others; what it
  matched is in the data that is written.*
* EVTX writer: calendar arithmetic over centuries, zones and epochs.
* Startup: file, flags and their precedence; sources that appear late.
  *`offline` touches no network, a dry run writes nothing, and no line is
  emitted by two collectors.*
* Tails: a file that grows by parts of lines and is rotated away at any moment.
  *Records leave in order, once, in groups that are one audit event; only
  rotation loses any; a record written is sent.*
* Windows channels: a cursor, batches of handles, a channel that fills up, a log
  that is cleared. *The cursor leaves nothing behind and nothing is sent twice;
  what is logged is sent.*

`PROJECT.json` lists the hazards line by line with the property that covers
each, or the reason why none does yet.

## 2. Plan

| Module | Models | State |
| --- | --- | --- |
| `RuleLifecycle` | abstract: what is promised of a rule | done |
| `Regression` | generation over the disk, kills and restarts; refines `RuleLifecycle` | done, proved |
| `EventStream` | abstract: what a run promises of the events of its source | done |
| `Capture` | collector, channel, main loop, shutdown; refines `EventStream` | done, checked and proved |
| `Repo` | clone, fork, branches, skip set, uploads over several processes | done, checked and proved |
| `Tail` | file identity, offset, rotation, partial lines, audit groups | done, checked and proved |
| `Winevt` | record-id cursor, handle batches, `MAX_EVENTS`, the full channel, rollover probe | done, checked and proved |
| `RuleSet` | from rule files to alerts: loading, skip set, filter, engine, its cache, retirement | done, checked and proved |
| `InfoLayout`, `CommittedData` | the layout of `info.yml`; the check tool and its `--fix`, against what capture writes | done, checked and proved |
| `Ebpf` | probes, ring, process table, hash cache | done, checked and proved |
| `Events`, `EvtxTime` | JSON views, logsource and pipelines; FILETIME against a walked calendar | done, checked (together, in `MCConversions`) and proved |
| `Startup` | arguments, configuration, dry run, selection of sources | done, checked and proved |

Left out of the plan: the composition of `Regression` with `Repo`. A restart with git
begins in the tree that `checkout_main_branch` has written, which holds the committed
data of rules and nothing else. Commits hold whole data (`BatchesAreWhole`, but for
finding 26), so that such a tree is an initial state of `Regression`, but for a JSON
file beside whole data, which no step asks about (`Partial` looks at it only where
`info.yml` is missing); the theorems hold from every initial state, and which rules
the tree holds is the `Mirror` of `Repo`. A module that runs both would repeat them. `Tail` and `Winevt`
do not refine `EventStream`: rotation and `MAX_EVENTS` lose events between others, which
`SentAsWritten` and `NothingSkipped` name one by one.

## 3. The modules and the code

`PROJECT.json`, under `map`, gives the lines of every definition. Definitions
marked as mutants in the modules (`\* Mutant: ...`) are plausible bugs in the
definition near them; none is part of a specification. They are there to show
that each property can be violated: with the mutant in the place of the
definition, TLC finds a counterexample under the same configuration.

### Regression, and RuleLifecycle

State: per rule, what is on disk (`json`, `data`, `info`, `legacy`, `yaml`,
each absent, torn, or whole, as far as the code can tell the difference); the
four fields of `SigmahqRegression` (`retired`, `failed_cycles`,
`failed_this_cycle`, `blocked`); the rule set and the compiled engine, which
differ when `reload_rules` fails; the program counter of
`process_and_generate` with the alerts still to do and the batch.

Actions: `Startup` (load, skip set, engine, `clean_partial_artifacts`);
`BeginCycle` (events examined, `begin_cycle`); `SkipAlert`; `BeginGenerate` and
one action for each file operation of `generate`: `WriteJson`, `OpenData`,
`WriteData`, `OpenInfo`, `WriteInfo`, `OpenYaml`, `Deliver`; their failures
`GenerateRefused`, `DataFails` (with `cleanup_on_failure`, which may itself
leave any file), `InfoFails`, and the failing write of the rule file inside
`Deliver`; `EndCycle` (`remove_id`, `take_blocked`, `reload_rules`); `Stop`,
the end or kill of the process between any two of them. A file that is created
and then written is torn in between, because a kill finds it so.

Data: the contents of files are reduced to what `exists`, `get_sigma_id` and
`clean_recursive` distinguish. `EvtExportLog` may leave a file with a header
and no records, so in the EVTX format a torn data file may be non-empty.
`failures`, `failedNow`, `handed` and `restarts` are history.

`RuleLifecycle` says what this comes to from outside: a rule is open, captured
or blocked; captured is for ever; blocked lasts as long as the process.
`Life` in `Regression` is the refinement mapping: captured is whole data with a
whole `info.yml` of this data, blocked is retired without that. Two things make
the refinement more than its parts: rollback of a failed generation must never
hit captured data, and a blocked rule must really be left alone, even by an
engine that still matches it.

### Capture

State: the collector (between sends, in a send, ended), the channel, the
engine's buffer, what has been examined, the main task's position, the slot of
the pipeline, `stop`, `runs_completed`, the upload's batch and progress.
Events are numbered in the order in which the collector sends them.

Actions: the collector (`NextEvent`, `Send`, `CollectorEnds`; the guard of
`NextEvent` is where a one-shot collector reads `stop` before each event and a
tail does not); one per branch of the `select!` (`ObserveStop`, `Receive`,
`EndOfEvents`, `TickFires`); the generation task (`Generate`,
`GeneratePanics`); the upload (`CommitRule`, `DeferRest`, `UploadDone`,
`UploadFails`); shutdown (`CollectorJoined`, `CollectorTimeout`, `DrainOne`,
`DrainEnds`, `DrainTimeout`, `FinalGenerate`, `FinalGeneratePanics`);
`Interrupt`. The mode (live or one-shot) and `max_runs` are chosen in `Init`.

`EventStream` is the run as seen from its source: events taken, events examined, the
captures that wait for their upload and those that came to an end, whether the run
was cut and whether it ended. The channel, the buffer, the lent pipeline and the
stages of the shutdown are not in it. In the refinement a cycle is `Examine`, the end
of an upload is `Upload` or `Fail`, a panic, the drain's timeout and the abort of a
one-shot collector are `Cut`; a commit and every move of an event on its way is a
stutter.

### Repo

State: the default branch, the fork's branches, tracking refs, local branches,
working tree, `.git/shallow`, the background unshallow, the process (day,
number, contrib), its skip set and its upload. A branch is the upstream tree it
began from and the commits on it. Of the working tree the model has the rules with
all their files (`worktree`) and those that a checkout has taken some from
(`partial`); a commit has data of its rule or, when it was made from what was left,
maybe not.

Actions: `Start` (clone or open, best-effort fetch, `create_branch`,
`checkout_main_branch`, the skip set); `Capture`; `BeginUpload`, `CommitRule`,
`Abort`, `CommitFails`, `KeepLocal`, `Push`, `PushFails` (including the push
that arrives and whose answer does not), the last two with `Undo`, the rollback,
which may fail itself and then leaves the commits to a later push; `Unshallow`, the fetch in the background,
and the checkout that follows it, `RemoveFiles` for the files of one rule and
`CheckedOut`; `Interrupt`; `Stop`; `Merge`, the only action that is not the program's.

### EvtxTime

`UnixDays`, `Accepts`, `ZoneOffset` and `Filetime` are the functions of
`evtx_writer.rs`; the state machine around them is the reference, a calendar
that is walked one day after the other, with `DateBefore` and `DateAfter`, the dates
beside the one it is at: a local time near midnight is compared with the UTC time on
the neighbouring date. Time is in units of 72 s, which divide
an hour, a half hour and the epoch constant, so that all sums stay within TLC's
integers; seconds and their fraction only add to the sum and are left out.

### RuleSet

A *document* is what a rule file says, without the annotation that capture
adds; `Meta` gives what loading, filter, compiling and naming look at. A rule is
a document with the file it was loaded from. State: the files, the ids with data,
the cache file (absent, torn in its key, torn in its blob, whole); the rules,
`rule_paths` and counters of `SigmahqRules`; the engine as the number of times
each document is compiled in it, and the id map it was given.

Actions: `Start` (with `FindRulesDirs`: several names of one directory, whichever
`read_dir` yields first), `LoadFile` in any order, `FilterRules` (skip set and
filter), `WarmStart`, `ColdStart` and `AddRulesFails`, `BeginSave`, `EndSave` and
`SaveFails`, `ProcessEvents`, `Retire` (the captured and the given-up rules leave
set and engine), `Stop` at any point, and `Update`, a file of the clone changed
between two processes. `fingerprint` digests the rules; the model has the bag of
what it digests, so that equal keys mean equal rules.

### InfoLayout, CommittedData

`InfoLayout` has the lines of an `info.yml` (key, item, column): what serde
writes, `to_sigma_indent` (`OpenAfter` is the key that is open after each line), the
comparison with the canonical layout, `reindent`, and `Owners`, the nesting a YAML
reader finds. `CommittedData` has one directory
per rule with its layout, tests and data files, and the rule files. Actions:
`Generate` (what a capture leaves there); `StartCheck`, `CheckEntry` in any order
with the tests of an entry in the order of the code (`Checks`), `FinishCheck`;
`StartFix`, `FixJson`, `FixInfo`, `FixFails`, `FixKilled`, `FinishFix`; `Leave`.
The directories that a run begins with are those that the program, older
versions of it, the upstream repository and people leave.

### Ebpf

State: threads, processes and the calls they are in; the staging maps, the slot
that a probe has removed and is about to copy, the ring; the builder's `parents`,
`hashes`, `hash_order` and the hash it is computing; the last event sent.
Actions: one per probe, with the calls around it (`EnterExecve`, `Exec`,
`EmitExec`, `EnterOpenat`, `ExitOpenat`, `Connect`, `Send`, `Exit`, `CallFails`),
what no probe sees (`Fork`, `Clone`, `EnterExecveat`, `Rewrite`), and the
collector's (`New`, `Wake`, `Drained`, `BuildExec` and `ReadImage`, `BuildNet`,
`BuildFile`, `BuildDns`, `BuildExit`, `ReceiverGone`). A map at its limit gives up
some entry, a ring that is full drops the record.

The handlers differ in what they do with a process that `parents` does not have:
`net_event` sends the null guid, `file_create_event` and `dns_event` make a new one
for each event, and `exit_event` sends nothing. Guids are modelled by the number of
the record they are made for, so that no two made for different records are equal;
0 is the null one. Three fields of a record are history: the image its process ran,
the number of the last exec it left, and whether that is sure because no change of
what its id stands for was dropped or misread. `IdentityIsTheCallers` compares the
guid and image sent with them, and exempts a record that is not sure: a process
whose predecessor's exit was dropped is sent with the identity of that one
(finding 27).

### Events

A document is the sequence of its elements in document order, each with the places
of its children, as the parser keeps it. Functions lead from a document to the two
JSON views (`NodeToValue`, `NodeToValueRaw`: recursive functions over the places,
what an element becomes depends on later places only), to the injected logsource
(`WithInjectedLogsource`), and from
a rule to what the two pipeline files make of it (`Piped`). Three actions are the
three collectors that parse XML. The tables of `types.rs` are reduced to the
channels that behave differently: routed by category, by service, by provider,
not at all. The reference is `Categories`, which says what Sigma gives an event.
`WhatMatchedIsRecorded` compares the two views part by part (`Parts`: each element of
the event and each of its attributes, down to the values in System, UserData and
EventData) and accepts as another spelling of a text only the number it denotes or
the GUID it is (`Says`).

### Startup

State: what the process was started with (arguments, `config.yaml`, build,
machine), the stage it has reached, the effective configuration, what it did to
disk and network, the collectors and the files they tail, the lines written and
by whom they were emitted. `Turns` is the parser's loop over the arguments, whose
last state `ParseArgs` takes. The specification is `StartupSpec`. Actions: `Main`
(arguments), `FindEvtxFiles`,
`LinuxGuards`, `Load`, `LoadForDryRun`, `RunDry`, `Bootstrap`, `BuildCollectors`,
`RunCollector`, `Publish`, and of the machine `FileAppears` and `WriteLine`.

### Tail

State: the files, the file that the path names and the one that the writing
program has open, the lines it has begun; `TailState` (open file, offset,
`pending`); the group of the auditd handler; the position in `poll`; what was
sent, each record with its group and the record its raw fields were read from.
A line is written in two halves, the second with the newline, and a read takes
up to `ReadMax` halves, so that it may end in a line or between two.

Actions: `Open`, `BeginPoll` (with `CheckRotation`), `Reopen` (with `on_rotate`),
`Idle` (with `on_idle`), `Read` (with `drain_lines` and `on_line`, half by half),
`ReadFails`, `End`. Of the environment: `WriteHead`, `WriteEnd`, and rotation as `Rename`,
`Create` and `WriterReopens`, between any two steps of the tail. The handler is
chosen in `Init`: `auditd`, which groups, or `lines`, which stands for syslog
and sysmon. A tail that attaches in the middle of a line reads its second half
as a line that does not parse. `start` is history: where reading of the open
file began.

### Winevt

State: the log and its newest record id; `last_record_id`, the query (the cursor
in its text, whether its handle is open, how far it was read), the batch of open
event handles, `total_sent`, `empty_cycles`, the position in
`collect_continuous`, the channel. History: the log the cursor came from and the
three ways in which the code may pass an event over (`unrendered`, `outgrown`,
`capped`).

Actions: `KeepQuery`, `OpenQuery`, `QueryFails`; `Fetch`, `CycleEnds`,
`FetchFails` (the last two with the idle counter and the probe); for each event
of a batch `DropEvent`, `TrySend` or `Full` and then `Send`; `End`. Of the
environment: `LogEvent`, `ClearLog`, `Receive`.

The event log is external. The model takes from the code, which keeps a handle
over idle cycles, that a handle goes on to events logged after it was opened;
and that after the log was cleared EvtNext fails on it, as the API documents for
a stale query result.

## 4. The runs

| Run | Instance | Shows |
| --- | --- | --- |
| `regression` | 2 rules, limit 2, 2 alerts a cycle, 1 restart; 428 608 states | `BatchesAreWhole`, `GivenUpAtTheLimit`, `RetiredLeaveTheRules`, `RetiredAreLeftAlone`, and that `Regression` implements `RuleLifecycle` |
| `regression_settles` | 1 rule, limit 3, fairness; 2 955 states | `KeepsMatchingIsSettled` |
| `capture` | 3 events, channel of 2, limit none or 2, fairness; 23 295 states | `NoEventIsLost`, `FinalFlushIsSettled`, `TakenIsExamined`, `RunsTerminate`, and that `Capture` implements `EventStream` |
| `repo` | 2 rules, 2 days, 3 processes; 887 731 states | `ContributedOnce`, `OnlyPublishedIsSkipped`, `LocalExtendsFork`, `FailedUploadLeavesNoCommit` |
| `tail` | 3 lines, 2 files, reads of 3 halves, fairness; 95 853 states | `SentAsWritten`, `ReadIsSent`, `GroupsCloseWhenIdle` |
| `winevt` | 3 events, batches of 2, channel of 1, 1 clearing, `MAX_EVENTS` 3, fairness; 69 800 states | `SentInOrder`, `NothingSkipped`, `LoggedIsSent` |
| `ruleset` | 5 files, 7 documents, 2 ids, 2 filters; 1 400 212 states | `EngineRunsTheRules`, `CacheHoldsItsKey`, `RetiredAreNotDetected`, `EveryIdIsAccountedFor`, `AlertsPointAtTheirFile` |
| `committed` | a Windows and a Linux rule, 18 and 5 directories; 401 728 states | `VerdictsAreTheirOwn`, `CleanMeansSound`, `FixSettles`, `GeneratedPasses` |
| `ebpf` | 2 process ids, 1 more thread, 2 images, 2 other paths, ring of 2, maps and cache of 1; 3 905 236 states | `IdentityIsTheCallers`, `HashesAreOfTheContent`, `EveryHashCanBeEvicted` |
| `conversions` | 885 documents, 25 rules, every day from 1601 to 2001; 148 231 states | `RulesSeeTheirEvents`, `WhatMatchedIsRecorded`, `DaysAreCounted`, `SameInstantSameFiletime` |
| `startup` | 1 885 command lines, 66 files, 7 builds on 32 machines; 2 549 382 states | `OfflineStaysLocal`, `DryRunWritesNothing`, `OneLineOneCollector` |
| `events_qualified` | events whose `EventID` has an attribute | a counterexample to `QualifiedIdsAreRead` |

`NoEventIsLost`, `RunsTerminate`, `SentAsWritten` and `GroupsCloseWhenIdle` are
conjunctions of named parts, each with its own comment. Every state machine has
a `TypeOK` that documents its variables; that of `Regression` is proved
(`TypeCorrect`), and any can be checked with `INVARIANT TypeOK`.

Why the bounds are enough. In `Regression` rules interact only through the
alert list, the batch and the two retirement lists, so two rules give every
mixture of a rule that fails with one that is captured; two alerts let one rule
match twice in a cycle, which is what the per-cycle count is about; a limit of
two separates the first failure from the last, and the liveness run takes three
so that there is a middle; one restart is enough because nothing but the disk
survives it, and the proofs remove the bound. In `Capture` the channel has to be
full while one event is in the collector's hand: three events and room for two.
In `Repo` a third process sees what the second did to what the first left, and
two days give a branch of today and one of another day; two rules give a batch
that can fail or be aborted after its first commit. In `Tail` three lines make a
group of two and the line that closes it, in one file or over a rotation, and a
buffer of three halves ends now in a line, now after one, and can hold the end of
one and the whole of the next. In `Winevt` a batch of two leaves a rest to close
when the channel of one is full; three events reach `MAX_EVENTS` in the second
batch of a cycle; a cleared log of up to three can stay below the old cursor or
outgrow it.

In `RuleSet` five files give an id in three of them (once in a directory that is
no rules directory), duplicates with the same and with other content, a document
that does not parse, one that does not compile, an id in two spellings, a rule of
another product without an id; one process fills the cache that the next one finds, with or without an
update between. Processes are not counted: the state space is finite. In
`CommittedData` entries meet in the engine, in the counters and in the paths that
rules name; two entries are enough for each, and every directory but a few has one
thing wrong. In `Ebpf` maps and cache of one entry are always at their limit, a
ring of two keeps the order of two records and drops a third; the bounds on
processes (2), calls and rewrites are in the guards; two processes take one id in
turn. In `MCConversions` the walk through four centuries has three century
years that skip their leap day and one that keeps it, and eras repeat every 400
years. EventData of three elements has two unnamed ones around a named one. In
`Startup` three tokens hold an option with its value and a flag on either side;
one line is enough because no handler of a line keeps anything.

Deadlock is not checked where the system really stops: a process with nothing left
to do or no restart left (`Regression`, `Repo`), a finished run (`Capture`,
`Startup`), an ended collector (`Tail`, `Winevt`, `Ebpf`), a converted event and
the end of the calendar (`MCConversions`). It is checked in `ruleset` and
`committed`. Symmetry of the rules is used in the safety runs of `Regression` and
`Repo` only.

### Fairness

* `Regression`: weak fairness of `Startup` (somebody runs the program) and of
  `Step` as a whole: a blocking task cannot be cancelled by the select loop, so a
  cycle that began runs to its end or is killed. Strong fairness of a cycle
  whose only alert is of rule `r`: the rule keeps matching. No file operation is
  assumed ever to succeed.
* `Capture`: weak fairness of the main task's own steps (a blocking task
  returns, the timers of the join and of the drain fire). Strong fairness of
  each branch of the `select!`, which polls ready branches in random order, and
  of `Send`, because a waiting sender is queued by the channel. Weak fairness of
  a one-shot collector, which reads on, and of the end of a collector that has
  been told to stop or has nobody to send to. Nothing is assumed of a live
  collector that has not been stopped, of `Interrupt`, or of uploads succeeding.
* `Tail`: weak fairness of opening and polling, which are the thread's own steps,
  and strong fairness of `Idle` and of `Read`: a read may fail, but not for ever.
  Nothing is assumed of the program that writes.
* `Winevt`: weak fairness of the thread's own steps and of `Receive`, and strong
  fairness of what may fail or has to wait, but not for ever: EvtNext, the send
  into a full channel, and a probe that resets the cursor. Nothing is assumed of
  EvtQuery.
* All other modules: none; their properties are safety properties.

## 5. The proofs

Eight modules hold proofs; `Windows_proofs` is about `Winevt`, `Events` and
`EvtxTime`, `Linux_proofs` about `Startup` and `Tail`, each of the others about the
module it is named after. They prove every safety property that a run checks,
for every value of the constants that the named assumptions admit. TLC evaluates the assumptions on the constants in the runs of the
modules. Hardly any of the checked invariants is inductive as it stands; what each
proof adds is told below.

### Regression_proofs

`Regression_proofs.tla` proves, for every set of rules, limit, format and
number of restarts, every invariant of the run `regression`, its action
property and its refinement. The only assumption is `RegressionAssumption`:
the limit is a positive natural (the code clamps it to 1), the format is one of
the two.

`IndInv` adds to `TypeOK`

* `FreshWhenDown`: nothing in memory survives the process. Without it
  `GivenUpAtTheLimit` could not be re-established at a restart.
* `Progress`: what `generate` has achieved at the point it has reached; at
  `info` the data file of the first alert is whole, at `yaml` its `info.yml` is
  too, and until then the rule is not captured. It is what `Deliver` needs for
  `BatchesAreWhole` and what lets the failure path remove a directory.
* `InfoTellsTheTruth`: an `info.yml` of this program comes with whole data. It
  makes `Exists` true of every captured rule, so that `add` skips it, from which
  "captured is for ever" follows.
* `Delivered`: what was handed over is retired, hence never written again, hence
  still whole at upload.
* `Counted`: `failed_cycles` is the number of failing cycles as long as the rule
  is not retired. The counter is reset when the rule is blocked, so that
  the limit itself cannot be read from it afterwards.
* `Leaving`: a retired rule that is still in the rule set is in the batch or
  in `blocked`; `EndCycle` then drops it.

One lemma per conjunct shows that every action preserves it; `Invariance`
combines them. `TypeCorrect`, `HandedOverWhole`, `GivenUpOnTime` and
`RetiredHaveLeft` follow from `IndInv`; `RetiredUntouched` and `Refinement` are
shown step by step with `IndInv` in the source state. In the refinement a
successful `WriteInfo` is `Capture`, the last failing step is `Block`, `Startup`
and `Stop` are themselves and everything else stutters.

### Capture_proofs

`NothingIsLost`, `TheFlushIsCompleted` and `TheLimitIsKept`, for a source and a
channel of any size and any limits; `CaptureAssumption` is used for the limits to be
numbers only. In `IndInv`

* `Places` says `NothingLostOnTheWay` by positions: the event at each place of
  `examined`, the buffer and the channel is the one whose number follows, and
  `taken` counts them all with the one in the collector's hand. A step then moves
  one event over one border;
* `Drained` holds that once the receiver is dropped the channel is empty and the
  collector has ended, unless the run was cut: it is what `drop(rx)` without a loss
  rests on, and it makes `CollectorEnds` of a waiting sender impossible;
* `WholeSource` ties the end of a one-shot collector to the end of its source
  when neither a limit nor Ctrl+C has set `stop`.

`TheFlushIsCompleted` follows what the last flush captured (`flushed`, a history
variable) to its end. `FlushInv` ties it to the batch while it is uploaded; that its
upload is not cut short by the shutdown flag is one half, and the other is that none
of it had come to an end in an earlier cycle (`OneEnd` of the stream), without which a
one-shot run could end in error over rules that are in the repository. `TheLimitIsKept` is the
part of `RunsTerminate` that is no liveness property; `LimitInv` adds that a run which
is still in its loop has a cycle left, through every way an upload may end.

`RunsAreStreams` proves the refinement of `EventStream`, step by step. The invariant of
`NothingIsLost` promises nothing of a run that was cut, but the stream does: what it
loses is what was taken last. `InOrder` therefore follows the places through every
cut. A panic loses the buffer, and nothing is examined after it; the drain's timeout
empties the channel behind the buffer; an aborted collector loses the event in its
hand, which comes after all others. Only while the collector and the channel live
do the places add up to what was taken. `BatchInv` says that there is a batch just
while it is uploaded, so that every capture belongs to the upload that ends it.
`EveryCaptureHasOneEnd` follows from the steps of the stream alone: a rule that was
captured is uploaded, left to a later run or failed, and only one of these.

### Repo_proofs

`SkippedIsPublished`, `TheBranchExtendsTheFork`, `AFailedUploadLeavesNothing` and
`EveryRuleIsContributedOnce`, for any numbers of rules, days and processes.
`RepoAssumption` types the bounds; `NoBranchAssumption` says that the absent branch
is none. `IndInv` adds that tracking refs only know what is published
(`TrackedIsPublished`), that the tip a rollback goes back to is on top of the fork
too (`PreExtendsFork`), and that a commit which is neither on the fork nor kept by an
abort or a rollback that failed is one of the upload that is going on (`OnlyTheUploadIsNew`). `OnceInv` adds for
`ContributedOnce` what it needs of the local side: the working branch has a rule
once and none that another branch of the fork has (`Own`), as has the tip of the
rollback; the batch has neither a skipped rule nor one twice (`BatchIsNew`);
unless the knowledge was stale, the skip set covers the branches of other days; and
only a rule that lost files before its commit is committed without data (`Intact`,
`FilesAreKnown`). Such rules (`torn`) are exempt, see finding 26.

### Windows_proofs

`EventsAreSentInOrder` and `TheCursorSkipsNothing`, for batches, channels, logs and a
cap of any size, from `WinevtAssumption` (they are positive). `OrderInv` relates the
four places that know how far the log was read: the open events are the last ones
that the handle gave and come after the cursor (`BatchIsInOrder`), an id of this log
is in the log (`CursorIsInTheLog`), and what was sent is behind handle, open events
and cursor (`SentIsBehind`). A query that is made again from the cursor then
repeats nothing. `SkipInv` adds that all that a handle has passed is sent, open or
a named gap (`HandleSkipsNothing`): closing the rest of a batch is harmless because
the handle goes with it.

`EveryDayIsCounted` and `TheZoneDoesNotMatter`, for every date after 1601-01-01 (the
walk of `MCConversions` ends at `LastYear`, this one does not), every time of day and
offset. `Counted` is inductive; the work is in the lemmas on the formula: what a
day, the end of a month, of a year and of an era add to it. The zones use the same
lemmas: `DatesBeside` says that the formula gives the next date one day more and the
last date one less, whatever month or year ends between them, and `MinutesCarried`
and `HoursCarried` that a carry by hand moves as much from one place to the next.
`EvtxTimeAssumption` types clocks and offsets.

`WhatMatchedIsWritten` and `RulesAndTablesAgree` are about `Events`, for documents of
any size, depth, names and texts, for any rules and any custom channels. `ReadInv`
says what a collector has made of its document; the work is in what the views of a
document are. `ValuesExist` shows, by induction over the elements from the last to the
first, that the functions which `NodeToValue` and `NodeToValueRaw` choose exist;
`NamedByKids` is what the members of an element are, after later children took the
place of earlier ones of the same name. For the first theorem, every part is an
element, of which the detection view may lack what was taken out of it
(`Narrower`), the attributes of one, or one attribute (`IsPart`); what is inside a part is a
part again (`InsideIsPart`), and a part is written. For EventData, `DataIsRecorded` follows
one `<Data>` element through both views: the last element whose key in the detection
view is the matched one has, in the raw view, a name of which that key comes, and
it is the last with that name. For the second, every table becomes a fact about
the channel and the id of the System of the event (`JudgedBy`), and
each kind of rule is compared with `Categories` in lemmas of its own.

The assumptions describe the input. `DocumentsAssumption`: a document is a tree with
the System that Windows and Sysmon write, a provider has no two attributes of one name
(XML forbids it), Sysmon types its registry events, and a field is not called
`#attributes`. `RulesAssumption`: a rule has a category that the pipelines route or a
service of the tables. `CustomChannelsAssumption`: a custom channel is none of the
known ones and not a number. `PositionalKeysAssumption`: there are names enough for
elements without one. That an event id is plain (`IdsArePlain`) is a hypothesis of
`RulesAndTablesAgree` and not an assumption of the module, because finding 1 is just
what happens without it; `RulesSeeOnlyTheirEvents` shows that it is needed for the
first half only: a qualified id hides events from rules, and adds none.

### RuleSet_proofs

`EngineIsTheRules`, `CacheIsItsKey`, `RetiredAreGone`, `AlertsLeadToTheirFile` and
`NoIdIsLost`, for every tree of files, documents and names, and any number of processes, updates and
cycles. Assumed is that a file has documents of the model and that a document
with an id has one of the ids (`DocsAssumption`, `MetaAssumption`). `IndInv` adds where the rules
come from (`RulesAreOfTheirFiles`), that retired ids have left from the skip set on
(`RetiredHaveLeft`), that an engine is built from the rules, which compile
(`EngineIsBuilt`), and that a whole cache only has rules that compile
(`CacheIsSound`): a warm start does not compile, so that this must come from the
process that wrote the cache. `AccountInv` adds for `NoIdIsLost` what loading has
made of the files that it has seen (`LoadedSoFar`): each parsed one has a rule of its
id, and no two rules have one id. That the counters of the filter add up
(`FilterAddsUp`) is a chain of sets of which each is the last one without what a
stage drops.

### Ebpf_proofs

`IdentityIsRight`, `CachedHashesAreRight` and `EveryHashGoes`, for any processes,
threads, images and calls and maps, a ring and a cache of any size. `KernelInv` has
the types and whose threads are whose. What the checked invariant lacks is the ring:
a record is sent with what the builder knows when it *meets* the record, which is
what the identifying records before it will have left (`After`): nothing, or a guid
and an image. `IdentityInv` says
of every record in the ring that it meets the identity it should be sent with, and
of every process that what the whole ring leaves is what the probes think of it;
taking one record from the front and reserving one at the back both preserve it.
`HashInv` says that no mtime the collector holds is later than the file's, so that
an equal one means the same content.

### Linux_proofs

`OfflineIsLocal`, `DryRunLeavesNothing` and `ALineHasOneCollector` of `Startup`, for
command lines of any length with any words, any build, machine and configuration
file. `TurnByTurn` takes the loop over the arguments apart, and `Parsed` follows it
to what the whole line amounts to: `-o` and `-n` have their effect wherever they
stand. `EffectInv` then ties each effect to the setting that allows it, `LineInv`
each line to files that fit its collector (`Fits`).

`LeavesAsWritten`, `NoRecordIsDropped` and `IdleClosesWholeEvents` of `Tail`, for any
number of lines and files and any size of read. `DiskInv` says what the writing
program leaves: heads and ends alternate, and lines grow along the files.
`ReadInv` says what of it was *handled*: every complete line between the one where
reading began and the last one that is complete by now is sent, in the open group or
junk, in order (`Handled`). A read applies the handler once for each line that it
completes, so `HalfByHalf` and `DrainKeeps` follow the loop over the halves that were
read; lines never leave an empty group behind (`DrainNeverEmpties`), so that only an idle
poll closes one, and it comes only after all that was written has been read, which
makes what it closes a whole event.

Both loops are recursive functions on naturals. The induction is over the set of
turns for which a fact holds (`Induct`), from the well-founded order of the
naturals; `LoopExists` shows that the function which the definition chooses exists.

### CommittedData_proofs

`EachByItself`, `CleanLeavesNothingOut`, `WrittenDataPasses` and
`FixLeavesCanonical`, for any rules, directories and rule files of a clone.
`TreeInv` types the tree. `ReportInv` relates the counters to the entries judged so
far; that the engine has no alerts between two entries is what makes a verdict its
entry's own, and that no counter of failures is 0 with a failed entry is what exit
code 0 rests on. `FreshInv` says what capture left in a directory and that `--fix`
does not change it (`FreshStays`: a layout without two lines of one name is its own
canonical layout), `JudgedInv` that it is there when the entry is judged.
`SettledInv` says that what is no longer to be fixed is as it has to be.

That a fixed file is read as before is a fact about layouts, for lists of tests and of
pipelines of any length. `SerdeShape` says what every document of serde_yaml is like
(`IsSerde`): five lines of the head, then tests, each an item of the left margin with
its keys in the second column, and pipelines only behind the key that lists them. It
goes through the concatenations, one test after the other (`BodyOfTests`, by
`Induct`). From that shape `Indented` follows `to_sigma_indent` line by line:
the open key is then always the one at the margin or, among pipelines, the one that
lists them (`ListsAreOpen`), so that the new column of a line depends on its own
column and on its being an item only. `OwnersStay` is the step this is for: moving all lines so
changes no line's owners. `SerdeNests` shows that each has one. Lines of one name have
one column (`CanonicalNests`), hence a file of these lines in which none has to be
moved is the canonical one (`FixedNests`).

Three assumptions are about the clone. `CommittedDataAssumption` types what it may hold
and keeps the absent value apart. `TestListAssumption` says that no pipeline is called
`id` or `name`: pipelines are paths of files. `LinuxAssumption` says that no directory of a Linux
rule holds an evtx file: `resolve_data_file` would prefer it to the log that capture
writes beside it, and the check would then read the wrong file.

### Only model-checked

* The liveness properties `KeepsMatchingIsSettled`, `TakenIsExamined`, `LoggedIsSent`,
  the two liveness parts of `RunsTerminate` and the fair part of `GroupsCloseWhenIdle`: the prover has no rules
  for fairness and `ENABLED` here.
* That rules see their events of *every* channel of `types.rs`: the proof is about the
  tables of `Events`, which keep the rows that behave differently. A row of a kind that
  is left out would be a row of one of these kinds with other names.

## 6. What the checks found

`findings` in `PROJECT.json` quotes the code and the text of each. One has a run
that ends in a counterexample; the others were met while modelling, and the
definition that is named behaves as the code does.

1. `types.rs:318`: an `EventID` with attributes, as classic providers write it, is
   read as 0, and the conditions of the pipelines compare an object with a
   number: no rule of the id sees the event (run `events_qualified`).
2. `regression/mod.rs:569`: when `info.yml` fails to be written, the directory
   is not cleaned, and a torn `info.yml` beside whole data makes `add` skip the
   rule from then on. `KeepsMatchingIsSettled` therefore names this outcome as
   one of its three.
3. `repo/branch.rs:93`: commits that an aborted upload keeps "so a later run can
   still push them" are not on the branch that the next run works on.
4. `regression/evtx_writer.rs:54`: the epoch delta is in the wrong unit, so every
   FILETIME is about 365 years short.
5. `inputs/auditd.rs:364`: of two records of one type in an audit event, the
   second gets the raw fields of the first.
6. `inputs/channels.rs:187`: a query that failed once is never made again.
7. `inputs/channels.rs:308`: at `MAX_EVENTS` the cycle goes on and loses the rest of
   each batch. `NothingSkipped` excludes it by name.
8. `inputs/tail.rs:20`: a tail is inside a blocking send while the main task,
   its only receiver, waits for it; the 10 s timeout, and not the stop flag,
   releases it.
9. `cli.md:150` and `architecture.md:232`: one-shot runs do tick, honour
   `--max-runs` and flush after Ctrl+C.
10. `runner.rs:422`: the warning that events are dropped cannot be reached.
11. `git.md:11`: a push from a shallow clone asks origin for a branch only the
    fork has, and fails.
12. `regression/mod.rs:805`: what startup cleaning removes is not what its
    comment says.
13. `types.rs:269`: the member `Data` that is injected for classic PowerShell is
    not where the pipelines make the rules look.
14. `rule/mod.rs:368`: rules whose id is not in canonical spelling are loaded and
    matched, but never captured (`AlertOf`, `NamedBy`).
15. `runner.rs:197`: a dry run writes the cache that `config.yaml` names.
16. `bin/regressiondata-check.rs:938`: `--fix` moves a line with an unknown key to
    the left margin, out of what it was nested in.
17. `bin/regressiondata-check.rs:693`: text other than auditd's is not replayed and
    is reported as empty.
18. `bin/regressiondata-check.rs:458`: the rate counts raw entries twice.
19. `regression/mod.rs:559`: `match_count` is 1 for an audit event of which several
    records match, and the check then reports a mismatch.
20. `inputs/ebpf_event.rs:361`: the cache of hashes can grow beyond its limit.
21. `ebpf/src/main.rs:118`: calls of threads other than the leader are staged under
    one id and looked up under another.
22. `inputs/ebpf_event.rs:552`: a name that XML cannot hold panics the collector.
23. `inputs/sysmon.rs:94`: some lines tagged sysmon are emitted by nobody.
24. `inputs/linux.rs:33`: an auth log alone makes the sysmon tail start on a file
    that is not there.
25. `config.rs:464`: an empty author passes the validation.
26. `repo/porcelain.rs:166`: the background unshallow removes files that a cycle is
    about to commit, and what is left of them is committed; the rule is silenced by
    half its data, or committed again.
27. `inputs/ebpf_event.rs:201`: a process whose id was used before is reported with
    the identity of that process when the record of its exit was dropped.

## 7. Assumptions, and what is not modelled

* `Regression` is the offline program: the tree on disk is all that a restart
  finds. With git, `checkout_main_branch` removes unpublished files first, which
  is in `Repo`; section 2 says why both are not composed.
* `Regression` takes rules with a valid id, and one event per alert; `RuleSet` has
  the rules without one.
* `Repo` has a fork distinct from origin and branches named
  `sigmacatch/<day>`. A retried network operation is one attempt with one
  outcome. A remote branch is only changed by this program; pull requests are
  merged as a whole. A commit without data of its rule has neither file by which a
  later process finds a rule; one that has only the `info.yml`, which only the
  startup of the same branch would see, is not told apart. An upload may be aborted in the last flush too, which the
  code rules out and `Capture` checks (`FinalFlushIsSettled`).
* `Capture` treats the set of tails of a live run as one collector. A panicking
  upload is not modelled.
* `Tail`: the channel always has room (`Capture` has it full); a file is rotated
  by rename and create, never truncated in place; the records of an audit event
  are written one after the other. `End` stands for the stop flag and for a
  dropped receiver; an open group is then not flushed, as in the code. The
  parsers are reduced to whether a line parses, its event and its type.
* `Winevt` is one channel; channels share nothing but the way to the main task.
  Every event carries its record id. A failed query stays failed and a stale
  one whose log is as long as the old cursor stays stale, which `LoggedIsSent`
  names as `Stuck`; the first is the sixth point above.
* `RuleSet`: any rule of the engine may match; whether a document parses and
  compiles is a property of it. Two spellings of one id are loaded as two
  rules that share an entry of `rule_paths`, as in the code;
  `AlertsPointAtTheirFile` exempts them (`SpelledOnce`). Files do not change while a process loads them.
* `CommittedData`: no directory of a Linux rule holds an evtx file (`LinuxAssumption`),
  and the contents of files are those of `Contents`. Of the keys of a test
  those are kept that the layout depends on; what `FixSettles` says of nesting is said
  of files with the lines of the canonical document (`SameLines`), which is what upstream
  has: with other lines a file cannot nest like it. Comments and blank lines are left out of a layout. A file torn by
  a kill of `--fix` stays torn, which the check then reports.
* `Ebpf`: paths are atoms, of which some hold a character that XML cannot; byte
  layouts, addresses, user names, command lines and the fields of the parent, which
  `exec_event` looks up in the same table, are left out. A hash is the content it was
  computed from; reading a file is atomic. `/proc` is asked once per event.
* `Events`: texts are atoms with the spellings that normalisation tells apart; the
  size limit of a document is left out, and the parser of XML is external.
* `EvtxTime` has years from 1601 and minutes that are multiples of 6.
* `Startup`: of options with the same effect one is kept. The validation of single
  numbers (timeouts, ids, levels) rejects or accepts without further effect and is
  left out, as are the diagnostics that only print (`check-filter`, `list-rules`,
  the ATT&CK summary).
* Not modelled: evaluation of rules (the external rsigma library), the binary
  layout of EVTX records and their checksums, git objects and transport (external
  grit-lib, SSH), signatures, logging. They are conversions or external; the
  modules above see their success or failure. A log truncated in place is not
  handled by the code: its tail reads nothing until the file has grown past the old
  offset.
