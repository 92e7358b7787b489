------------------------------- MODULE Startup -------------------------------
(***************************************************************************)
(* From the command line to the running Linux collectors: what main.rs,    *)
(* config.rs, the head of runner.rs and inputs/linux.rs, syslog.rs and     *)
(* sysmon.rs make of the arguments, of config.yaml, of the features the    *)
(* binary was built with and of the log files that exist, and which of the *)
(* collectors emits a line that is written to one of those files.          *)
(*                                                                         *)
(* `effects` collects what the process does to the disk and the network.   *)
(* What a collector does with its file is the subject of Tail and Capture, *)
(* what a cycle publishes that of Repo.                                    *)
(***************************************************************************)
EXTENDS Integers, SequencesExt

CONSTANTS
  Worlds,     \* [args, file, build, privileged, kernel, disk]: how it may be started
  NewFiles,   \* bound: the log files that may appear while it starts
  MaxWritten  \* bound: the lines written to the log files

VARIABLES world,       \* one of Worlds; `disk` is the set of log files that exist
          stage,       \* how far the process has come
          config,      \* the effective configuration
          effects,     \* subset of Effects
          collectors,  \* name -> "spawned", "running", "failed"
          tails,       \* the <<collector, file>> pairs being tailed
          log,         \* the lines written: [file, program, body]
          emitted      \* <<collector, line, service>>

startupVars == <<world, stage, config, effects, collectors, tails, log, emitted>>

Effects == {"config", "cache", "logs", "ssh config", "fetch", "commit", "push"}
Network == {"ssh config", "fetch", "commit", "push"}

-----------------------------------------------------------------------------
(* config::parse_args_from; -a, -v and --branch behave like -o and --author. *)

NoArgs == [author |-> "unset", offline |-> FALSE, contrib |-> FALSE, dryRun |-> FALSE,
           cache |-> FALSE, evtx |-> FALSE, maxRuns |-> 0]

LooksLikeFlag(token) == token \in {"-o", "-c", "-n", "-r", "-h", "-x", "--author", "--hir-cache",
                                   "--evtx"}

\* One turn of the loop; `wants` is the option whose value comes next.
Token(parse, token) ==
  LET Set(cli) == [parse EXCEPT !.cli = cli, !.wants = "none"]
      Fail == [parse EXCEPT !.exit = TRUE]
  IN CASE parse.exit -> parse
       [] ~parse.exit /\ parse.wants = "-r" ->
            IF token \in {"0", "2"}
            THEN Set([parse.cli EXCEPT !.maxRuns = IF token = "2" THEN 2 ELSE 0]) ELSE Fail
       [] ~parse.exit /\ parse.wants \notin {"none", "-r"} ->
            CASE LooksLikeFlag(token) -> Fail
              [] ~LooksLikeFlag(token) /\ parse.wants = "--author" ->
                   Set([parse.cli EXCEPT !.author = token])
              [] ~LooksLikeFlag(token) /\ parse.wants = "--hir-cache" ->
                   Set([parse.cli EXCEPT !.cache = TRUE])
              [] OTHER -> Set([parse.cli EXCEPT !.evtx = TRUE])
       [] OTHER ->
            CASE token \in {"--author", "--hir-cache", "--evtx", "-r"} -> [parse EXCEPT !.wants = token]
              [] token = "-o" -> Set([parse.cli EXCEPT !.offline = TRUE])
              [] token = "-c" -> Set([parse.cli EXCEPT !.contrib = TRUE])
              [] token = "-n" -> Set([parse.cli EXCEPT !.dryRun = TRUE])
              [] OTHER -> Fail

\* The loop: what it has made of the first n arguments.
Turns(args) ==
  LET parse[n \in 0 .. Len(args)] ==
        IF n = 0 THEN [cli |-> NoArgs, wants |-> "none", exit |-> FALSE]
        ELSE Token(parse[n - 1], args[n])
  IN parse

\* -h and --help are looked for first, wherever they stand.
ParseArgs(args) ==
  LET parse == Turns(args)[Len(args)]
  IN [parse EXCEPT !.exit = @ \/ parse.wants # "none" \/ \E k \in DOMAIN args : args[k] = "-h"]

Cli == ParseArgs(world.args).cli

-----------------------------------------------------------------------------
(* Config.  A file is [state, author, offline, contrib, cache, mode, key]:  *)
(* `state` says whether it is there and parses, `key` whether the SSH key   *)
(* is set and exists.                                                       *)

DefaultConfig == [state |-> "absent", author |-> "sigmacatch", offline |-> FALSE,
                  contrib |-> FALSE, cache |-> FALSE, mode |-> 600, key |-> "none"]

ConfigFile == [state : {"absent", "ok", "broken"}, author : STRING, offline : BOOLEAN,
               contrib : BOOLEAN, cache : BOOLEAN, mode : Nat, key : {"none", "found", "missing"}]

\* Any words may stand on the command line.  A file that is not there says what
\* the defaults say.
AnyWorld == [args : Seq(STRING), file : ConfigFile, build : SUBSET STRING,
             privileged : BOOLEAN, kernel : BOOLEAN, disk : SUBSET STRING]

ASSUME StartupAssumption ==
  /\ Worlds \subseteq AnyWorld /\ NewFiles \subseteq STRING
  /\ \A w \in Worlds : w.file.state = "absent" => w.file = DefaultConfig

\* is_offline, is_contrib and needs_network.
NeedsNetwork(c) == ~c.offline \/ c.contrib

\* The overrides that load_with_cli and load_for_dry_run share; only a live
\* run takes --contrib.
WithCli(c, cli) ==
  [c EXCEPT !.author = IF cli.author = "unset" THEN @ ELSE cli.author,
            !.offline = @ \/ cli.offline,
            !.contrib = @ \/ (cli.contrib /\ ~cli.dryRun),
            !.cache = @ \/ cli.cache]

\* normalize_git
NormalizeGit(c) == [c EXCEPT !.contrib = @ /\ ~c.offline]

\* Mutant: the file is normalised before the command line is applied.
EffectiveEarly(file, cli) == WithCli(NormalizeGit(file), cli)

\* What load_with_cli and load_for_dry_run make of a file that parses.
Effective(file, cli) == NormalizeGit(WithCli(file, cli))

\* validate: an empty author passes, the placeholder does not; a missing key
\* matters only where the network is needed.
Valid(c) == /\ c.offline \/ c.author # "sigmacatch"
            /\ NeedsNetwork(c) => c.key # "missing"

-----------------------------------------------------------------------------
(* The process.                                                            *)

StartupInit ==
  /\ world \in Worlds
  /\ stage = "main"
  /\ config = DefaultConfig
  /\ effects = {}
  /\ collectors = <<>>
  /\ tails = {} /\ log = <<>> /\ emitted = {}

Exit == stage' = "done"

\* main: the subcommands, the arguments, --evtx and the inputs compiled in.
LinuxInputs == {"auditd", "builtin", "sysmon", "ebpf"}

Main ==
  /\ stage = "main"
  /\ IF \/ world.args # <<>> /\ Head(world.args) = "list-rules"
        \/ ParseArgs(world.args).exit
        \/ IF Cli.evtx THEN "evtx" \notin world.build ELSE world.build \cap LinuxInputs = {}
     THEN Exit ELSE stage' = IF Cli.evtx THEN "evtx" ELSE "linux"
  /\ UNCHANGED <<world, config, effects, collectors, tails, log, emitted>>

\* evtx::run: the directory must exist and hold a file.
FindEvtxFiles ==
  /\ stage = "evtx"
  /\ stage' = "load" \/ Exit
  /\ UNCHANGED <<world, config, effects, collectors, tails, log, emitted>>

CentralFiles == <<"messages", "syslog">>
AuthFiles == {"secure"}
CronFiles == {"cron"}
SyslogFiles == {"messages", "syslog"} \cup AuthFiles \cup CronFiles

\* auditd_available, syslog_available, has_required_privileges.
AuditdOk == "auditd" \in world.build /\ "audit.log" \in world.disk
SyslogOk == "builtin" \in world.build /\ world.disk \cap SyslogFiles # {}
EbpfPlanned == "ebpf" \in world.build /\ world.privileged

\* linux::run, before the runner.
LinuxGuards ==
  /\ stage = "linux"
  /\ IF \/ "ebpf" \in world.build /\ ~world.privileged
        \/ ~AuditdOk /\ ~SyslogOk /\ ~EbpfPlanned
     THEN Exit ELSE stage' = "load"
  /\ UNCHANGED <<world, config, effects, collectors, tails, log, emitted>>

\* load_with_cli: without a file one is written and the process ends; the mode
\* of the file is put right.
Load ==
  /\ stage = "load" /\ ~Cli.dryRun
  /\ LET c == Effective(world.file, Cli)
         ok == world.file.state = "ok" /\ Valid(c)
         writes == world.file.state = "absent" \/ world.file.mode # 600
     IN /\ effects' = effects \cup (IF writes THEN {"config"} ELSE {})
        /\ config' = IF ok THEN c ELSE config
        /\ IF ok THEN stage' = "bootstrap" ELSE Exit
  /\ UNCHANGED <<world, collectors, tails, log, emitted>>

\* Mutant: a dry run loads its configuration as any other run does.
LoadForDryRunAsLive ==
  /\ stage = "load" /\ Cli.dryRun
  /\ LET c == Effective(world.file, Cli)
         ok == world.file.state = "ok" /\ Valid(c)
         writes == world.file.state = "absent" \/ world.file.mode # 600
     IN /\ effects' = effects \cup (IF writes THEN {"config"} ELSE {})
        /\ config' = IF ok THEN c ELSE config
        /\ IF ok THEN stage' = "dry" ELSE Exit
  /\ UNCHANGED <<world, collectors, tails, log, emitted>>

\* load_for_dry_run: the defaults stand in for a file that is not there, and
\* nothing is validated.
LoadForDryRun ==
  /\ stage = "load" /\ Cli.dryRun
  /\ IF world.file.state = "broken" THEN Exit /\ UNCHANGED config
     ELSE stage' = "dry" /\ config' = Effective(world.file, Cli)
  /\ UNCHANGED <<world, effects, collectors, tails, log, emitted>>

\* run_dry: the rules load or do not; an engine that is built afresh is saved
\* to the cache when there is one.
RunDry ==
  /\ stage = "dry"
  /\ \E writes \in BOOLEAN :
       effects' = effects \cup (IF writes /\ config.cache THEN {"cache"} ELSE {})
  /\ Exit
  /\ UNCHANGED <<world, config, collectors, tails, log, emitted>>

\* logging::init, ensure_dirs and bootstrap_repo_regression, up to the engine;
\* any step after the logger may end the process.
Bootstrap ==
  /\ stage = "bootstrap"
  /\ \E writes \in BOOLEAN :
       effects' = effects \cup {"logs"}
                    \cup (IF NeedsNetwork(config) THEN {"ssh config"} ELSE {})
                    \cup (IF config.offline THEN {} ELSE {"fetch"})
                    \cup (IF writes /\ config.cache THEN {"cache"} ELSE {})
  /\ stage' = "build" \/ Exit
  /\ UNCHANGED <<world, config, collectors, tails, log, emitted>>

\* make_sysmon_collector: the probes, else the tail when it is compiled in.
SysmonCollector ==
  IF EbpfPlanned /\ world.kernel THEN {"sysmon(ebpf)"}
  ELSE IF "sysmon" \in world.build /\ SyslogOk THEN {"sysmon"} ELSE {}

\* select_collectors, and the spawning half of MultiCollector::run.
Selected == (IF AuditdOk THEN {"auditd"} ELSE {})
              \cup (IF SyslogOk THEN {"syslog"} ELSE {}) \cup SysmonCollector

BuildCollectors ==
  /\ stage = "build"
  /\ stage' = "collect"
  /\ collectors' = [c \in (IF Cli.evtx THEN {} ELSE Selected) |-> "spawned"]
  /\ UNCHANGED <<world, config, effects, tails, log, emitted>>

\* discover_default_path, or its default when none exists.
CentralFile == IF "messages" \in world.disk THEN "messages"
               ELSE IF "syslog" \in world.disk THEN "syslog" ELSE "messages"

\* The files a collector tails: discover_sources for syslog, one central file
\* for the sysmon tail, none for the probes.
FilesOf(collector) ==
  CASE collector = "auditd" -> {"audit.log"} \cap world.disk
    [] collector = "syslog" -> SyslogFiles \cap world.disk
    [] collector = "sysmon" -> {CentralFile} \cap world.disk
    [] OTHER -> {}

\* EventCollector::run of each of them; one without its file fails.
RunCollector(collector) ==
  /\ collectors[collector] = "spawned"
  /\ collectors' = [collectors EXCEPT ![collector] =
       IF collector = "sysmon(ebpf)" \/ FilesOf(collector) # {} THEN "running" ELSE "failed"]
  /\ tails' = tails \cup ({collector} \X FilesOf(collector))
  /\ UNCHANGED <<world, stage, config, effects, log, emitted>>

\* A cycle ends: commit_and_push, upload_rule and push.
Publish ==
  /\ stage = "collect"
  /\ effects' = effects \cup (IF config.offline THEN {}
                              ELSE {"commit"} \cup (IF config.contrib THEN {"push"} ELSE {}))
  /\ UNCHANGED <<world, stage, config, collectors, tails, log, emitted>>

-----------------------------------------------------------------------------
(* The log files.                                                          *)

\* A daemon opens one of its files.
FileAppears ==
  /\ stage # "done"
  /\ \E file \in NewFiles \ world.disk : world' = [world EXCEPT !.disk = @ \cup {file}]
  /\ UNCHANGED <<stage, config, effects, collectors, tails, log, emitted>>

\* build_event: the mapped service, the one of the file, or the program.
Service(file, program) ==
  CASE program = "sshd" -> "sshd"
    [] program # "sshd" /\ file \in AuthFiles -> "auth"
    [] program # "sshd" /\ file \in CronFiles -> "cron"
    [] OTHER -> program

\* Mutant: the syslog collector emits the lines of sysmon as well.
SyslogEmitsAll(line) == line.program # "unparsable"

\* SyslogHandler::on_line leaves what is tagged sysmon to the sysmon tail.
SyslogEmits(line) == line.program \notin {"unparsable", "sysmon"}

\* sysmon_parse::parse_line: the tag, and a body that begins like an event.
IsSysmonLine(line) == line.program = "sysmon" /\ line.body # "text"

\* SysmonHandler::on_line keeps those whose XML parses to the end.
SysmonEmits(line) == IsSysmonLine(line) /\ line.body = "event"

\* What a tail makes of a line that it has read.
Emits(collector, line) ==
  CASE collector = "auditd" -> TRUE
    [] collector = "syslog" -> SyslogEmits(line)
    [] OTHER -> SysmonEmits(line)

\* A line is written and read by whoever tails the file.
WriteLine ==
  /\ stage = "collect" /\ Len(log) < MaxWritten
  /\ \E file \in world.disk :
       \E line \in [file : {file}, program : {"sshd", "other", "sysmon", "unparsable"},
                    body : {"text", "event", "truncated"}] :
         /\ (line.body # "text" => line.program = "sysmon")
         /\ (file = "audit.log" => line.program = "other")
         /\ log' = Append(log, line)
         /\ emitted' = emitted \cup
              {<<tail[1], Len(log) + 1, Service(file, line.program)>> :
                 tail \in {t \in tails : t[2] = file /\ Emits(t[1], line)}}
  /\ UNCHANGED <<world, stage, config, effects, collectors, tails>>

StartupNext ==
  \/ Main \/ FindEvtxFiles \/ LinuxGuards \/ Load \/ LoadForDryRun \/ RunDry
  \/ Bootstrap \/ BuildCollectors \/ Publish
  \/ \E collector \in DOMAIN collectors : RunCollector(collector)
  \/ FileAppears \/ WriteLine

StartupSpec == StartupInit /\ [][StartupNext]_startupVars

-----------------------------------------------------------------------------
(* Properties.                                                             *)

Given(token) == \E k \in DOMAIN world.args : world.args[k] = token

\* "Fully offline mode wins over contrib" (config.rs:410): whether -o or the
\* file asks for it, and whatever else either asks for, nothing is written to
\* the SSH configuration, fetched, committed or pushed.
OfflineStaysLocal ==
  Given("-o") \/ (world.file.state = "ok" /\ world.file.offline) => effects \cap Network = {}

\* A dry run writes nothing (config.rs:375-380) but the cache it was given, on
\* the command line or in the file: not even the configuration that any other
\* run creates or repairs.
DryRunWritesNothing ==
  Given("-n") => effects \subseteq
    (IF Given("--hir-cache") \/ world.file.cache THEN {"cache"} ELSE {})

\* No line is emitted by two collectors (sysmon.rs:15-16), whatever was built in
\* and whichever files appear between the checks and the start of each one.
OneLineOneCollector ==
  \A n \in DOMAIN log : Cardinality({e[1] : e \in {e \in emitted : e[2] = n}}) <= 1
=============================================================================
