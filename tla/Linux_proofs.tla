----------------------------- MODULE Linux_proofs -----------------------------
(***************************************************************************)
(* Proofs about Startup, for command lines of any length with any words,   *)
(* any configuration file, any build and machine, and logs of any length;  *)
(* and about Tail, for any number of lines and files and any size of read. *)
(*                                                                         *)
(* What the arguments amount to is a matter of the whole loop over them,   *)
(* and what a handler makes of a read of the loop over its bytes: the      *)
(* lemmas follow these loops turn by turn, by the induction of the first   *)
(* part.                                                                   *)
(***************************************************************************)
EXTENDS Startup, Tail, FiniteSetTheorems, WellFoundedInduction, TLAPS

-----------------------------------------------------------------------------
(* Induction, and loops over a sequence.                                   *)

Less == {ss \in Nat \X Nat : ss[1] < ss[2]}

\* A set of naturals that is not empty has a least element.
LEMMA Least ==
  ASSUME NEW T, T \subseteq Nat, T # {}
  PROVE  Min(T) \in T /\ \A k \in T : Min(T) <= k
<1>1. IsWellFoundedOn(Less, Nat)
  BY NatLessThanWellFounded DEF OpToRel, Less
<1>2. PICK m \in T : \A k \in T : ~ (<<k, m>> \in Less)
  BY <1>1, WFMin
<1>3. ASSUME NEW k \in T PROVE m <= k
  <2>1. m \in Nat /\ k \in Nat
    OBVIOUS
  <2>2. ~ (k < m)
    BY <1>2, <2>1 DEF Less
  <2> QED BY <2>1, <2>2
<1>4. \E x \in T : \A y \in T : x <= y
  BY <1>3
<1> QED BY <1>4 DEF Min

\* A member that is no less than the others is the greatest.
LEMMA Greatest ==
  ASSUME NEW T, NEW n \in T, \A k \in T : k \in Nat /\ n >= k
  PROVE  Max(T) = n
<1>1. \E x \in T : \A y \in T : x >= y
  OBVIOUS
<1>2. Max(T) \in T /\ \A y \in T : Max(T) >= y
  BY <1>1 DEF Max
<1> QED BY <1>2

\* A set of naturals that has 0 and with each number the next one has them all.
LEMMA Induct ==
  ASSUME NEW T, T \subseteq Nat, 0 \in T, \A n \in Nat : n \in T => n + 1 \in T
  PROVE  T = Nat
<1> SUFFICES ASSUME T # Nat PROVE FALSE
  OBVIOUS
<1>1. PICK m \in Nat \ T : \A k \in Nat \ T : m <= k
  BY Least
<1>2. m # 0 /\ m - 1 \in Nat /\ (m - 1) + 1 = m
  BY <1>1
<1>3. m - 1 \in T
  BY <1>1, <1>2
<1> QED BY <1>1, <1>2, <1>3

\* g are the states, all in S, of a loop of n turns that begins in b.
IsLoop(g, S, n, step, b) ==
  g \in [0 .. n -> S] /\ g[0] = b /\ \A k \in 1 .. n : g[k] = step[<<g[k - 1], k>>]

\* Such a loop has its sequence of states.
LEMMA LoopExists ==
  ASSUME NEW S, NEW n, NEW step, NEW b,
         n \in Nat, step \in [S \X (1 .. n) -> S], b \in S
  PROVE  \E g : IsLoop(g, S, n, step, b)
<1> DEFINE Runs(m, g) == g \in [0 .. m -> S] /\ g[0] = b
                         /\ \A k \in 1 .. m : g[k] = step[<<g[k - 1], k>>]
           T == {m \in Nat : m <= n => \E g : Runs(m, g)}
<1>1. 0 \in T
  <2>1. Runs(0, [k \in 0 .. 0 |-> b])
    OBVIOUS
  <2> QED BY <2>1
<1>2. ASSUME NEW m \in Nat, m \in T PROVE m + 1 \in T
  <2> SUFFICES ASSUME m + 1 <= n PROVE \E g : Runs(m + 1, g)
    OBVIOUS
  <2>1. PICK g : Runs(m, g)
    BY <1>2
  <2> DEFINE h == [k \in 0 .. (m + 1) |-> IF k = m + 1 THEN step[<<g[m], m + 1>>] ELSE g[k]]
  <2>2. g[m] \in S /\ m + 1 \in 1 .. n
    BY <2>1
  <2>3. step[<<g[m], m + 1>>] \in S
    BY <2>2
  <2>4. h \in [0 .. (m + 1) -> S] /\ h[0] = b
    BY <2>1, <2>3
  <2>5. ASSUME NEW k \in 1 .. (m + 1) PROVE h[k] = step[<<h[k - 1], k>>]
    <3>1. k - 1 \in 0 .. (m + 1) /\ k - 1 # m + 1 /\ h[k - 1] = g[k - 1]
      OBVIOUS
    <3>2. CASE k = m + 1
      BY <3>1, <3>2
    <3>3. CASE k # m + 1
      <4>1. k \in 1 .. m /\ h[k] = g[k]
        BY <3>3
      <4> QED BY <2>1, <3>1, <4>1
    <3> QED BY <3>2, <3>3
  <2> QED BY <2>4, <2>5
<1>3. T = Nat
  <2> HIDE DEF T
  <2>1. T \subseteq Nat
    BY DEF T
  <2> QED BY <1>1, <1>2, <2>1, Induct
<1>4. \E g : Runs(n, g)
  BY <1>3
<1> QED BY <1>4 DEF IsLoop

-----------------------------------------------------------------------------
(* The command line.                                                       *)

Clis == [author : STRING \cup {"unset"}, offline : BOOLEAN, contrib : BOOLEAN, dryRun : BOOLEAN,
         cache : BOOLEAN, evtx : BOOLEAN, maxRuns : Nat]

Options == {"none", "--author", "--hir-cache", "--evtx", "-r"}

Parses == [cli : Clis, wants : Options, exit : BOOLEAN]

Fresh == [cli |-> NoArgs, wants |-> "none", exit |-> FALSE]

\* A turn makes a parse of a parse.
LEMMA TokenType ==
  ASSUME NEW p \in Parses, NEW t \in STRING
  PROVE  Token(p, t) \in Parses
<1> DEFINE Set(cli) == [p EXCEPT !.cli = cli, !.wants = "none"]
<1>1. \A cli \in Clis : Set(cli) \in Parses
  BY DEF Parses, Options
<1>2. [p EXCEPT !.exit = TRUE] \in Parses /\ (t \in Options => [p EXCEPT !.wants = t] \in Parses)
  BY DEF Parses
<1>3. p.cli \in Clis
  BY DEF Parses
<1>4. /\ [p.cli EXCEPT !.author = t] \in Clis /\ [p.cli EXCEPT !.cache = TRUE] \in Clis
      /\ [p.cli EXCEPT !.evtx = TRUE] \in Clis /\ [p.cli EXCEPT !.offline = TRUE] \in Clis
      /\ [p.cli EXCEPT !.contrib = TRUE] \in Clis /\ [p.cli EXCEPT !.dryRun = TRUE] \in Clis
      /\ [p.cli EXCEPT !.maxRuns = IF t = "2" THEN 2 ELSE 0] \in Clis
  BY <1>3 DEF Clis
<1>5. \/ Token(p, t) = p
      \/ Token(p, t) = [p EXCEPT !.exit = TRUE]
      \/ t \in Options /\ Token(p, t) = [p EXCEPT !.wants = t]
      \/ \E cli \in Clis : Token(p, t) = Set(cli)
  BY <1>4 DEF Token, Options
<1> QED BY <1>1, <1>2, <1>5

\* What one turn does to what the properties ask of the arguments.
LEMMA TokenFacts ==
  ASSUME NEW p \in Parses, NEW t \in STRING
  PROVE  LET q == Token(p, t)
         IN /\ p.exit => q.exit
            /\ ~q.exit /\ (p.cli.offline \/ t = "-o") => q.cli.offline
            /\ ~q.exit /\ (p.cli.dryRun \/ t = "-n") => q.cli.dryRun
            /\ q.cli.cache => p.cli.cache \/ p.wants = "--hir-cache"
            /\ q.wants = "--hir-cache" => p.wants = "--hir-cache" \/ t = "--hir-cache"
BY DEF Token, Parses, Options, Clis, LooksLikeFlag

\* The loop starts fresh and takes its turns one after the other.
LEMMA TurnByTurn ==
  ASSUME NEW args \in Seq(STRING)
  PROVE  /\ Turns(args) \in [0 .. Len(args) -> Parses]
         /\ Turns(args)[0] = Fresh
         /\ \A k \in 1 .. Len(args) : Turns(args)[k] = Token(Turns(args)[k - 1], args[k])
<1> DEFINE n == Len(args)
           step == [a \in Parses \X (1 .. n) |-> Token(a[1], args[a[2]])]
           Loops(f) == f = [k \in 0 .. n |-> IF k = 0 THEN Fresh ELSE Token(f[k - 1], args[k])]
<1>1. n \in Nat /\ \A k \in 1 .. n : args[k] \in STRING
  OBVIOUS
<1>2. Fresh \in Parses
  BY DEF Fresh, Parses, Clis, Options, NoArgs
<1>3. step \in [Parses \X (1 .. n) -> Parses]
  BY <1>1, TokenType
<1>4. PICK g : IsLoop(g, Parses, n, step, Fresh)
  <2>1. n \in Nat
    BY <1>1
  <2> HIDE DEF step, n
  <2> QED BY <1>2, <1>3, <2>1, LoopExists
<1>5. \A k \in 1 .. n : g[k] = Token(g[k - 1], args[k])
  <2> SUFFICES ASSUME NEW k \in 1 .. n PROVE g[k] = Token(g[k - 1], args[k])
    OBVIOUS
  <2>1. k - 1 \in 0 .. n
    BY <1>1
  <2>2. <<g[k - 1], k>> \in Parses \X (1 .. n)
    BY <1>4, <2>1 DEF IsLoop
  <2> QED BY <1>4, <2>2 DEF IsLoop
<1>6. Loops(g)
  BY <1>1, <1>4, <1>5 DEF IsLoop
<1>7. Turns(args) = CHOOSE f : Loops(f)
  BY DEF Turns, Fresh
<1>8. Loops(Turns(args))
  <2> HIDE DEF Loops
  <2> QED BY <1>6, <1>7
<1>9. /\ Turns(args) = [k \in 0 .. n |-> Turns(args)[k]]
      /\ Turns(args)[0] = Fresh
      /\ \A k \in 1 .. n : Turns(args)[k] = Token(Turns(args)[k - 1], args[k])
  BY <1>1, <1>8
<1>10. \A k \in 0 .. n : Turns(args)[k] \in Parses
  <2> DEFINE T == {k \in Nat : k <= n => Turns(args)[k] \in Parses}
  <2>1. 0 \in T
    BY <1>2, <1>9
  <2>2. ASSUME NEW k \in Nat, k \in T PROVE k + 1 \in T
    <3> SUFFICES ASSUME k + 1 <= n PROVE Turns(args)[k + 1] \in Parses
      OBVIOUS
    <3>1. Turns(args)[k] \in Parses /\ k + 1 \in 1 .. n /\ (k + 1) - 1 = k
      BY <1>1, <2>2
    <3>2. Turns(args)[k + 1] = Token(Turns(args)[k], args[k + 1])
      BY <1>9, <3>1
    <3> QED BY <1>1, <3>1, <3>2, TokenType
  <2>3. T = Nat
    <3> HIDE DEF T
    <3>1. T \subseteq Nat
      BY DEF T
    <3> QED BY <2>1, <2>2, <3>1, Induct
  <2> QED BY <1>1, <2>3
<1> QED BY <1>9, <1>10

\* What the arguments amount to, if they do not end the process: -o and -n have
\* their effect wherever they stand, and there is no cache that was not asked for.
LEMMA Parsed ==
  ASSUME NEW args \in Seq(STRING), ~ParseArgs(args).exit
  PROVE  LET cli == ParseArgs(args).cli
         IN /\ cli \in Clis
            /\ \A k \in DOMAIN args : /\ args[k] = "-o" => cli.offline
                                      /\ args[k] = "-n" => cli.dryRun
            /\ cli.cache => \E k \in DOMAIN args : args[k] = "--hir-cache"
<1> DEFINE n == Len(args)
           t(m) == Turns(args)[m]
           Good(m) == /\ ~t(m).exit => \A k \in 1 .. m : /\ args[k] = "-o" => t(m).cli.offline
                                                         /\ args[k] = "-n" => t(m).cli.dryRun
                      /\ t(m).cli.cache \/ t(m).wants = "--hir-cache"
                           => \E k \in 1 .. m : args[k] = "--hir-cache"
           T == {m \in Nat : m <= n => Good(m)}
<1>1. n \in Nat /\ DOMAIN args = 1 .. n /\ \A k \in 1 .. n : args[k] \in STRING
  OBVIOUS
<1>2. 0 \in T
  <2>1. t(0) = Fresh
    BY TurnByTurn
  <2> QED BY <2>1 DEF Fresh, NoArgs
<1>3. ASSUME NEW m \in Nat, m \in T PROVE m + 1 \in T
  <2> SUFFICES ASSUME m + 1 <= n PROVE Good(m + 1)
    OBVIOUS
  <2> DEFINE p == t(m)
             q == t(m + 1)
             a == args[m + 1]
  <2>1. m \in 0 .. n /\ m + 1 \in 1 .. n /\ (m + 1) - 1 = m /\ Good(m)
    BY <1>1, <1>3
  <2>2. p \in Parses /\ a \in STRING /\ q = Token(p, a)
    BY <1>1, <2>1, TurnByTurn
  <2> HIDE DEF p, q, a
  <2>3. /\ p.exit => q.exit
        /\ ~q.exit /\ (p.cli.offline \/ a = "-o") => q.cli.offline
        /\ ~q.exit /\ (p.cli.dryRun \/ a = "-n") => q.cli.dryRun
        /\ q.cli.cache => p.cli.cache \/ p.wants = "--hir-cache"
        /\ q.wants = "--hir-cache" => p.wants = "--hir-cache" \/ a = "--hir-cache"
    BY <2>2, TokenFacts
  <2>4. \A k \in 1 .. (m + 1) : k \in 1 .. m \/ k = m + 1
    BY <2>1
  <2>5. \A k \in 1 .. m : k \in 1 .. (m + 1)
    BY <2>1
  <2>6. ASSUME ~q.exit, NEW k \in 1 .. (m + 1)
        PROVE  (args[k] = "-o" => q.cli.offline) /\ (args[k] = "-n" => q.cli.dryRun)
    BY <2>1, <2>3, <2>4, <2>6 DEF p, a
  <2>7. ASSUME q.cli.cache \/ q.wants = "--hir-cache"
        PROVE  \E k \in 1 .. (m + 1) : args[k] = "--hir-cache"
    BY <2>1, <2>3, <2>5, <2>7 DEF p, a
  <2> QED BY <2>6, <2>7 DEF q
<1>4. T = Nat
  <2> HIDE DEF T
  <2>1. T \subseteq Nat
    BY DEF T
  <2> QED BY <1>2, <1>3, <2>1, Induct
<1>5. Good(n) /\ t(n) \in Parses
  BY <1>1, <1>4, TurnByTurn
<1>6. ParseArgs(args).cli = t(n).cli /\ ~t(n).exit
  <2>1. t(n) \in Parses
    BY <1>5
  <2> QED BY <2>1 DEF ParseArgs, Parses
<1> QED BY <1>1, <1>5, <1>6 DEF Parses

-----------------------------------------------------------------------------
(* What a run does to disk and network.                                    *)

Loaded == Effective(world.file, Cli)

\* What the effects so far and the stage reached say of the arguments and the file:
\* nothing is done for arguments that do not parse, what is configured is what they
\* amount to, only a live run gets beyond its configuration, and each effect has the
\* setting that allows it.
EffectInv ==
  /\ world \in AnyWorld
  /\ stage \notin {"main", "done"} \/ effects # {} => ~ParseArgs(world.args).exit
  /\ stage \in {"dry", "bootstrap", "build", "collect"} => config = Loaded
  /\ stage \in {"bootstrap", "build", "collect"} => ~Cli.dryRun
  /\ effects \cap Network # {} => ~Loaded.offline
  /\ effects \subseteq {"cache"} \/ ~Cli.dryRun
  /\ "cache" \in effects => Loaded.cache

\* What the command line and normalisation make of the settings of a file.
LEMMA EffectiveFacts ==
  ASSUME NEW f \in ConfigFile, NEW cli \in Clis
  PROVE  LET c == Effective(f, cli)
         IN /\ c.offline <=> f.offline \/ cli.offline
            /\ c.cache <=> f.cache \/ cli.cache
            /\ NeedsNetwork(c) => ~c.offline
<1> DEFINE w == WithCli(f, cli)
           c == NormalizeGit(w)
<1>1. /\ w.offline <=> f.offline \/ cli.offline
      /\ w.cache <=> f.cache \/ cli.cache
      /\ w.offline \in BOOLEAN /\ w.contrib \in BOOLEAN
      /\ w \in [state : {f.state}, author : {f.author, cli.author}, offline : BOOLEAN,
                contrib : BOOLEAN, cache : BOOLEAN, mode : {f.mode}, key : {f.key}]
  BY DEF WithCli, ConfigFile, Clis
<1> HIDE DEF w
<1>2. /\ c.offline = w.offline /\ c.cache = w.cache
      /\ c.contrib = (w.contrib /\ ~w.offline)
  BY <1>1 DEF NormalizeGit
<1> QED BY <1>1, <1>2 DEF Effective, NeedsNetwork, w

\* How the process was started stays as it is but for the log files.
LEMMA StartStays ==
  ASSUME StartupAssumption, world \in AnyWorld, [StartupNext]_startupVars
  PROVE  world' \in AnyWorld /\ world'.args = world.args /\ world'.file = world.file
<1>1. CASE FileAppears
  <2>1. PICK f \in NewFiles \ world.disk : world' = [world EXCEPT !.disk = @ \cup {f}]
    BY <1>1 DEF FileAppears
  <2> QED BY <2>1 DEF StartupAssumption, AnyWorld
<1>2. CASE world' = world
  BY <1>2
<1> QED BY <1>1, <1>2 DEF StartupNext, startupVars, Main, FindEvtxFiles, LinuxGuards, Load,
          LoadForDryRun, RunDry, Bootstrap, BuildCollectors, RunCollector, Publish, WriteLine

LEMMA EffectInit ==
  ASSUME StartupAssumption, StartupInit
  PROVE  EffectInv
BY DEF StartupAssumption, StartupInit, EffectInv, Network

LEMMA EffectStep ==
  ASSUME StartupAssumption, EffectInv, [StartupNext]_startupVars
  PROVE  EffectInv'
<1>1. /\ world' \in AnyWorld /\ world'.args = world.args /\ world'.file = world.file
      /\ Cli' = Cli /\ Loaded' = Loaded
  BY StartStays DEF EffectInv, Cli, Loaded
<1>2. world.args \in Seq(STRING) /\ world.file \in ConfigFile
  BY DEF EffectInv, AnyWorld
<1> DEFINE ok == ~ParseArgs(world.args).exit
<1>3. ASSUME ok PROVE Cli \in Clis /\ (NeedsNetwork(Loaded) => ~Loaded.offline)
  <2>1. Cli \in Clis
    BY <1>2, <1>3, Parsed DEF Cli
  <2> QED BY <1>2, <2>1, EffectiveFacts DEF Loaded
<1> USE <1>1 DEF EffectInv
<1>4. CASE Main
  BY <1>4 DEF Main, Exit
<1>5. CASE FindEvtxFiles \/ LinuxGuards
  BY <1>5 DEF FindEvtxFiles, LinuxGuards, Exit
<1>6. CASE Load
  <2>1. /\ stage = "load" /\ ~Cli.dryRun
        /\ effects' = effects \/ effects' = effects \cup {"config"}
        /\ \/ config' = Loaded /\ stage' = "bootstrap"
           \/ stage' = "done"
    BY <1>6 DEF Load, Exit, Loaded
  <2>2. ok
    BY <2>1
  <2> HIDE DEF ok
  <2>3. effects' \cap Network = effects \cap Network
    BY <2>1 DEF Network
  <2> QED BY <2>1, <2>2, <2>3 DEF ok
<1>7. CASE LoadForDryRun
  BY <1>7 DEF LoadForDryRun, Exit, Loaded
<1>8. CASE RunDry
  BY <1>8 DEF RunDry, Exit, Network
<1>9. CASE Bootstrap
  BY <1>3, <1>9 DEF Bootstrap, Exit, Network
<1>10. CASE BuildCollectors
  BY <1>10 DEF BuildCollectors
<1>11. CASE Publish
  BY <1>11 DEF Publish, Network
<1>12. CASE UNCHANGED <<stage, config, effects>>
  BY <1>12
<1> QED BY <1>4, <1>5, <1>6, <1>7, <1>8, <1>9, <1>10, <1>11, <1>12
     DEF StartupNext, startupVars, RunCollector, FileAppears, WriteLine

\* For any command line and file, a run that either of them makes offline leaves the
\* network alone.
THEOREM OfflineIsLocal == StartupSpec => []OfflineStaysLocal
<1>1. StartupInit => EffectInv
  BY StartupAssumption, EffectInit
<1>2. EffectInv /\ [StartupNext]_startupVars => EffectInv'
  BY StartupAssumption, EffectStep
<1>3. EffectInv => OfflineStaysLocal
  <2> SUFFICES ASSUME EffectInv, effects \cap Network # {},
                      Given("-o") \/ (world.file.state = "ok" /\ world.file.offline)
               PROVE  FALSE
    BY DEF OfflineStaysLocal
  <2>1. world.args \in Seq(STRING) /\ world.file \in ConfigFile /\ ~ParseArgs(world.args).exit
    BY DEF EffectInv, AnyWorld
  <2>2. Cli \in Clis /\ (Given("-o") => Cli.offline)
    BY <2>1, Parsed DEF Given, Cli
  <2>3. Loaded.offline
    BY <2>1, <2>2, EffectiveFacts DEF Loaded
  <2> QED BY <2>3 DEF EffectInv
<1> QED BY <1>1, <1>2, <1>3, PTL DEF StartupSpec

\* For any command line and file, a dry run leaves nothing behind but the cache that
\* one of them names.
THEOREM DryRunLeavesNothing == StartupSpec => []DryRunWritesNothing
<1>1. StartupInit => EffectInv
  BY StartupAssumption, EffectInit
<1>2. EffectInv /\ [StartupNext]_startupVars => EffectInv'
  BY StartupAssumption, EffectStep
<1>3. EffectInv => DryRunWritesNothing
  <2> SUFFICES ASSUME EffectInv, Given("-n"), NEW e \in effects
               PROVE  e = "cache" /\ (Given("--hir-cache") \/ world.file.cache)
    BY DEF DryRunWritesNothing
  <2>1. world.args \in Seq(STRING) /\ world.file \in ConfigFile /\ ~ParseArgs(world.args).exit
    BY DEF EffectInv, AnyWorld
  <2>2. Cli \in Clis /\ (Given("-n") => Cli.dryRun) /\ (Cli.cache => Given("--hir-cache"))
    BY <2>1, Parsed DEF Given, Cli
  <2>3. e = "cache"
    BY <2>2 DEF EffectInv
  <2>4. Loaded.cache
    BY <2>3 DEF EffectInv
  <2>5. world.file.cache \/ Cli.cache
    BY <2>1, <2>2, <2>4, EffectiveFacts DEF Loaded
  <2> QED BY <2>2, <2>3, <2>5
<1> QED BY <1>1, <1>2, <1>3, PTL DEF StartupSpec

-----------------------------------------------------------------------------
(* Who emits a line.                                                       *)

\* What each collector may tail: the probes have no file, and the tail of sysmon
\* reads one of the files that the collector of syslog reads too.
Fits == {<<"auditd", "audit.log">>} \cup ({"syslog", "sysmon"} \X SyslogFiles)

Lines == [file : STRING, program : {"sshd", "other", "sysmon", "unparsable"},
          body : {"text", "event", "truncated"}]

\* Whoever emitted a line tails the file of the line and takes it.
LineInv ==
  /\ world \in AnyWorld /\ log \in Seq(Lines)
  /\ tails \subseteq Fits
  /\ \A e \in emitted : /\ e[2] \in DOMAIN log
                        /\ <<e[1], log[e[2]].file>> \in Fits /\ Emits(e[1], log[e[2]])

LEMMA LineInit ==
  ASSUME StartupAssumption, StartupInit
  PROVE  LineInv
BY DEF StartupAssumption, StartupInit, LineInv

\* The files of each collector fit it, whichever exist.
LEMMA FilesFit ==
  ASSUME NEW collector, NEW f \in FilesOf(collector)
  PROVE  <<collector, f>> \in Fits
BY DEF FilesOf, CentralFile, SyslogFiles, Fits

LEMMA LineStep ==
  ASSUME StartupAssumption, LineInv, [StartupNext]_startupVars
  PROVE  LineInv'
<1>1. world' \in AnyWorld
  BY StartStays DEF LineInv
<1> USE DEF LineInv
<1>2. ASSUME NEW collector, RunCollector(collector) PROVE LineInv'
  <2>1. tails' \subseteq Fits
    BY <1>2, FilesFit DEF RunCollector
  <2> QED BY <1>1, <1>2, <2>1 DEF RunCollector
<1>3. CASE WriteLine
  <2>1. PICK f \in world.disk, line \in Lines :
          /\ line.file = f
          /\ log' = Append(log, line)
          /\ emitted' = emitted \cup
               {<<tail[1], Len(log) + 1, Service(f, line.program)>> :
                  tail \in {t \in tails : t[2] = f /\ Emits(t[1], line)}}
    <3>1. \A f \in world.disk :
            \A line \in [file : {f}, program : {"sshd", "other", "sysmon", "unparsable"},
                        body : {"text", "event", "truncated"}] : line \in Lines /\ line.file = f
      BY DEF Lines, AnyWorld
    <3> QED BY <1>3, <3>1 DEF WriteLine
  <2>2. /\ log' \in Seq(Lines)
        /\ DOMAIN log' = DOMAIN log \cup {Len(log) + 1}
        /\ log'[Len(log) + 1] = line
        /\ \A n \in DOMAIN log : log'[n] = log[n]
    BY <2>1
  <2>3. ASSUME NEW e \in emitted'
        PROVE  /\ e[2] \in DOMAIN log'
               /\ <<e[1], log'[e[2]].file>> \in Fits /\ Emits(e[1], log'[e[2]])
    <3>1. CASE e \in emitted
      BY <2>2, <3>1
    <3>2. CASE e \notin emitted
      <4>1. PICK t \in tails : /\ t[2] = f /\ Emits(t[1], line)
                               /\ e = <<t[1], Len(log) + 1, Service(f, line.program)>>
        BY <2>1, <3>2
      <4>2. t = <<t[1], t[2]>> /\ t \in Fits
        BY DEF Fits
      <4> QED BY <2>1, <2>2, <4>1, <4>2
    <3> QED BY <3>1, <3>2
  <2>4. tails' = tails
    BY <1>3 DEF WriteLine
  <2> QED BY <1>1, <2>2, <2>3, <2>4
<1>4. CASE UNCHANGED <<tails, log, emitted>>
  BY <1>1, <1>4
<1> QED BY <1>2, <1>3, <1>4 DEF StartupNext, startupVars, Main, FindEvtxFiles, LinuxGuards,
          Load, LoadForDryRun, RunDry, Bootstrap, BuildCollectors, Publish, FileAppears

\* On any machine and with any build, no line is emitted by two collectors, however
\* many files two of them tail together.
THEOREM ALineHasOneCollector == StartupSpec => []OneLineOneCollector
<1>1. StartupInit => LineInv
  BY StartupAssumption, LineInit
<1>2. LineInv /\ [StartupNext]_startupVars => LineInv'
  BY StartupAssumption, LineStep
<1>3. LineInv => OneLineOneCollector
  <2> SUFFICES ASSUME LineInv, NEW n \in DOMAIN log
               PROVE  Cardinality({e[1] : e \in {e \in emitted : e[2] = n}}) <= 1
    BY DEF OneLineOneCollector
  <2> DEFINE C == {e[1] : e \in {e \in emitted : e[2] = n}}
  <2>1. \A c \in C : <<c, log[n].file>> \in Fits /\ Emits(c, log[n])
    BY DEF LineInv
  <2>2. "audit.log" \notin SyslogFiles
    BY DEF SyslogFiles, AuthFiles, CronFiles
  <2>3. \A c \in C : c \in {"auditd", "syslog", "sysmon"}
    BY <2>1 DEF Fits
  <2>4. \A c, d \in C : c = d
    <3> SUFFICES ASSUME NEW c \in C, NEW d \in C PROVE c = d
      OBVIOUS
    <3> HIDE DEF C
    <3>1. CASE log[n].file = "audit.log"
      BY <2>1, <2>2, <3>1 DEF Fits
    <3>2. CASE log[n].file # "audit.log"
      <4>1. c \in {"syslog", "sysmon"} /\ d \in {"syslog", "sysmon"}
        BY <2>1, <3>2 DEF Fits
      <4>2. c = "syslog" => log[n].program # "sysmon"
        BY <2>1 DEF Emits, SyslogEmits, SysmonEmits, IsSysmonLine
      <4>3. d = "syslog" => log[n].program # "sysmon"
        BY <2>1 DEF Emits, SyslogEmits, SysmonEmits, IsSysmonLine
      <4>4. c = "sysmon" => log[n].program = "sysmon"
        BY <2>1 DEF Emits, SyslogEmits, SysmonEmits, IsSysmonLine
      <4>5. d = "sysmon" => log[n].program = "sysmon"
        BY <2>1 DEF Emits, SyslogEmits, SysmonEmits, IsSysmonLine
      <4> QED BY <4>1, <4>2, <4>3, <4>4, <4>5
    <3> QED BY <3>1, <3>2
  <2> HIDE DEF C
  <2>5. Cardinality(C) <= 1
    <3>1. CASE C = {}
      BY <3>1, FS_EmptySet
    <3>2. CASE C # {}
      <4>1. PICK c : C = {c}
        BY <2>4, <3>2
      <4>2. Cardinality(C) = 1
        BY <4>1, FS_Singleton
      <4> QED BY <4>2
    <3> QED BY <3>1, <3>2
  <2> QED BY <2>5 DEF C
<1> QED BY <1>1, <1>2, <1>3, PTL DEF StartupSpec

-----------------------------------------------------------------------------
(* The files and what a tail has read of them.                             *)

\* Halves of whole lines without a gap: a head is first or follows the end of the
\* line before, an end follows its head.
Alternates(c) ==
  \A i \in DOMAIN c :
    /\ c[i][2] = "end" => i > 1 /\ c[i - 1] = <<c[i][1], "head">>
    /\ c[i][2] = "head" /\ i > 1 => c[i - 1] = <<c[i][1] - 1, "end">>

\* A later half is of the same line or of a later one.
Ordered(c) ==
  \A i, j \in DOMAIN c : i < j => /\ c[i][1] <= c[j][1]
                                  /\ c[j][2] = "head" => c[i][1] < c[j][1]

\* What is on disk: the lines are numbered through the files, which are written one
\* after the other.
DiskInv ==
  /\ writer \in Files /\ path \in {NoFile, writer, writer + 1} \cap (Files \cup {NoFile})
  /\ path = NoFile => writer < MaxFiles
  /\ lines \in Seq([event : Nat, type : Types])
  /\ \A k, l \in DOMAIN lines : k < l => lines[k].event <= lines[l].event
  /\ content \in [Files -> Seq(Nat \X {"head", "end"})]
  /\ \A f \in Files : Alternates(content[f]) /\ Ordered(content[f])
  /\ \A f \in Files : \A i \in DOMAIN content[f] : content[f][i][1] \in DOMAIN lines
  /\ \A f \in Files : f > writer => content[f] = <<>>
  /\ content[writer] # <<>> => Last(content[writer])[1] = Len(lines)
  /\ \A f, g \in Files : f < g =>
       \A i \in DOMAIN content[f], j \in DOMAIN content[g] : content[f][i][1] < content[g][j][1]

Junk(ls, l) == ls[l].type = "junk"

\* The lines from the first to the last of g are of one audit event, and only
\* lines that do not parse are missing.
OneEvent(ls, g) ==
  \A l \in Head(g) .. Last(g) :
    /\ ls[l].event = ls[Head(g)].event
    /\ l \in Range(g) \/ Junk(ls, l)

Numbers == Nat \ {0}
Records == [line : Numbers, group : Seq(Numbers), raw : Numbers]
Handlers == [group : Seq(Numbers), sent : Seq(Records)]

\* The handler, which has the open group g and has sent s, was given the lines of ls
\* after lo up to m.
Handled(ls, g, s, lo, m) ==
  /\ lo \in Nat /\ m \in Nat /\ m <= Len(ls)
  /\ g \in Seq(Numbers) /\ s \in Seq(Records)
  /\ \A j \in DOMAIN g : g[j] <= m
  /\ \A j, k \in DOMAIN g : j < k => g[j] < g[k]
  /\ \A i \in DOMAIN s : s[i].line <= m
  /\ \A i, j \in DOMAIN s : i < j => s[i].line < s[j].line
  /\ \A i \in DOMAIN s, j \in DOMAIN g : s[i].line < g[j]
  /\ \A i \in DOMAIN s : /\ s[i].group # <<>> /\ Last(s[i].group) <= Len(ls)
                         /\ OneEvent(ls, s[i].group)
  /\ g # <<>> => OneEvent(ls, g) /\ \A l \in (Last(g) + 1) .. m : Junk(ls, l)
  /\ \A l \in (lo + 1) .. m : Junk(ls, l) \/ l \in Range(g) \/ \E i \in DOMAIN s : s[i].line = l

\* The line before the first one of c, which is still to come when c is empty.
Before(ls, c) == IF c = <<>> THEN Len(ls) ELSE c[1][1] - 1

\* The line that was complete where reading began, and the last one complete by now.
Lo == IF start = 0 THEN Before(lines, content[file]) ELSE content[file][start][1]
Upto == IF offset = 0 THEN Before(lines, content[file])
        ELSE IF pending = <<>> THEN content[file][offset][1] ELSE content[file][offset][1] - 1

\* Where the tail is in its file.
Position ==
  /\ file <= writer \/ file = path
  /\ pc = "reopen" => path # file
  /\ start \in Nat /\ offset \in start .. Len(content[file])
  /\ pending = IF offset > start /\ content[file][offset][2] = "head"
               THEN <<content[file][offset]>> ELSE <<>>
  /\ offset = start => group = <<>>

\* What is in later files comes after all that was sent.
SentBefore ==
  \A i \in DOMAIN sent, f \in Files : f > file =>
    \A j \in DOMAIN content[f] : sent[i].line < content[f][j][1]

\* Only the handler of auditd holds records back.
Grouped(g) == handler = "lines" => g = <<>>

ReadInv ==
  /\ pc \in {"open", "first", "reopen", "read", "loop", "ended"}
  /\ file \in Files \cup {NoFile}
  /\ pc = "open" => file = NoFile
  /\ file = NoFile => /\ pc \in {"open", "ended"}
                      /\ sent = <<>> /\ group = <<>> /\ pending = <<>>
  /\ file # NoFile => Position /\ Handled(lines, group, sent, Lo, Upto) /\ SentBefore
  /\ Grouped(group)

\* A half that continues the last one keeps the order.
LEMMA AppendHalf ==
  ASSUME NEW c \in Seq(Nat \X {"head", "end"}), Alternates(c), Ordered(c),
         NEW h \in Nat \X {"head", "end"},
         h[2] = "end" => c # <<>> /\ Last(c) = <<h[1], "head">>,
         h[2] = "head" /\ c # <<>> => Last(c) = <<h[1] - 1, "end">>
  PROVE  Alternates(Append(c, h)) /\ Ordered(Append(c, h))
<1> DEFINE d == Append(c, h)
           n == Len(c)
<1>1. /\ n \in Nat /\ DOMAIN d = 1 .. (n + 1) /\ DOMAIN c = 1 .. n
      /\ d[n + 1] = h /\ \A i \in 1 .. n : d[i] = c[i]
  OBVIOUS
<1>2. c # <<>> <=> n > 0
  OBVIOUS
<1>3. n > 0 => Last(c) = d[n]
  <2>1. n > 0 => n \in 1 .. n
    BY <1>1
  <2>2. n > 0 => d[n] = c[n]
    BY <1>1, <2>1
  <2> QED BY <2>2 DEF Last
<1>4. \A i \in 1 .. n : c[i] \in Nat \X {"head", "end"} /\ c[i][1] \in Nat
  OBVIOUS
<1> HIDE DEF d, n
<1>5. ASSUME NEW i \in DOMAIN d
      PROVE  /\ d[i][2] = "end" => i > 1 /\ d[i - 1] = <<d[i][1], "head">>
             /\ d[i][2] = "head" /\ i > 1 => d[i - 1] = <<d[i][1] - 1, "end">>
  <2>1. CASE i = n + 1
    <3>1. n > 0 <=> i > 1
      BY <1>1, <2>1
    <3>2. i - 1 = n /\ d[i] = h
      BY <1>1, <2>1
    <3> QED BY <1>2, <1>3, <3>1, <3>2
  <2>2. CASE i # n + 1
    <3>1. i \in 1 .. n /\ (i > 1 => i - 1 \in 1 .. n)
      BY <1>1, <2>2
    <3> QED BY <1>1, <3>1 DEF Alternates
  <2> QED BY <2>1, <2>2
<1>6. \A i \in 1 .. n : c[i][1] <= c[n][1]
  <2> SUFFICES ASSUME NEW i \in 1 .. n PROVE c[i][1] <= c[n][1]
    OBVIOUS
  <2>1. CASE i = n
    BY <1>4, <2>1
  <2>2. CASE i # n
    <3>1. n \in 1 .. n /\ i < n
      BY <1>1, <2>2
    <3> QED BY <1>1, <3>1 DEF Ordered
  <2> QED BY <2>1, <2>2
<1>7. ASSUME NEW i \in DOMAIN d, NEW j \in DOMAIN d, i < j
      PROVE  d[i][1] <= d[j][1] /\ (d[j][2] = "head" => d[i][1] < d[j][1])
  <2>1. i \in 1 .. n
    BY <1>1, <1>7
  <2>2. CASE j = n + 1
    <3>1. n > 0 /\ d[j] = h /\ d[i] = c[i] /\ d[n] = c[n] /\ Last(c) = c[n]
      BY <1>1, <1>3, <2>1, <2>2
    <3>2. c[i][1] <= c[n][1] /\ c[i][1] \in Nat /\ c[n][1] \in Nat /\ h[1] \in Nat
      <4>1. n \in 1 .. n
        BY <1>1, <3>1
      <4> QED BY <1>4, <1>6, <2>1, <4>1
    <3>3. CASE h[2] = "end"
      BY <3>1, <3>2, <3>3
    <3>4. CASE h[2] = "head"
      <4>1. c[n][1] = h[1] - 1
        BY <1>2, <3>1, <3>4
      <4> QED BY <3>1, <3>2, <4>1
    <3> QED BY <3>3, <3>4
  <2>3. CASE j # n + 1
    <3>1. j \in 1 .. n
      BY <1>1, <2>3
    <3> QED BY <1>1, <1>7, <2>1, <3>1 DEF Ordered
  <2> QED BY <2>2, <2>3
<1>8. Alternates(d) /\ Ordered(d)
  BY <1>5, <1>7 DEF Alternates, Ordered
<1> QED BY <1>8 DEF d

\* What a sequence over S holds is in S.
LEMMA Elements ==
  ASSUME NEW S, NEW s \in Seq(S)
  PROVE  DOMAIN s = 1 .. Len(s) /\ Len(s) \in Nat /\ \A k \in DOMAIN s : s[k] \in S
OBVIOUS

\* A sequence whose elements are in S is a sequence over S.
LEMMA Retyped ==
  ASSUME NEW R, NEW S, NEW s \in Seq(R), \A k \in DOMAIN s : s[k] \in S
  PROVE  s \in Seq(S)
OBVIOUS

\* A sequence of one element is that element.
LEMMA Single ==
  ASSUME NEW S, NEW s \in Seq(S), Len(s) = 1
  PROVE  s = <<s[1]>>
OBVIOUS

\* The part of a sequence from one place to the same place.
LEMMA OneOf ==
  ASSUME NEW S, NEW s \in Seq(S), NEW n \in 1 .. Len(s)
  PROVE  SubSeq(s, n, n) = <<s[n]>>
<1>1. SubSeq(s, n, n) \in Seq(S) /\ Len(SubSeq(s, n, n)) = 1
  OBVIOUS
<1>2. SubSeq(s, n, n)[1] = s[n]
  OBVIOUS
<1> QED BY <1>1, <1>2, Single

\* An element of two sequences joined is one of the first or of the second.
LEMMA Joined ==
  ASSUME NEW S, NEW s \in Seq(S), NEW t \in Seq(S), NEW i \in 1 .. (Len(s) + Len(t))
  PROVE  (s \o t)[i] = IF i <= Len(s) THEN s[i] ELSE t[i - Len(s)]
OBVIOUS

LEMMA LinesLength ==
  ASSUME DiskInv
  PROVE  Len(lines) \in Nat /\ DOMAIN lines = 1 .. Len(lines)
BY DEF DiskInv

\* The lines are records with a numbered audit event.
LEMMA LinesTyped ==
  ASSUME DiskInv
  PROVE  \A k \in DOMAIN lines : lines[k].event \in Nat
<1>1. lines \in Seq([event : Nat, type : Types])
  BY DEF DiskInv
<1>2. \A k \in DOMAIN lines : lines[k] \in [event : Nat, type : Types]
  BY <1>1, Elements
<1> QED BY <1>2

LEMMA DiskInit ==
  ASSUME TailAssumption, Init
  PROVE  DiskInv
BY DEF TailAssumption, Init, DiskInv, Files, NoFile, Alternates, Ordered

LEMMA DiskStep ==
  ASSUME TailAssumption, DiskInv, [Next]_vars
  PROVE  DiskInv'
<1> USE DEF DiskInv
<1> DEFINE c == content[writer]
<1>0. \A k \in DOMAIN lines : lines[k].event \in Nat
  BY LinesTyped
<1>1. c \in Seq(Nat \X {"head", "end"}) /\ Alternates(c) /\ Ordered(c) /\ Len(lines) \in Nat
  OBVIOUS
<1>2. c # <<>> => /\ Last(c) \in Nat \X {"head", "end"}
                  /\ Last(c) = <<Len(lines), Last(c)[2]>>
  BY <1>1 DEF Last
<1>3. ASSUME NEW h \in Nat \X {"head", "end"}, content' = [content EXCEPT ![writer] = Append(@, h)],
             Alternates(Append(c, h)), Ordered(Append(c, h)),
             lines' \in Seq([event : Nat, type : Types]),
             \A k, l \in DOMAIN lines' : k < l => lines'[k].event <= lines'[l].event,
             DOMAIN lines \subseteq DOMAIN lines', h[1] = Len(lines'), h[1] \in DOMAIN lines',
             h[1] = Len(lines) + 1 \/ (c # <<>> /\ Last(c)[1] = h[1]),
             UNCHANGED <<path, writer>>
      PROVE  DiskInv'
  <2>1. content' \in [Files -> Seq(Nat \X {"head", "end"})]
    BY <1>3
  <2>2. /\ content'[writer] = Append(c, h)
        /\ \A f \in Files : f # writer => content'[f] = content[f]
    BY <1>3
  <2>3. \A f \in Files : Alternates(content'[f]) /\ Ordered(content'[f])
    BY <1>3, <2>2
  <2>4. \A i \in DOMAIN content'[writer] :
          \/ i \in DOMAIN c /\ content'[writer][i] = c[i]
          \/ content'[writer][i] = h
    BY <1>1, <2>2
  <2>5. \A f \in Files : \A i \in DOMAIN content'[f] : content'[f][i][1] \in DOMAIN lines'
    BY <1>3, <2>2, <2>4
  <2>6. \A f \in Files : f > writer => content'[f] = <<>>
    <3>1. \A f \in Files : f > writer => f # writer
      BY DEF TailAssumption, Files
    <3> QED BY <2>2, <3>1
  <2>7. Last(content'[writer]) = h
    BY <1>1, <2>2 DEF Last
  <2>8. ASSUME NEW f \in Files, NEW g \in Files, f < g,
               NEW i \in DOMAIN content'[f], NEW j \in DOMAIN content'[g]
        PROVE  content'[f][i][1] < content'[g][j][1]
    <3>1. f \in Nat /\ g \in Nat /\ writer \in Nat
      BY DEF TailAssumption, Files
    <3>2. g <= writer
      BY <2>6, <2>8, <3>1
    <3>3. f # writer /\ content'[f] = content[f]
      BY <2>2, <2>8, <3>1, <3>2
    <3>4. CASE g # writer
      BY <2>2, <2>8, <3>3, <3>4
    <3>5. CASE g = writer
      <4>1. CASE j \in DOMAIN c /\ content'[writer][j] = c[j]
        BY <2>8, <3>3, <3>5, <4>1
      <4>2. CASE content'[writer][j] = h
        <5>1. content[f][i][1] \in DOMAIN lines
          BY <3>3
        <5>2. CASE h[1] = Len(lines) + 1
          BY <1>1, <3>3, <3>5, <4>2, <5>1, <5>2
        <5>3. CASE c # <<>> /\ Last(c)[1] = h[1]
          <6>1. Len(c) \in DOMAIN c /\ c[Len(c)][1] = h[1]
            BY <1>1, <5>3 DEF Last
          <6> QED BY <2>8, <3>3, <3>5, <4>2, <6>1
        <5> QED BY <1>3, <5>2, <5>3
      <4> QED BY <2>4, <3>5, <4>1, <4>2
    <3> QED BY <3>4, <3>5
  <2> QED BY <1>3, <2>1, <2>3, <2>5, <2>6, <2>7, <2>8
<1>4. CASE WriteHead
  <2>1. PICK type \in Types, more \in {0, 1} :
          lines' = Append(lines, [event |-> IF lines = <<>> THEN 1 ELSE Last(lines).event + more,
                                  type |-> type])
    BY <1>4 DEF WriteHead
  <2> DEFINE h == <<Len(lines) + 1, "head">>
             e == IF lines = <<>> THEN 1 ELSE Last(lines).event + more
  <2>2. lines # <<>> => Len(lines) \in DOMAIN lines /\ Last(lines) = lines[Len(lines)]
                        /\ Last(lines).event \in Nat
    <3>1. lines # <<>> => Len(lines) \in DOMAIN lines
      OBVIOUS
    <3> QED BY <1>0, <3>1 DEF Last
  <2>3. e \in Nat /\ \A k \in DOMAIN lines : lines[k].event <= e
    <3>1. CASE lines = <<>>
      <4>1. e = 1
        BY <3>1
      <4>2. Len(lines) = 0
        BY <3>1
      <4>3. DOMAIN lines = 1 .. 0
        BY <4>2, Elements
      <4>4. DOMAIN lines = {}
        BY <4>3
      <4> HIDE DEF e
      <4> QED BY <4>1, <4>4
    <3>2. CASE lines # <<>>
      <4>1. e = Last(lines).event + more /\ e \in Nat /\ Last(lines).event <= e
        BY <2>2, <3>2
      <4>2. \A k \in DOMAIN lines : lines[k].event \in Nat /\ lines[k].event <= Last(lines).event
        <5> SUFFICES ASSUME NEW k \in DOMAIN lines
                     PROVE  lines[k].event \in Nat /\ lines[k].event <= Last(lines).event
          OBVIOUS
        <5>1. lines[k].event \in Nat
          BY <1>0
        <5>2. CASE k = Len(lines)
          BY <2>2, <3>2, <5>1, <5>2
        <5>3. CASE k # Len(lines)
          <6>1. k < Len(lines)
            BY <5>3
          <6>2. lines[k].event <= lines[Len(lines)].event
            BY <2>2, <3>2, <6>1
          <6> QED BY <2>2, <3>2, <5>1, <6>2
        <5> QED BY <5>2, <5>3
      <4> HIDE DEF e
      <4> QED BY <2>2, <3>2, <4>1, <4>2
    <3> QED BY <3>1, <3>2
  <2> HIDE DEF e
  <2>4. lines' = Append(lines, [event |-> e, type |-> type])
    BY <2>1 DEF e
  <2>5. /\ lines' \in Seq([event : Nat, type : Types])
        /\ Len(lines') = Len(lines) + 1 /\ DOMAIN lines' = DOMAIN lines \cup {Len(lines) + 1}
        /\ lines'[Len(lines) + 1].event = e
        /\ \A k \in DOMAIN lines : lines'[k] = lines[k]
    BY <2>3, <2>4
  <2>6. \A k, l \in DOMAIN lines' : k < l => lines'[k].event <= lines'[l].event
    <3> SUFFICES ASSUME NEW k \in DOMAIN lines', NEW l \in DOMAIN lines', k < l
                 PROVE  lines'[k].event <= lines'[l].event
      OBVIOUS
    <3>1. k \in DOMAIN lines
      BY <2>5
    <3>2. CASE l \in DOMAIN lines
      BY <2>5, <3>1, <3>2
    <3>3. CASE l = Len(lines) + 1
      BY <2>3, <2>5, <3>1, <3>3
    <3> QED BY <2>5, <3>2, <3>3
  <2>7. content' = [content EXCEPT ![writer] = Append(@, h)]
    BY <1>4, <2>5 DEF WriteHead
  <2>8. c # <<>> => Last(c) = <<h[1] - 1, "end">>
    <3>1. c # <<>> => Last(c)[2] # "head"
      BY <1>4 DEF WriteHead, HalfWritten
    <3> QED BY <1>1, <1>2, <3>1
  <2>9. h \in Nat \X {"head", "end"}
    BY <1>1
  <2>10. Alternates(Append(c, h)) /\ Ordered(Append(c, h))
    BY <1>1, <2>8, <2>9, AppendHalf
  <2>11. UNCHANGED <<path, writer>>
    BY <1>4 DEF WriteHead
  <2> QED BY <1>3, <2>5, <2>6, <2>7, <2>9, <2>10, <2>11
<1>5. CASE WriteEnd
  <2> DEFINE h == <<Len(lines), "end">>
  <2>1. c # <<>> /\ Last(c)[2] = "head" /\ Last(c) = <<Len(lines), "head">>
    BY <1>2, <1>5 DEF WriteEnd, HalfWritten
  <2>2. Len(lines) \in DOMAIN lines
    BY <1>1, <2>1 DEF Last
  <2>3. h \in Nat \X {"head", "end"}
    BY <1>1
  <2>4. Alternates(Append(c, h)) /\ Ordered(Append(c, h))
    BY <1>1, <2>1, <2>3, AppendHalf
  <2>5. content' = [content EXCEPT ![writer] = Append(@, h)] /\ UNCHANGED <<path, writer, lines>>
    BY <1>5 DEF WriteEnd
  <2> QED BY <1>3, <2>1, <2>2, <2>3, <2>4, <2>5
<1>6. CASE Rename
  BY <1>6 DEF Rename, Files, NoFile, TailAssumption
<1>7. CASE Create
  BY <1>7 DEF Create, Files, NoFile, TailAssumption
<1>8. CASE WriterReopens
  <2>1. path = writer + 1 /\ path \in Files /\ writer' = path /\ path' = path /\ path # NoFile
        /\ UNCHANGED <<content, lines>>
    BY <1>8 DEF WriterReopens, NoFile
  <2>2. content[path] = <<>> /\ writer \in Nat
    BY <2>1 DEF Files, TailAssumption
  <2>3. \A f \in Files : f > writer' => content'[f] = <<>>
    BY <2>1, <2>2 DEF Files, TailAssumption
  <2>4. path' \in {NoFile, writer', writer' + 1} \cap (Files \cup {NoFile})
    BY <2>1
  <2> QED BY <2>1, <2>2, <2>3, <2>4
<1>9. CASE UNCHANGED disk
  BY <1>9 DEF disk
<1> QED BY <1>4, <1>5, <1>6, <1>7, <1>8, <1>9 DEF Next, vars, Poll, Environment, Open, BeginPoll,
          Reopen, Idle, Read, ReadFails, End

-----------------------------------------------------------------------------
(* The handlers, line by line.                                             *)

\* What a flush sends: one record for each line of the group, with the group.
LEMMA FlushType ==
  ASSUME NEW ls \in Seq(Numbers)
  PROVE  /\ Flush(ls) \in Seq(Records) /\ Len(Flush(ls)) = Len(ls)
         /\ \A i \in DOMAIN ls : Flush(ls)[i].line = ls[i] /\ Flush(ls)[i].group = ls
<1>1. /\ DOMAIN ls = 1 .. Len(ls) /\ Len(ls) \in Nat
      /\ \A i \in DOMAIN ls : ls[i] \in Numbers
  BY Elements
<1>2. ASSUME NEW i \in DOMAIN ls PROVE RawFrom(ls[i], ls) \in Numbers
  <2> DEFINE T == {k \in DOMAIN ls : lines[ls[k]].type = lines[ls[i]].type}
  <2>1. T \subseteq Nat /\ T # {} /\ T \subseteq DOMAIN ls
    BY <1>1
  <2>2. Min(T) \in T
    <3> HIDE DEF T
    <3> QED BY <2>1, Least
  <2>3. RawFrom(ls[i], ls) = ls[Min(T)]
    BY DEF RawFrom
  <2> HIDE DEF T
  <2> QED BY <1>1, <2>1, <2>2, <2>3
<1>3. \A i \in 1 .. Len(ls) :
        [line |-> ls[i], group |-> ls, raw |-> RawFrom(ls[i], ls)] \in Records
  BY <1>1, <1>2 DEF Records
<1>4. Flush(ls) = [i \in 1 .. Len(ls) |->
                    [line |-> ls[i], group |-> ls, raw |-> RawFrom(ls[i], ls)]]
  BY <1>1 DEF Flush
<1>5. Flush(ls) \in Seq(Records) /\ Len(Flush(ls)) = Len(ls)
  BY <1>1, <1>3, <1>4
<1> QED BY <1>1, <1>4, <1>5

\* A line makes a handler of a handler.
LEMMA OnLineType ==
  ASSUME NEW h \in Handlers, NEW l \in Numbers
  PROVE  OnLine(h, l) \in Handlers
<1>1. h.group \in Seq(Numbers) /\ h.sent \in Seq(Records) /\ <<l>> \in Seq(Numbers)
  BY DEF Handlers
<1>2. Flush(h.group) \in Seq(Records) /\ Flush(<<l>>) \in Seq(Records)
  BY <1>1, FlushType
<1>3. /\ h.sent \o Flush(h.group) \in Seq(Records) /\ h.sent \o Flush(<<l>>) \in Seq(Records)
      /\ Append(h.group, l) \in Seq(Numbers)
  BY <1>1, <1>2
<1>4. h = [group |-> h.group, sent |-> h.sent]
  BY DEF Handlers
<1> HIDE DEF Handlers
<1>5. /\ [h EXCEPT !.sent = @ \o Flush(<<l>>)] \in Handlers
      /\ [group |-> <<l>>, sent |-> h.sent \o Flush(h.group)] \in Handlers
      /\ [h EXCEPT !.group = Append(@, l)] \in Handlers
  BY <1>1, <1>3, <1>4 DEF Handlers
<1> QED BY <1>5 DEF OnLine

\* A line that does not parse is passed over.
LEMMA JunkKeeps ==
  ASSUME NEW g, NEW s, NEW lo, NEW m, Handled(lines, g, s, lo, m), m + 1 <= Len(lines),
         Junk(lines, m + 1)
  PROVE  Handled(lines, g, s, lo, m + 1)
<1> USE DEF Handled
<1>1. /\ \A j \in DOMAIN g : g[j] \in Nat /\ g[j] <= m + 1
      /\ \A i \in DOMAIN s : s[i].line \in Nat /\ s[i].line <= m + 1
      /\ \A i \in DOMAIN s : s[i].group # <<>> /\ Last(s[i].group) \in Nat
  <2>1. \A j \in DOMAIN g : g[j] \in Numbers
    BY Elements
  <2>2. \A i \in DOMAIN s : s[i] \in Records
    BY Elements
  <2>3. ASSUME NEW i \in DOMAIN s PROVE s[i].group # <<>> /\ Last(s[i].group) \in Nat
    <3>1. s[i].group \in Seq(Numbers) /\ s[i].group # <<>>
      BY <2>2 DEF Records
    <3>2. Len(s[i].group) \in DOMAIN s[i].group
      BY <3>1
    <3> QED BY <3>1, <3>2, Elements DEF Last, Numbers
  <2> QED BY <2>1, <2>2, <2>3 DEF Numbers, Records
<1>2. \A l \in (lo + 1) .. (m + 1) : l \in (lo + 1) .. m \/ l = m + 1
  OBVIOUS
<1>3. g # <<>> => \A l \in (Last(g) + 1) .. (m + 1) : l \in (Last(g) + 1) .. m \/ l = m + 1
  OBVIOUS
<1> QED BY <1>1, <1>2, <1>3

\* What Handled says of the numbers in it.
LEMMA HandledTypes ==
  ASSUME NEW g, NEW s, NEW lo, NEW m, Handled(lines, g, s, lo, m)
  PROVE  /\ DOMAIN g = 1 .. Len(g) /\ Len(g) \in Nat /\ \A j \in DOMAIN g : g[j] \in Numbers
         /\ DOMAIN s = 1 .. Len(s) /\ Len(s) \in Nat
         /\ \A i \in DOMAIN s : s[i].line \in Numbers /\ s[i].group \in Seq(Numbers)
<1>1. g \in Seq(Numbers) /\ s \in Seq(Records)
  BY DEF Handled
<1>2. \A i \in DOMAIN s : s[i] \in Records
  BY <1>1, Elements
<1> QED BY <1>1, <1>2, Elements DEF Records

\* The group is sent, whole: nothing is lost and the order is kept.
LEMMA FlushKeeps ==
  ASSUME DiskInv, NEW g, NEW s, NEW lo, NEW m, Handled(lines, g, s, lo, m)
  PROVE  Handled(lines, <<>>, s \o Flush(g), lo, m)
<1> DEFINE t == Flush(g)
           u == s \o t
<1>1. /\ g \in Seq(Numbers) /\ s \in Seq(Records) /\ t \in Seq(Records) /\ Len(t) = Len(g)
      /\ \A i \in DOMAIN g : t[i].line = g[i] /\ t[i].group = g
  BY FlushType DEF Handled
<1>2. /\ DOMAIN g = 1 .. Len(g) /\ Len(g) \in Nat /\ \A j \in DOMAIN g : g[j] \in Numbers
      /\ DOMAIN s = 1 .. Len(s) /\ Len(s) \in Nat
      /\ \A i \in DOMAIN s : s[i].line \in Numbers /\ s[i].group \in Seq(Numbers)
  BY HandledTypes
<1> HIDE DEF t
<1>3. /\ u \in Seq(Records) /\ DOMAIN u = 1 .. (Len(s) + Len(g))
      /\ \A i \in DOMAIN s : u[i] = s[i]
      /\ \A j \in DOMAIN g : Len(s) + j \in DOMAIN u /\ u[Len(s) + j] = t[j]
  <2>1. /\ u \in Seq(Records) /\ Len(u) = Len(s) + Len(t)
        /\ \A i \in 1 .. Len(s) : u[i] = s[i]
        /\ \A j \in 1 .. Len(t) : u[Len(s) + j] = t[j]
    BY <1>1
  <2> HIDE DEF u
  <2>2. DOMAIN u = 1 .. Len(u)
    BY <2>1, Elements
  <2> QED BY <1>1, <1>2, <2>1, <2>2
<1>4. ASSUME NEW i \in DOMAIN u
      PROVE  i \in DOMAIN s \/ (i - Len(s) \in DOMAIN g /\ u[i] = t[i - Len(s)])
  <2>1. i \in DOMAIN s \/ (i - Len(s) \in DOMAIN g /\ Len(s) + (i - Len(s)) = i)
    BY <1>2, <1>3
  <2> QED BY <1>3, <2>1
<1> HIDE DEF u
<1>5. \A i \in DOMAIN u : u[i].line <= m
  <2> SUFFICES ASSUME NEW i \in DOMAIN u PROVE u[i].line <= m
    OBVIOUS
  <2>1. CASE i \in DOMAIN s
    BY <1>3, <2>1 DEF Handled
  <2>2. CASE i - Len(s) \in DOMAIN g /\ u[i] = t[i - Len(s)]
    BY <1>1, <2>2 DEF Handled
  <2> QED BY <1>4, <2>1, <2>2
<1>6. ASSUME NEW i \in DOMAIN u, NEW j \in DOMAIN u, i < j PROVE u[i].line < u[j].line
  <2>1. CASE i \in DOMAIN s /\ j \in DOMAIN s
    BY <1>3, <1>6, <2>1 DEF Handled
  <2>2. CASE i \in DOMAIN s /\ j \notin DOMAIN s
    BY <1>1, <1>3, <1>4, <2>2 DEF Handled
  <2>3. CASE i \notin DOMAIN s
    <3>1. j \notin DOMAIN s /\ i - Len(s) < j - Len(s)
      BY <1>2, <1>3, <1>6, <2>3
    <3>2. /\ i - Len(s) \in DOMAIN g /\ u[i] = t[i - Len(s)]
          /\ j - Len(s) \in DOMAIN g /\ u[j] = t[j - Len(s)]
      BY <1>4, <2>3, <3>1
    <3>3. g[i - Len(s)] < g[j - Len(s)]
      BY <3>1, <3>2 DEF Handled
    <3> QED BY <1>1, <3>2, <3>3
  <2> QED BY <2>1, <2>2, <2>3
<1>7. ASSUME NEW i \in DOMAIN u
      PROVE  /\ u[i].group # <<>> /\ Last(u[i].group) <= Len(lines)
             /\ OneEvent(lines, u[i].group)
  <2>1. CASE i \in DOMAIN s
    BY <1>3, <2>1 DEF Handled
  <2>2. CASE i - Len(s) \in DOMAIN g /\ u[i] = t[i - Len(s)]
    <3>1. u[i].group = g
      BY <1>1, <2>2
    <3>2. g # <<>> /\ Len(g) \in DOMAIN g
      BY <1>1, <1>2, <2>2
    <3>3. Last(g) <= Len(lines) /\ OneEvent(lines, g)
      <4>1. Last(g) \in Nat /\ Last(g) <= m
        BY <1>2, <3>2 DEF Handled, Last, Numbers
      <4>2. m \in Nat /\ m <= Len(lines)
        BY DEF Handled
      <4> QED BY <3>2, <4>1, <4>2, LinesLength DEF Handled
    <3> QED BY <3>1, <3>2, <3>3
  <2> QED BY <1>4, <2>1, <2>2
<1>8. ASSUME NEW l \in (lo + 1) .. m PROVE Junk(lines, l) \/ \E i \in DOMAIN u : u[i].line = l
  <2>1. Junk(lines, l) \/ l \in Range(g) \/ \E i \in DOMAIN s : s[i].line = l
    BY DEF Handled
  <2>2. CASE l \in Range(g)
    <3>1. PICK j \in DOMAIN g : g[j] = l
      BY <2>2 DEF Range
    <3>2. Len(s) + j \in DOMAIN u /\ u[Len(s) + j].line = l
      BY <1>1, <1>3, <3>1
    <3> QED BY <3>2
  <2>3. CASE \E i \in DOMAIN s : s[i].line = l
    <3>1. PICK i \in DOMAIN s : s[i].line = l
      BY <2>3
    <3>2. i \in DOMAIN u
      BY <1>2, <1>3
    <3> QED BY <1>3, <3>1, <3>2
  <2> QED BY <2>1, <2>2, <2>3
<1>9. Handled(lines, <<>>, u, lo, m)
  <2>1. /\ lo \in Nat /\ m \in Nat /\ m <= Len(lines)
    BY DEF Handled
  <2>2. <<>> \in Seq(Numbers) /\ DOMAIN <<>> = {}
    OBVIOUS
  <2> QED BY <1>3, <1>5, <1>6, <1>7, <1>8, <2>1, <2>2 DEF Handled
<1> QED BY <1>9 DEF u, t

\* The next line joins the group whose event it is of, or begins one.
LEMMA AppendKeeps ==
  ASSUME DiskInv, NEW g, NEW s, NEW lo, NEW m, Handled(lines, g, s, lo, m), m + 1 <= Len(lines),
         g = <<>> \/ lines[Head(g)].event = lines[m + 1].event
  PROVE  Handled(lines, Append(g, m + 1), s, lo, m + 1)
<1> DEFINE d == Append(g, m + 1)
           n == Len(g)
<1>1. /\ DOMAIN g = 1 .. n /\ n \in Nat /\ \A j \in DOMAIN g : g[j] \in Numbers
      /\ \A i \in DOMAIN s : s[i].line \in Numbers /\ s[i].group \in Seq(Numbers)
      /\ m \in Nat /\ lo \in Nat /\ m + 1 \in Numbers /\ Len(lines) \in Nat
  <2>1. m \in Nat /\ lo \in Nat
    BY DEF Handled
  <2>2. Len(lines) \in Nat
    BY DEF DiskInv
  <2>3. m + 1 \in Numbers
    BY <2>1 DEF Numbers
  <2> QED BY <2>1, <2>2, <2>3, HandledTypes
<1>2. /\ d \in Seq(Numbers) /\ DOMAIN d = 1 .. (n + 1) /\ d[n + 1] = m + 1 /\ Len(d) = n + 1
      /\ \A j \in 1 .. n : d[j] = g[j]
  BY <1>1 DEF Handled
<1>3. Last(d) = m + 1 /\ Head(d) = d[1]
  BY <1>2 DEF Last
<1>4. g # <<>> => Head(g) = g[1] /\ Head(d) = g[1] /\ Last(g) = g[n] /\ n > 0
  BY <1>1, <1>2, <1>3 DEF Last, Handled
<1> HIDE DEF d, n
<1>5. \A j \in DOMAIN d : d[j] \in Nat /\ d[j] <= m + 1
  <2> SUFFICES ASSUME NEW j \in DOMAIN d PROVE d[j] \in Nat /\ d[j] <= m + 1
    OBVIOUS
  <2>1. CASE j \in 1 .. n
    <3>1. d[j] = g[j] /\ g[j] \in Numbers
      BY <1>1, <1>2, <2>1
    <3>2. g[j] <= m
      BY <1>1, <2>1 DEF Handled
    <3> QED BY <1>1, <3>1, <3>2 DEF Numbers
  <2>2. CASE j \notin 1 .. n
    <3>1. j = n + 1
      BY <1>1, <1>2, <2>2
    <3> QED BY <1>1, <1>2, <3>1 DEF Numbers
  <2> QED BY <2>1, <2>2
<1>6. \A j, k \in DOMAIN d : j < k => d[j] < d[k]
  <2> SUFFICES ASSUME NEW j \in DOMAIN d, NEW k \in DOMAIN d, j < k PROVE d[j] < d[k]
    OBVIOUS
  <2>1. j \in 1 .. n /\ g[j] \in Nat /\ g[j] <= m
    BY <1>1, <1>2 DEF Handled, Numbers
  <2>2. CASE k = n + 1
    BY <1>1, <1>2, <2>1, <2>2
  <2>3. CASE k # n + 1
    BY <1>1, <1>2, <2>1, <2>3 DEF Handled
  <2> QED BY <2>2, <2>3
<1>7. \A i \in DOMAIN s : /\ s[i].line <= m + 1
                          /\ s[i].group # <<>> /\ Last(s[i].group) <= Len(lines)
                          /\ OneEvent(lines, s[i].group)
  <2>1. \A i \in DOMAIN s : /\ s[i].line <= m
                            /\ s[i].group # <<>> /\ Last(s[i].group) <= Len(lines)
                            /\ OneEvent(lines, s[i].group)
    BY DEF Handled
  <2> QED BY <1>1, <2>1 DEF Numbers
<1>8. ASSUME NEW i \in DOMAIN s, NEW j \in DOMAIN d PROVE s[i].line < d[j]
  <2>1. s[i].line \in Nat /\ s[i].line <= m
    BY <1>1 DEF Handled, Numbers
  <2>2. CASE j = n + 1
    BY <1>1, <1>2, <2>1, <2>2
  <2>3. CASE j # n + 1
    <3>1. j \in DOMAIN g /\ d[j] = g[j]
      BY <1>1, <1>2, <2>3
    <3> QED BY <3>1 DEF Handled
  <2> QED BY <2>2, <2>3
<1>9. OneEvent(lines, d)
  <2>1. m + 1 \in Range(d) /\ \A x \in Range(g) : x \in Range(d)
    BY <1>1, <1>2 DEF Range
  <2>2. CASE g = <<>>
    <3>1. n = 0 /\ Head(d) = m + 1
      BY <1>2, <1>3, <2>2 DEF n
    <3>2. \A l \in Head(d) .. Last(d) : l = m + 1
      BY <1>1, <1>3, <3>1
    <3> QED BY <2>1, <3>1, <3>2 DEF OneEvent
  <2>3. CASE g # <<>>
    <3> SUFFICES ASSUME NEW l \in Head(d) .. Last(d)
                 PROVE  /\ lines[l].event = lines[Head(d)].event
                        /\ l \in Range(d) \/ Junk(lines, l)
      BY DEF OneEvent
    <3> DEFINE a == g[1]
    <3>1. /\ Head(d) = a /\ Head(g) = a /\ a \in Nat /\ a >= 1 /\ a <= m
          /\ Last(g) \in Nat /\ lines[a].event = lines[m + 1].event
      <4>1. 1 \in DOMAIN g /\ n \in DOMAIN g
        BY <1>1, <1>4, <2>3
      <4>2. a \in Numbers /\ g[n] \in Numbers
        BY <1>1, <4>1
      <4>3. a <= m
        BY <4>1 DEF Handled
      <4>4. Head(d) = a /\ Head(g) = a /\ Last(g) = g[n]
        BY <1>4, <2>3
      <4>5. lines[a].event = lines[m + 1].event
        BY <2>3, <4>4
      <4> HIDE DEF a
      <4> QED BY <4>2, <4>3, <4>4, <4>5 DEF Numbers
    <3>2. l \in Nat /\ a <= l /\ l <= m + 1
      BY <1>3, <3>1
    <3>3. a \in DOMAIN lines /\ l \in DOMAIN lines /\ m + 1 \in DOMAIN lines
      <4>1. DOMAIN lines = 1 .. Len(lines)
        BY DEF DiskInv
      <4> QED BY <1>1, <3>1, <3>2, <4>1
    <3>4. lines[l].event = lines[a].event
      <4>1. a < l => lines[a].event <= lines[l].event
        BY <3>3 DEF DiskInv
      <4>2. l < m + 1 => lines[l].event <= lines[m + 1].event
        BY <3>3 DEF DiskInv
      <4>3. lines[l].event \in Nat /\ lines[a].event \in Nat
        BY <3>3, LinesTyped
      <4> QED BY <1>1, <3>1, <3>2, <4>1, <4>2, <4>3
    <3>5. l \in Range(d) \/ Junk(lines, l)
      <4>1. CASE l = m + 1
        BY <2>1, <4>1
      <4>2. CASE l # m + 1 /\ l <= Last(g)
        <5>1. l \in Head(g) .. Last(g)
          BY <3>1, <3>2, <4>2
        <5> QED BY <2>1, <2>3, <5>1 DEF Handled, OneEvent
      <4>3. CASE l # m + 1 /\ ~ (l <= Last(g))
        <5>1. l \in (Last(g) + 1) .. m
          BY <1>1, <3>1, <3>2, <4>3
        <5> QED BY <2>3, <5>1 DEF Handled
      <4> QED BY <4>1, <4>2, <4>3
    <3> QED BY <3>1, <3>4, <3>5
  <2> QED BY <2>2, <2>3
<1>10. \A l \in (Last(d) + 1) .. (m + 1) : Junk(lines, l)
  BY <1>1, <1>3
<1>11. ASSUME NEW l \in (lo + 1) .. (m + 1)
       PROVE  Junk(lines, l) \/ l \in Range(d) \/ \E i \in DOMAIN s : s[i].line = l
  <2>1. m + 1 \in Range(d) /\ \A x \in Range(g) : x \in Range(d)
    BY <1>1, <1>2 DEF Range
  <2>2. CASE l = m + 1
    BY <2>1, <2>2
  <2>3. CASE l # m + 1
    <3>1. l \in (lo + 1) .. m
      BY <1>1, <2>3
    <3> QED BY <2>1, <3>1 DEF Handled
  <2> QED BY <2>2, <2>3
<1>12. Handled(lines, d, s, lo, m + 1)
  <2>1. /\ s \in Seq(Records)
        /\ \A i, j \in DOMAIN s : i < j => s[i].line < s[j].line
    BY DEF Handled
  <2> QED BY <1>1, <1>2, <1>5, <1>6, <1>7, <1>8, <1>9, <1>10, <1>11, <2>1 DEF Handled, Numbers
<1> QED BY <1>12 DEF d

\* The next line that is complete is handled.
LEMMA OnLineKeeps ==
  ASSUME DiskInv, NEW h \in Handlers, NEW lo, NEW m, m + 1 <= Len(lines),
         Handled(lines, h.group, h.sent, lo, m), Grouped(h.group)
  PROVE  LET k == OnLine(h, m + 1)
         IN Handled(lines, k.group, k.sent, lo, m + 1) /\ Grouped(k.group)
<1> DEFINE g == h.group
           s == h.sent
           l == m + 1
           k == OnLine(h, l)
<1>1. h = [group |-> g, sent |-> s] /\ g \in Seq(Numbers) /\ s \in Seq(Records)
  BY DEF Handlers
<1>2. m \in Nat
  BY DEF Handled
<1> HIDE DEF g, s
<1>3. CASE lines[l].type = "junk"
  <2>1. k = h
    BY <1>3 DEF OnLine
  <2>2. Junk(lines, m + 1)
    BY <1>3 DEF Junk
  <2> QED BY <2>1, <2>2, JunkKeeps
<1>4. CASE lines[l].type # "junk" /\ handler = "lines"
  <2>1. g = <<>>
    BY <1>4 DEF Grouped, g
  <2>2. Append(g, l) = <<l>>
    BY <2>1
  <2>3. Handled(lines, <<l>>, s, lo, m + 1)
    BY <2>1, <2>2, AppendKeeps DEF g, s
  <2>4. Handled(lines, <<>>, s \o Flush(<<l>>), lo, m + 1)
    BY <2>3, FlushKeeps
  <2>5. k.group = <<>> /\ k.sent = s \o Flush(<<l>>)
    BY <1>1, <1>4, <2>1 DEF OnLine
  <2> QED BY <2>4, <2>5 DEF Grouped
<1>5. CASE lines[l].type # "junk" /\ handler # "lines"
  <2>1. CASE g # <<>> /\ lines[Head(g)].event # lines[l].event
    <3>1. Handled(lines, <<>>, s \o Flush(g), lo, m)
      BY FlushKeeps DEF g, s
    <3>2. Handled(lines, <<l>>, s \o Flush(g), lo, m + 1)
      <4>1. Append(<<>>, l) = <<l>>
        OBVIOUS
      <4> QED BY <3>1, <4>1, AppendKeeps
    <3>3. k = [group |-> <<l>>, sent |-> s \o Flush(g)]
      BY <1>5, <2>1 DEF OnLine, g, s
    <3>4. k.group = <<l>> /\ k.sent = s \o Flush(g)
      BY <3>3
    <3> HIDE DEF k
    <3>5. Handled(lines, k.group, k.sent, lo, m + 1) /\ Grouped(k.group)
      BY <1>5, <3>2, <3>4 DEF Grouped
    <3> QED BY <3>5 DEF k
  <2>2. CASE ~ (g # <<>> /\ lines[Head(g)].event # lines[l].event)
    <3>1. Handled(lines, Append(g, l), s, lo, m + 1)
      BY <2>2, AppendKeeps DEF g, s
    <3>2. k = [h EXCEPT !.group = Append(@, l)]
      BY <1>5, <2>2 DEF OnLine, g
    <3>3. k.group = Append(g, l) /\ k.sent = s
      BY <1>1, <3>2
    <3> QED BY <1>5, <3>1, <3>3 DEF Grouped
  <2> QED BY <2>1, <2>2
<1> QED BY <1>3, <1>4, <1>5

\* Halves as they are read, perhaps from the middle of a line on.
Follows(bytes) ==
  /\ bytes \in Seq(Numbers \X {"head", "end"})
  /\ \A i \in 2 .. Len(bytes) :
       /\ bytes[i][2] = "end" => bytes[i - 1] = <<bytes[i][1], "head">>
       /\ bytes[i][2] = "head" => bytes[i - 1] = <<bytes[i][1] - 1, "end">>

\* What is kept of them: the head of a line whose end is to come.
LEMMA PartialIs ==
  ASSUME NEW bytes, Follows(bytes), bytes # <<>>
  PROVE  Partial(bytes) = IF bytes[Len(bytes)][2] = "head" THEN <<bytes[Len(bytes)]>> ELSE <<>>
<1> DEFINE n == Len(bytes)
<1>1. /\ DOMAIN bytes = 1 .. n /\ n \in Nat /\ n > 0
      /\ \A i \in 1 .. n : bytes[i] \in Numbers \X {"head", "end"}
      /\ bytes \in Seq(Numbers \X {"head", "end"})
  BY Elements DEF Follows
<1>2. EndsIn(bytes) = {i \in 1 .. n : bytes[i][2] = "end"}
  BY <1>1 DEF EndsIn
<1> HIDE DEF n
<1>3. CASE bytes[n][2] # "head"
  <2>1. n \in EndsIn(bytes) /\ \A i \in EndsIn(bytes) : i \in Nat /\ n >= i
    BY <1>1, <1>2, <1>3
  <2>2. Max(EndsIn(bytes)) = n
    BY <1>1, <2>1, Greatest
  <2>3. SubSeq(bytes, n + 1, n) = <<>>
    BY <1>1
  <2> QED BY <1>3, <2>1, <2>2, <2>3 DEF Partial, n
<1>4. CASE bytes[n][2] = "head" /\ n = 1
  <2>1. EndsIn(bytes) = {}
    BY <1>1, <1>2, <1>4
  <2>2. bytes = <<bytes[1]>>
    BY <1>1, <1>4 DEF n
  <2> QED BY <1>4, <2>1, <2>2 DEF Partial, n
<1>5. CASE bytes[n][2] = "head" /\ n # 1
  <2>1. n \in 2 .. n /\ n - 1 \in 1 .. n
    BY <1>1, <1>5
  <2>2. bytes[n - 1][2] = "end"
    <3>1. n \in 2 .. Len(bytes)
      BY <2>1 DEF n
    <3>2. bytes[n - 1] = <<bytes[n][1] - 1, "end">>
      BY <1>5, <3>1 DEF Follows
    <3> QED BY <3>2
  <2>3. n - 1 \in EndsIn(bytes) /\ \A i \in EndsIn(bytes) : i \in Nat /\ n - 1 >= i
    BY <1>1, <1>2, <1>5, <2>1, <2>2
  <2>4. Max(EndsIn(bytes)) = n - 1
    BY <1>1, <2>3, Greatest
  <2>5. SubSeq(bytes, (n - 1) + 1, n) = <<bytes[n]>>
    <3>1. (n - 1) + 1 = n /\ n \in 1 .. n
      BY <1>1
    <3>2. SubSeq(bytes, n, n) = <<bytes[n]>>
      BY <1>1, <3>1, OneOf DEF n
    <3> QED BY <3>1, <3>2
  <2> QED BY <1>5, <2>3, <2>4, <2>5 DEF Partial, n
<1> QED BY <1>3, <1>4, <1>5 DEF n

\* The handling of what was read goes half by half.
LEMMA HalfByHalf ==
  ASSUME NEW h \in Handlers, NEW bytes \in Seq(Numbers \X {"head", "end"})
  PROVE  LET D == DrainLines(h, bytes)
         IN /\ D \in [0 .. Len(bytes) -> Handlers]
            /\ D[0] = h
            /\ \A k \in 1 .. Len(bytes) :
                 D[k] = IF EndsLine(bytes, k) THEN OnLine(D[k - 1], bytes[k][1]) ELSE D[k - 1]
<1> DEFINE n == Len(bytes)
           Turn(d, k) == IF EndsLine(bytes, k) THEN OnLine(d, bytes[k][1]) ELSE d
           step == [a \in Handlers \X (1 .. n) |-> Turn(a[1], a[2])]
           Loops(f) == f = [k \in 0 .. n |-> IF k = 0 THEN h ELSE Turn(f[k - 1], k)]
           D == DrainLines(h, bytes)
<1>1. n \in Nat /\ \A k \in 1 .. n : bytes[k][1] \in Numbers
  <2>1. \A k \in 1 .. n : bytes[k] \in Numbers \X {"head", "end"}
    BY Elements
  <2> QED BY <2>1
<1>2. \A d \in Handlers, k \in 1 .. n : Turn(d, k) \in Handlers
  BY <1>1, OnLineType
<1>3. step \in [Handlers \X (1 .. n) -> Handlers]
  BY <1>2
<1>4. PICK g : IsLoop(g, Handlers, n, step, h)
  <2> HIDE DEF step, n
  <2> QED BY <1>1, <1>3, LoopExists
<1>5. \A k \in 1 .. n : g[k] = Turn(g[k - 1], k)
  <2> SUFFICES ASSUME NEW k \in 1 .. n PROVE g[k] = Turn(g[k - 1], k)
    OBVIOUS
  <2>1. k - 1 \in 0 .. n
    BY <1>1
  <2>2. <<g[k - 1], k>> \in Handlers \X (1 .. n)
    BY <1>4, <2>1 DEF IsLoop
  <2> HIDE DEF Turn
  <2> QED BY <1>4, <2>2 DEF IsLoop
<1> HIDE DEF Turn
<1>6. Loops(g)
  BY <1>1, <1>4, <1>5 DEF IsLoop
<1>7. D = CHOOSE f : Loops(f)
  BY DEF DrainLines, Turn
<1>8. Loops(D)
  <2> HIDE DEF Loops, D
  <2> QED BY <1>6, <1>7
<1>9. D = [k \in 0 .. n |-> D[k]] /\ D[0] = h /\ \A k \in 1 .. n : D[k] = Turn(D[k - 1], k)
  <2>1. D = [k \in 0 .. n |-> IF k = 0 THEN h ELSE Turn(D[k - 1], k)]
    BY <1>8
  <2> HIDE DEF D
  <2>2. D = [k \in 0 .. n |-> D[k]]
    BY <2>1
  <2>3. D[0] = h
    BY <1>1, <2>1
  <2>4. ASSUME NEW k \in 1 .. n PROVE D[k] = Turn(D[k - 1], k)
    <3>1. k \in 0 .. n /\ k # 0
      BY <1>1
    <3> QED BY <2>1, <3>1
  <2> QED BY <2>2, <2>3, <2>4
<1>10. \A k \in 0 .. n : D[k] \in Handlers
  <2> DEFINE T == {k \in Nat : k <= n => D[k] \in Handlers}
  <2> HIDE DEF D
  <2>1. 0 \in T
    BY <1>9
  <2>2. ASSUME NEW k \in Nat, k \in T PROVE k + 1 \in T
    <3> SUFFICES ASSUME k + 1 <= n PROVE D[k + 1] \in Handlers
      OBVIOUS
    <3>1. D[k] \in Handlers /\ k + 1 \in 1 .. n /\ (k + 1) - 1 = k
      BY <1>1, <2>2
    <3> QED BY <1>2, <1>9, <3>1
  <2>3. T = Nat
    <3> HIDE DEF T
    <3>1. T \subseteq Nat
      BY DEF T
    <3> QED BY <2>1, <2>2, <3>1, Induct
  <2> QED BY <1>1, <2>3
<1> QED BY <1>9, <1>10 DEF Turn

\* What was read is handled up to its last whole line.
LEMMA DrainKeeps ==
  ASSUME DiskInv, NEW h \in Handlers, NEW bytes, Follows(bytes), bytes # <<>>,
         \A i \in 1 .. Len(bytes) : bytes[i][1] <= Len(lines),
         NEW lo, NEW m, Handled(lines, h.group, h.sent, lo, m), Grouped(h.group),
         m = IF bytes[1][2] = "head" THEN bytes[1][1] - 1 ELSE bytes[1][1]
  PROVE  LET k == DrainLines(h, bytes)[Len(bytes)]
             last == bytes[Len(bytes)]
         IN /\ k \in Handlers /\ Grouped(k.group)
            /\ Handled(lines, k.group, k.sent, lo,
                       IF last[2] = "head" THEN last[1] - 1 ELSE last[1])
<1> DEFINE n == Len(bytes)
           D == DrainLines(h, bytes)
           V(i) == IF bytes[i][2] = "head" THEN bytes[i][1] - 1 ELSE bytes[i][1]
           Good(i) == /\ Handled(lines, D[i].group, D[i].sent, lo, V(i))
                      /\ Grouped(D[i].group)
           T == {i \in Nat : i + 1 <= n => Good(i + 1)}
<1>1. /\ bytes \in Seq(Numbers \X {"head", "end"}) /\ n \in Nat /\ n >= 1
      /\ DOMAIN bytes = 1 .. n
      /\ \A i \in 1 .. n : bytes[i] \in Numbers \X {"head", "end"}
  BY Elements DEF Follows
<1>2. /\ D \in [0 .. n -> Handlers] /\ D[0] = h
      /\ \A k \in 1 .. n : D[k] = IF EndsLine(bytes, k) THEN OnLine(D[k - 1], bytes[k][1])
                                  ELSE D[k - 1]
  BY <1>1, HalfByHalf
<1> HIDE DEF D, n
<1>3. Good(1)
  <2>1. ~ EndsLine(bytes, 1) /\ 1 \in 1 .. n
    BY <1>1 DEF EndsLine
  <2>2. D[1] = h
    BY <1>2, <2>1
  <2> QED BY <2>2
<1>4. 0 \in T
  BY <1>3
<1>5. ASSUME NEW i \in Nat, i \in T PROVE i + 1 \in T
  <2> SUFFICES ASSUME i + 2 <= n PROVE Good(i + 2)
    OBVIOUS
  <2> DEFINE j == i + 2
             l == bytes[j][1]
  <2>1. j \in 2 .. n /\ j - 1 \in 1 .. n /\ j - 1 = i + 1 /\ j \in 1 .. n /\ j - 1 \in 0 .. n
    BY <1>1
  <2>2. Good(j - 1) /\ D[j - 1] \in Handlers
    BY <1>2, <1>5, <2>1
  <2>3. l \in Numbers /\ bytes[j][2] \in {"head", "end"} /\ l <= Len(lines)
    BY <1>1, <2>1 DEF n
  <2>4. CASE bytes[j][2] = "head"
    <3>1. bytes[j - 1] = <<l - 1, "end">>
      BY <2>1, <2>4 DEF Follows, n
    <3>2. V(j - 1) = l - 1 /\ V(j) = l - 1
      BY <2>4, <3>1
    <3>3. ~ EndsLine(bytes, j)
      BY <2>4 DEF EndsLine, EndsIn
    <3>4. D[j] = D[j - 1]
      BY <1>2, <2>1, <3>3
    <3> HIDE DEF V
    <3> QED BY <2>2, <3>2, <3>4
  <2>5. CASE bytes[j][2] = "end"
    <3>1. bytes[j - 1] = <<l, "head">>
      BY <2>1, <2>5 DEF Follows, n
    <3>2. V(j - 1) = l - 1 /\ V(j) = l
      BY <2>5, <3>1
    <3>3. j > 2 => j - 2 \in DOMAIN bytes /\ bytes[j - 2][2] = "end"
      <4> SUFFICES ASSUME j > 2 PROVE j - 2 \in DOMAIN bytes /\ bytes[j - 2][2] = "end"
        OBVIOUS
      <4>1. j - 1 \in 2 .. n /\ (j - 1) - 1 = j - 2 /\ j - 2 \in 1 .. n
        BY <1>1, <2>1
      <4>2. bytes[(j - 1) - 1] = <<bytes[j - 1][1] - 1, "end">>
        BY <3>1, <4>1 DEF Follows, n
      <4> QED BY <1>1, <4>1, <4>2
    <3>4. EndsLine(bytes, j)
      BY <1>1, <2>1, <2>5, <3>1, <3>3 DEF EndsLine, EndsIn
    <3>5. D[j] = OnLine(D[j - 1], l)
      BY <1>2, <2>1, <3>4
    <3>6. /\ Handled(lines, D[j - 1].group, D[j - 1].sent, lo, l - 1)
          /\ Grouped(D[j - 1].group)
      BY <2>2, <3>2
    <3>7. (l - 1) + 1 = l
      BY <2>3 DEF Numbers
    <3> HIDE DEF l, V, j
    <3>8. LET k == OnLine(D[j - 1], (l - 1) + 1)
          IN Handled(lines, k.group, k.sent, lo, (l - 1) + 1) /\ Grouped(k.group)
      BY <2>2, <2>3, <3>6, <3>7, OnLineKeeps
    <3>9. Handled(lines, D[j].group, D[j].sent, lo, l) /\ Grouped(D[j].group)
      BY <3>5, <3>7, <3>8
    <3> QED BY <3>2, <3>9 DEF j
  <2> QED BY <2>3, <2>4, <2>5
<1>6. T = Nat
  <2> HIDE DEF T
  <2>1. T \subseteq Nat
    BY DEF T
  <2> QED BY <1>4, <1>5, <2>1, Induct
<1>7. Good(n)
  <2>1. n - 1 \in Nat /\ (n - 1) + 1 = n
    BY <1>1
  <2>2. n - 1 \in T
    <3> HIDE DEF T
    <3> QED BY <1>6, <2>1
  <2>3. Good((n - 1) + 1)
    <3> HIDE DEF Good
    <3> QED BY <1>1, <2>1, <2>2
  <2> HIDE DEF Good
  <2> QED BY <2>1, <2>3
<1> QED BY <1>1, <1>2, <1>7 DEF D, n

\* Nothing handled of what is there is as well as nothing at all.
LEMMA HandledFresh ==
  ASSUME DiskInv, NEW m \in Nat, m <= Len(lines)
  PROVE  Handled(lines, <<>>, <<>>, m, m)
BY DEF Handled

\* After a group was dropped or sent, handling may go on from any later line.
LEMMA HandledAnew ==
  ASSUME NEW ls, NEW g, NEW s, NEW lo, NEW m, Handled(ls, g, s, lo, m),
         NEW k \in Nat, k <= Len(ls), \A i \in DOMAIN s : s[i].line <= k
  PROVE  Handled(ls, <<>>, s, k, k)
BY DEF Handled

\* What was handled stays handled when the log goes on.
LEMMA HandledOn ==
  ASSUME NEW ls, NEW e, NEW g, NEW s, NEW lo, NEW m, Handled(ls, g, s, lo, m),
         Len(ls) \in Nat, Len(e) \in Nat, Len(ls) <= Len(e),
         \A l \in 1 .. Len(ls) : e[l] = ls[l]
  PROVE  Handled(e, g, s, lo, m)
<1>1. /\ DOMAIN g = 1 .. Len(g) /\ Len(g) \in Nat /\ \A j \in DOMAIN g : g[j] \in Numbers
      /\ \A i \in DOMAIN s : s[i].line \in Numbers /\ s[i].group \in Seq(Numbers)
      /\ m \in Nat /\ lo \in Nat /\ m <= Len(ls) /\ g \in Seq(Numbers) /\ s \in Seq(Records)
  <2>1. g \in Seq(Numbers) /\ s \in Seq(Records)
    BY DEF Handled
  <2>2. \A i \in DOMAIN s : s[i] \in Records
    BY <2>1, Elements
  <2> QED BY <2>1, <2>2, Elements DEF Records, Handled
<1>2. ASSUME NEW x \in Seq(Numbers), x # <<>>, Last(x) <= Len(ls), OneEvent(ls, x)
      PROVE  Last(x) <= Len(e) /\ OneEvent(e, x)
  <2>1. Head(x) \in Numbers /\ Last(x) \in Numbers
    <3>1. 1 \in DOMAIN x /\ Len(x) \in DOMAIN x /\ Head(x) = x[1]
      BY <1>2
    <3> QED BY <3>1, Elements DEF Last
  <2>2. \A l \in Head(x) .. Last(x) : e[l] = ls[l] /\ e[Head(x)] = ls[Head(x)]
    BY <1>2, <2>1 DEF Numbers
  <2>3. Last(x) <= Len(e)
    BY <1>2, <2>1 DEF Numbers
  <2> QED BY <1>2, <2>2, <2>3 DEF OneEvent, Junk
<1>3. \A l \in (lo + 1) .. m : e[l] = ls[l]
  BY <1>1
<1>4. g # <<>> => /\ Last(g) \in Numbers /\ Last(g) <= Len(ls)
                  /\ \A l \in (Last(g) + 1) .. m : e[l] = ls[l]
  <2> SUFFICES ASSUME g # <<>>
               PROVE  /\ Last(g) \in Numbers /\ Last(g) <= Len(ls)
                      /\ \A l \in (Last(g) + 1) .. m : e[l] = ls[l]
    OBVIOUS
  <2>1. Len(g) \in DOMAIN g
    BY <1>1
  <2>2. Last(g) \in Numbers /\ Last(g) <= m
    BY <1>1, <2>1 DEF Last, Handled
  <2> QED BY <1>1, <2>2 DEF Numbers
<1>5. g # <<>> => OneEvent(e, g) /\ \A l \in (Last(g) + 1) .. m : Junk(e, l)
  <2> SUFFICES ASSUME g # <<>>
               PROVE  OneEvent(e, g) /\ \A l \in (Last(g) + 1) .. m : Junk(e, l)
    OBVIOUS
  <2>1. OneEvent(ls, g) /\ \A l \in (Last(g) + 1) .. m : Junk(ls, l)
    BY DEF Handled
  <2> QED BY <1>1, <1>2, <1>4, <2>1 DEF Junk
<1>6. \A i \in DOMAIN s : /\ s[i].group # <<>> /\ Last(s[i].group) <= Len(e)
                          /\ OneEvent(e, s[i].group)
  BY <1>1, <1>2 DEF Handled
<1>7. ASSUME NEW l \in (lo + 1) .. m
      PROVE  Junk(e, l) \/ l \in Range(g) \/ \E i \in DOMAIN s : s[i].line = l
  BY <1>3 DEF Handled, Junk
<1>8. m <= Len(e)
  BY <1>1
<1>9. /\ \A j \in DOMAIN g : g[j] <= m
      /\ \A j, k \in DOMAIN g : j < k => g[j] < g[k]
      /\ \A i \in DOMAIN s : s[i].line <= m
      /\ \A i, j \in DOMAIN s : i < j => s[i].line < s[j].line
      /\ \A i \in DOMAIN s, j \in DOMAIN g : s[i].line < g[j]
  BY DEF Handled
<1> QED BY <1>1, <1>5, <1>6, <1>7, <1>8, <1>9 DEF Handled

-----------------------------------------------------------------------------
(* Step by step.                                                           *)

LEMMA ReadInit ==
  ASSUME Init
  PROVE  ReadInv
BY DEF Init, ReadInv, Grouped, NoFile

\* What the file that is open and its numbers are.
LEMMA FileTypes ==
  ASSUME DiskInv, ReadInv, file # NoFile
  PROVE  LET c == content[file]
         IN /\ file \in Files /\ file \in Nat /\ c \in Seq(Nat \X {"head", "end"})
            /\ DOMAIN c = 1 .. Len(c) /\ Len(c) \in Nat
            /\ \A i \in DOMAIN c : c[i] \in Nat \X {"head", "end"} /\ c[i][1] \in 1 .. Len(lines)
            /\ start \in Nat /\ offset \in Nat /\ start <= offset /\ offset <= Len(c)
            /\ pending \in Seq(Nat \X {"head", "end"}) /\ Len(lines) \in Nat
            /\ Lo \in Nat /\ Upto \in Nat /\ Upto <= Len(lines)
<1> DEFINE c == content[file]
<1>1. file \in Files /\ file \in Nat /\ c \in Seq(Nat \X {"head", "end"})
  BY DEF DiskInv, ReadInv, NoFile, Files
<1>2. /\ DOMAIN c = 1 .. Len(c) /\ Len(c) \in Nat
      /\ \A i \in DOMAIN c : c[i] \in Nat \X {"head", "end"}
  BY <1>1, Elements
<1>3. \A i \in DOMAIN c : c[i][1] \in 1 .. Len(lines)
  BY <1>1, LinesLength DEF DiskInv
<1> HIDE DEF c
<1>4. start \in Nat /\ offset \in start .. Len(c)
  BY DEF ReadInv, Position, c
<1>5. pending \in Seq(Nat \X {"head", "end"})
  <2>1. offset > start => offset \in DOMAIN c
    BY <1>2, <1>4
  <2>2. pending = IF offset > start /\ c[offset][2] = "head" THEN <<c[offset]>> ELSE <<>>
    BY DEF ReadInv, Position, c
  <2>3. offset > start => <<c[offset]>> \in Seq(Nat \X {"head", "end"})
    BY <1>2, <2>1
  <2> QED BY <2>2, <2>3
<1>6. Lo \in Nat /\ Upto \in Nat /\ Upto <= Len(lines)
  BY DEF ReadInv, Handled
<1>7. start <= offset /\ offset <= Len(c) /\ offset \in Nat
  BY <1>2, <1>4
<1> QED BY <1>1, <1>2, <1>3, <1>4, <1>5, <1>6, <1>7, LinesLength DEF c

\* What is in later files comes after what is complete in this one.
LEMMA LaterFiles ==
  ASSUME DiskInv, ReadInv, file # NoFile, offset > 0,
         NEW f \in Files, f > file, NEW j \in DOMAIN content[f]
  PROVE  Upto < content[f][j][1]
<1>1. /\ offset \in DOMAIN content[file] /\ content[file][offset][1] \in Nat
      /\ content[f][j][1] \in Nat /\ file \in Files
  <2>1. content[f] \in Seq(Nat \X {"head", "end"})
    BY DEF DiskInv
  <2>2. content[f][j] \in Nat \X {"head", "end"}
    BY <2>1, Elements
  <2> QED BY <2>2, FileTypes
<1>2. content[file][offset][1] < content[f][j][1]
  BY <1>1 DEF DiskInv
<1>3. Upto <= content[file][offset][1]
  BY <1>1 DEF Upto
<1>4. Upto \in Nat
  BY FileTypes
<1> QED BY <1>1, <1>2, <1>3, <1>4

\* A step that neither reads nor writes.
LEMMA Passes ==
  ASSUME ReadInv, UNCHANGED <<content, lines, state, handler, group, sent>>,
         pc' \in {"open", "first", "reopen", "read", "loop", "ended"},
         pc' = "open" => file = NoFile, file = NoFile => pc' \in {"open", "ended"},
         file # NoFile => /\ file <= writer' \/ file = path'
                          /\ pc' = "reopen" => path' # file
  PROVE  ReadInv'
<1> USE DEF ReadInv, state
<1>1. Lo' = Lo /\ Upto' = Upto
  BY DEF Lo, Upto, Before
<1>2. Grouped(group)'
  BY DEF Grouped
<1>3. ASSUME file # NoFile PROVE Position' /\ Handled(lines, group, sent, Lo, Upto)' /\ SentBefore'
  <2>1. Position'
    BY <1>3 DEF Position
  <2>2. Handled(lines, group, sent, Lo, Upto)'
    BY <1>1, <1>3
  <2>3. SentBefore'
    BY <1>3 DEF SentBefore
  <2> QED BY <2>1, <2>2, <2>3
<1> QED BY <1>2, <1>3

\* A half is written: of a line after all that are known, or of the last line.
LEMMA Written ==
  ASSUME DiskInv, DiskInv', ReadInv, NEW h, NEW f \in Files,
         content' = [content EXCEPT ![f] = Append(@, h)],
         Len(lines) <= Len(lines'), \A l \in 1 .. Len(lines) : lines'[l] = lines[l],
         h[1] = Len(lines'),
         \/ h[1] = Len(lines) + 1
         \/ content[f] # <<>> /\ Last(content[f])[1] = h[1],
         UNCHANGED <<path, writer, state, handler, group, pc, sent>>
  PROVE  ReadInv'
<1> DEFINE c == content[file]
<1>1. /\ state' = state /\ file' = file /\ offset' = offset /\ start' = start
      /\ pending' = pending /\ path' = path /\ writer' = writer /\ group' = group
      /\ handler' = handler /\ pc' = pc /\ sent' = sent
  BY DEF state
<1>2. Grouped(group)'
  BY <1>1 DEF ReadInv, Grouped
<1>3. CASE file = NoFile
  BY <1>1, <1>2, <1>3 DEF ReadInv
<1>4. CASE file # NoFile
  <2>1. /\ file \in Files /\ file \in Nat /\ c \in Seq(Nat \X {"head", "end"})
        /\ DOMAIN c = 1 .. Len(c) /\ Len(c) \in Nat
        /\ \A i \in DOMAIN c : c[i] \in Nat \X {"head", "end"} /\ c[i][1] \in 1 .. Len(lines)
        /\ start \in Nat /\ offset \in Nat /\ start <= offset /\ offset <= Len(c)
        /\ Len(lines) \in Nat /\ Lo \in Nat /\ Upto \in Nat /\ Upto <= Len(lines)
    BY <1>4, FileTypes
  <2>2. /\ content \in [Files -> Seq(Nat \X {"head", "end"})]
        /\ content' \in [Files -> Seq(Nat \X {"head", "end"})] /\ Len(lines') \in Nat
    <3>1. lines' \in Seq([event : Nat, type : Types])
      BY DEF DiskInv
    <3>2. Len(lines') \in Nat
      BY <3>1
    <3> QED BY <3>2 DEF DiskInv
  <2>3. \A g \in Files : g # f => content'[g] = content[g]
    BY <2>2
  <2>4. content'[f] = Append(content[f], h)
    BY <2>2
  <2>5. /\ Len(content'[file]) \in Nat /\ Len(content'[file]) >= Len(c)
        /\ \A i \in 1 .. Len(c) : content'[file][i] = c[i]
    <3>1. CASE file = f
      BY <2>1, <2>4, <3>1
    <3>2. CASE file # f
      BY <2>1, <2>3, <3>2
    <3> QED BY <3>1, <3>2
  <2> HIDE DEF c
  <2>6. Position'
    <3>1. (offset > 0 => offset \in 1 .. Len(c)) /\ offset \in start .. Len(content'[file])
      BY <2>1, <2>5
    <3>2. Position
      BY <1>4 DEF ReadInv
    <3> QED BY <1>1, <2>1, <2>5, <3>1, <3>2 DEF Position, c
  <2>7. /\ \A i \in DOMAIN sent : sent[i].line \in Nat /\ sent[i].line <= Upto
        /\ Handled(lines', group, sent, Lo, Upto)
    <3>1. Handled(lines, group, sent, Lo, Upto)
      BY <1>4 DEF ReadInv
    <3>2. \A i \in DOMAIN sent : sent[i].line \in Numbers
      BY <3>1, HandledTypes
    <3>3. \A i \in DOMAIN sent : sent[i].line <= Upto
      BY <3>1 DEF Handled
    <3>4. Handled(lines', group, sent, Lo, Upto)
      BY <2>1, <2>2, <3>1, HandledOn
    <3> QED BY <3>2, <3>3, <3>4 DEF Numbers
  <2>8. SentBefore'
    <3> SUFFICES ASSUME NEW i \in DOMAIN sent, NEW g \in Files, g > file,
                        NEW j \in DOMAIN content'[g]
                 PROVE  sent[i].line < content'[g][j][1]
      BY <1>1 DEF SentBefore
    <3>1. \A k \in DOMAIN content[g] : sent[i].line < content[g][k][1]
      BY <1>4 DEF ReadInv, SentBefore
    <3>2. CASE g # f
      BY <2>3, <3>1, <3>2
    <3>3. CASE g = f /\ j \in DOMAIN content[g]
      BY <2>2, <2>4, <3>1, <3>3
    <3>4. CASE g = f /\ j \notin DOMAIN content[g]
      <4>1. content'[g][j] = h
        BY <2>2, <2>4, <3>4
      <4>2. CASE h[1] = Len(lines) + 1
        BY <2>1, <2>7, <4>1, <4>2
      <4>3. CASE content[f] # <<>> /\ Last(content[f])[1] = h[1]
        <5>1. Len(content[f]) \in DOMAIN content[f]
          BY <2>2, <4>3
        <5> QED BY <3>1, <3>4, <4>1, <4>3, <5>1 DEF Last
      <4> QED BY <4>2, <4>3
    <3> QED BY <3>2, <3>3, <3>4
  <2>9. Handled(lines', group, sent, Lo', Upto')
    <3>1. CASE c # <<>>
      <4>1. 1 \in 1 .. Len(c) /\ content'[file] # <<>>
        <5>1. Len(c) > 0
          BY <2>1, <3>1
        <5>2. Len(content'[file]) > 0
          BY <2>1, <2>5, <5>1
        <5>4. 1 \in 1 .. Len(c)
          BY <2>1, <5>1
        <5>3. content'[file] # <<>>
          <6> SUFFICES ASSUME content'[file] = <<>> PROVE FALSE
            OBVIOUS
          <6>1. Len(content'[file]) = 0
            OBVIOUS
          <6> QED BY <5>2, <6>1
        <5> QED BY <5>3, <5>4
      <4>2. Before(lines', content'[file]) = Before(lines, c)
        BY <2>5, <3>1, <4>1 DEF Before
      <4>3. (offset > 0 => offset \in 1 .. Len(c)) /\ (start > 0 => start \in 1 .. Len(c))
        BY <2>1
      <4>4. Lo' = Lo /\ Upto' = Upto
        BY <1>1, <2>1, <2>5, <4>2, <4>3 DEF Lo, Upto, c
      <4> QED BY <2>7, <4>4
    <3>2. CASE c = <<>>
      <4>1. start = 0 /\ offset = 0 /\ group = <<>>
        <5>1. Len(c) = 0
          BY <3>2
        <5> QED BY <1>4, <2>1, <5>1 DEF ReadInv, Position
      <4>2. Lo' = Before(lines', content'[file]) /\ Upto' = Lo'
        BY <1>1, <4>1 DEF Lo, Upto
      <4>3. CASE file = f
        <5>1. content[f] = <<>>
          BY <3>2, <4>3 DEF c
        <5>2. content'[file] = <<h>> /\ h[1] = Len(lines) + 1
          BY <2>4, <4>3, <5>1
        <5>3. Before(lines', content'[file]) = Len(lines)
          <6>1. content'[file] # <<>> /\ content'[file][1] = h
            BY <5>2
          <6>2. Before(lines', content'[file]) = h[1] - 1
            BY <6>1 DEF Before
          <6> QED BY <2>1, <5>2, <6>2
        <5>4. \A i \in DOMAIN sent : sent[i].line <= Len(lines)
          BY <2>1, <2>7
        <5>5. Handled(lines', <<>>, sent, Len(lines), Len(lines))
          BY <2>1, <2>7, <5>4, HandledAnew
        <5> QED BY <4>1, <4>2, <5>3, <5>5
      <4>4. CASE file # f
        <5>1. content'[file] = <<>>
          BY <2>1, <2>3, <3>2, <4>4 DEF c
        <5>2. Lo' = Len(lines') /\ Upto' = Len(lines')
          BY <4>2, <5>1 DEF Before
        <5>3. \A i \in DOMAIN sent : sent[i].line <= Len(lines')
          BY <2>1, <2>2, <2>7
        <5>4. Handled(lines', <<>>, sent, Len(lines'), Len(lines'))
          BY <2>2, <2>7, <5>3, HandledAnew
        <5> QED BY <4>1, <5>2, <5>4
      <4> QED BY <4>3, <4>4
    <3> QED BY <3>1, <3>2
  <2>10. Handled(lines, group, sent, Lo, Upto)'
    BY <1>1, <2>9
  <2> QED BY <1>1, <1>2, <1>4, <2>6, <2>8, <2>10 DEF ReadInv
<1> QED BY <1>3, <1>4

\* The tail begins at the end of the file that the path names.
LEMMA OpenKeeps ==
  ASSUME DiskInv, ReadInv, Open
  PROVE  ReadInv'
<1>1. /\ pc = "open" /\ file = NoFile /\ sent = <<>> /\ group = <<>> /\ pending = <<>>
      /\ content' = content /\ path' = path /\ writer' = writer /\ lines' = lines
      /\ handler' = handler /\ group' = group /\ sent' = sent
  BY DEF Open, ReadInv, disk
<1>2. Grouped(group)'
  BY <1>1 DEF Grouped
<1>3. CASE path = NoFile
  BY <1>1, <1>2, <1>3 DEF Open, state, ReadInv
<1>4. CASE path # NoFile
  <2> DEFINE c == content[path]
  <2>1. /\ pc' = "first" /\ file' = path /\ offset' = Len(c) /\ start' = Len(c)
        /\ pending' = <<>>
    BY <1>1, <1>4 DEF Open
  <2>2. path \in Files /\ c \in Seq(Nat \X {"head", "end"}) /\ Len(lines) \in Nat
    BY <1>4, LinesLength DEF DiskInv
  <2>3. DOMAIN c = 1 .. Len(c) /\ Len(c) \in Nat
    BY <2>2, Elements
  <2>4. Len(c) > 0 => c[Len(c)][1] \in 1 .. Len(lines)
    <3>1. \A i \in DOMAIN c : c[i][1] \in 1 .. Len(lines)
      BY <2>2, LinesLength DEF DiskInv
    <3> HIDE DEF c
    <3> QED BY <2>3, <3>1
  <2> DEFINE m == IF Len(c) = 0 THEN Before(lines, c) ELSE c[Len(c)][1]
  <2>5. Lo' = m /\ Upto' = m
    BY <1>1, <2>1 DEF Lo, Upto
  <2>6. m \in Nat /\ m <= Len(lines)
    <3>1. CASE Len(c) = 0
      <4>1. c = <<>>
        BY <2>2, <3>1
      <4> QED BY <2>2, <3>1, <4>1 DEF Before
    <3>2. CASE Len(c) # 0
      BY <2>2, <2>3, <2>4, <3>2
    <3> QED BY <3>1, <3>2
  <2> HIDE DEF m
  <2>7. Handled(lines, <<>>, <<>>, m, m)
    BY <2>6, HandledFresh
  <2>8. Handled(lines, group, sent, Lo, Upto)'
    BY <1>1, <2>5, <2>7
  <2> HIDE DEF c
  <2>9. Position' /\ SentBefore'
    BY <1>1, <2>1, <2>3 DEF Position, SentBefore, c
  <2>10. file' # NoFile /\ file' \in Files
    BY <1>4, <2>1, <2>2
  <2> QED BY <1>2, <2>1, <2>8, <2>9, <2>10 DEF ReadInv
<1> QED BY <1>3, <1>4

\* A new file is read from its first line, which is after all that was sent.
LEMMA ReopenKeeps ==
  ASSUME DiskInv, ReadInv, Reopen
  PROVE  ReadInv'
<1>1. /\ pc = "reopen" /\ file # NoFile /\ path # file
      /\ content' = content /\ path' = path /\ writer' = writer /\ lines' = lines
      /\ handler' = handler /\ sent' = sent
  BY DEF Reopen, ReadInv, disk, Position
<1>2. CASE pc' = "loop" /\ UNCHANGED <<state, group>>
  BY <1>1, <1>2, Passes DEF ReadInv, Position
<1>3. CASE /\ path # NoFile
           /\ file' = path /\ offset' = 0 /\ start' = 0 /\ pending' = <<>>
           /\ group' = <<>> /\ pc' = "read"
  <2> DEFINE c == content[path]
             m == Before(lines, c)
  <2>1. /\ path \in Files /\ path \in Nat /\ file \in Nat /\ writer \in Nat
        /\ path \in {writer, writer + 1} /\ c \in Seq(Nat \X {"head", "end"})
    <3>1. path \in Files /\ writer \in Files /\ file \in Files
      BY <1>1, <1>3, FileTypes DEF DiskInv
    <3>2. path \in {writer, writer + 1}
      BY <1>3 DEF DiskInv
    <3>3. c \in Seq(Nat \X {"head", "end"})
      BY <3>1 DEF DiskInv
    <3> QED BY <3>1, <3>2, <3>3 DEF Files
  <2>2. file < path
    BY <1>1, <2>1 DEF ReadInv, Position
  <2>3. Len(lines) \in Nat /\ Upto \in Nat /\ Upto <= Len(lines)
    BY <1>1, FileTypes
  <2>4. Handled(lines, group, sent, Lo, Upto) /\ SentBefore
    BY <1>1 DEF ReadInv
  <2>5. \A i \in DOMAIN sent : sent[i].line \in Nat /\ sent[i].line <= Upto
    <3>1. \A i \in DOMAIN sent : sent[i].line \in Numbers
      BY <2>4, HandledTypes
    <3> QED BY <2>4, <3>1 DEF Numbers, Handled
  <2>6. m \in Nat /\ m <= Len(lines) /\ \A i \in DOMAIN sent : sent[i].line <= m
    <3>1. CASE c = <<>>
      <4>1. m = Len(lines)
        BY <3>1 DEF Before
      <4> HIDE DEF m
      <4> QED BY <2>3, <2>5, <4>1
    <3>2. CASE c # <<>>
      <4>1. 1 \in DOMAIN c /\ m = c[1][1] - 1
        BY <2>1, <3>2 DEF Before
      <4>2. c[1][1] \in 1 .. Len(lines)
        BY <2>1, <4>1, LinesLength DEF DiskInv
      <4>3. \A i \in DOMAIN sent : sent[i].line < c[1][1]
        BY <2>1, <2>2, <2>4, <4>1 DEF SentBefore
      <4> HIDE DEF m, c
      <4> QED BY <2>3, <2>5, <4>1, <4>2, <4>3
    <3> QED BY <3>1, <3>2
  <2>7. Lo' = m /\ Upto' = m
    BY <1>1, <1>3 DEF Lo, Upto
  <2> HIDE DEF m
  <2>8. Handled(lines, <<>>, sent, m, m)
    BY <2>4, <2>6, HandledAnew
  <2>9. Handled(lines, group, sent, Lo, Upto)'
    BY <1>1, <1>3, <2>7, <2>8
  <2>10. Position'
    <3>1. Len(c) \in Nat
      BY <2>1
    <3> HIDE DEF c
    <3> QED BY <1>1, <1>3, <3>1 DEF Position, c
  <2>11. SentBefore'
    BY <1>1, <1>3, <2>1, <2>2, <2>4 DEF SentBefore, Files
  <2>12. Grouped(group)'
    BY <1>3 DEF Grouped
  <2>13. file' # NoFile /\ file' \in Files
    BY <1>3, <2>1
  <2> QED BY <1>3, <2>9, <2>10, <2>11, <2>12, <2>13 DEF ReadInv
<1> QED BY <1>2, <1>3 DEF Reopen

\* What was collected is sent when there is nothing to read.
LEMMA IdleKeeps ==
  ASSUME DiskInv, ReadInv, Idle
  PROVE  ReadInv'
<1>1. /\ pc = "read" /\ pc' = "loop" /\ file # NoFile
      /\ content' = content /\ path' = path /\ writer' = writer /\ lines' = lines
      /\ state' = state /\ handler' = handler
  BY DEF Idle, ReadInv, disk
<1>2. CASE pending # <<>>
  BY <1>1, <1>2, Passes DEF ReadInv, Position, Idle
<1>3. CASE pending = <<>>
  <2>1. sent' = sent \o Flush(group) /\ group' = <<>>
    BY <1>3 DEF Idle
  <2>2. Handled(lines, group, sent, Lo, Upto) /\ SentBefore /\ Position
    BY <1>1 DEF ReadInv
  <2>3. Handled(lines, group', sent', Lo, Upto)
    BY <2>1, <2>2, FlushKeeps
  <2>4. Lo' = Lo /\ Upto' = Upto
    BY <1>1 DEF Lo, Upto, Before, state
  <2>5. SentBefore'
    <3>1. CASE group = <<>>
      <4>1. sent' = sent
        <5>1. Flush(<<>>) = <<>> /\ sent \in Seq(Records)
          BY <2>2 DEF Flush, Handled
        <5> QED BY <2>1, <3>1, <5>1
      <4> QED BY <1>1, <2>2, <4>1 DEF SentBefore, state
    <3>2. CASE group # <<>>
      <4>1. offset > 0
        BY <1>1, <2>2, <3>2, FileTypes DEF Position
      <4>2. \A i \in DOMAIN sent' : sent'[i].line \in Numbers /\ sent'[i].line <= Upto
        BY <2>3, HandledTypes DEF Handled
      <4> SUFFICES ASSUME NEW i \in DOMAIN sent', NEW f \in Files, f > file,
                          NEW j \in DOMAIN content[f]
                   PROVE  sent'[i].line < content[f][j][1]
        BY <1>1 DEF SentBefore, state
      <4>3. Upto < content[f][j][1]
        BY <1>1, <4>1, LaterFiles
      <4>4. content[f][j][1] \in Nat /\ Upto \in Nat
        <5>1. content[f] \in Seq(Nat \X {"head", "end"})
          BY DEF DiskInv
        <5>2. content[f][j] \in Nat \X {"head", "end"}
          BY <5>1, Elements
        <5> QED BY <1>1, <5>2, FileTypes
      <4> QED BY <4>2, <4>3, <4>4 DEF Numbers
    <3> QED BY <3>1, <3>2
  <2>6. Position' /\ Grouped(group)'
    BY <1>1, <2>1, <2>2 DEF Position, Grouped, state
  <2>7. Handled(lines, group, sent, Lo, Upto)'
    BY <1>1, <2>3, <2>4
  <2> QED BY <1>1, <2>5, <2>6, <2>7 DEF ReadInv, state
<1> QED BY <1>2, <1>3

\* A read takes something, and no more than there is.
LEMMA ReadSize ==
  ASSUME TailAssumption, NEW left \in Nat, left > 0
  PROVE  LET n == Min({ReadMax, left}) IN n \in Nat /\ n > 0 /\ n <= left
<1> DEFINE T == {ReadMax, left}
           n == Min(T)
<1>1. T \subseteq Nat /\ T # {}
  BY DEF TailAssumption
<1>2. n \in T /\ \A x \in T : n <= x
  <2> HIDE DEF T
  <2> HIDE DEF n
  <2> QED BY <1>1, Least DEF n
<1> HIDE DEF n
<1>3. (n = ReadMax \/ n = left) /\ n <= left
  BY <1>2
<1>4. ReadMax \in Nat /\ ReadMax > 0
  BY DEF TailAssumption
<1> HIDE DEF T
<1>5. n \in Nat /\ n > 0 /\ n <= left
  BY <1>3, <1>4
<1> QED BY <1>5 DEF n, T

\* A read takes what follows in the file, from the first byte of the line that was
\* half read.
LEMMA ReadKeeps ==
  ASSUME TailAssumption, DiskInv, ReadInv, Read
  PROVE  ReadInv'
<1> DEFINE c == content[file]
           n == Min({ReadMax, Len(c) - offset})
           part == SubSeq(c, offset + 1, offset + n)
           bytes == pending \o part
           b == offset - Len(pending)
           h == [group |-> group, sent |-> sent]
           k == DrainLines(h, bytes)[Len(bytes)]
           H == Nat \X {"head", "end"}
<1>1. /\ pc = "read" /\ pc' = "loop" /\ file # NoFile /\ offset < Len(c)
      /\ offset' = offset + n /\ pending' = Partial(bytes)
      /\ group' = k.group /\ sent' = k.sent
      /\ file' = file /\ start' = start /\ handler' = handler
      /\ content' = content /\ path' = path /\ writer' = writer /\ lines' = lines
  BY DEF Read, ReadInv, disk
<1>2. /\ file \in Files /\ file \in Nat /\ c \in Seq(H)
      /\ DOMAIN c = 1 .. Len(c) /\ Len(c) \in Nat
      /\ \A i \in DOMAIN c : c[i] \in H /\ c[i][1] \in 1 .. Len(lines)
      /\ start \in Nat /\ offset \in Nat /\ start <= offset /\ offset <= Len(c)
      /\ pending \in Seq(H) /\ Len(lines) \in Nat
      /\ Lo \in Nat /\ Upto \in Nat /\ Upto <= Len(lines)
  BY <1>1, FileTypes
<1>3. /\ Handled(lines, group, sent, Lo, Upto) /\ SentBefore /\ Position /\ Grouped(group)
      /\ pending = IF offset > start /\ c[offset][2] = "head" THEN <<c[offset]>> ELSE <<>>
  BY <1>1 DEF ReadInv, Position
<1>4. Alternates(c) /\ Ordered(c)
  BY <1>2 DEF DiskInv
<1> HIDE DEF c
<1>5. n \in Nat /\ n > 0 /\ offset + n <= Len(c)
  <2>1. Len(c) - offset \in Nat /\ Len(c) - offset > 0
    <3>1. offset < Len(c)
      BY <1>1, Zenon
    <3>2. offset \in Nat /\ Len(c) \in Nat
      BY <1>2, Zenon
    <3> QED BY <3>1, <3>2
  <2>2. n \in Nat /\ n > 0 /\ n <= Len(c) - offset
    BY <2>1, TailAssumption, ReadSize
  <2> HIDE DEF n
  <2> QED BY <1>2, <2>2
<1> HIDE DEF n
<1>6. part \in Seq(H) /\ Len(part) = n /\ \A i \in 1 .. n : part[i] = c[offset + i]
  BY <1>2, <1>5
<1> HIDE DEF part
<1>7. \/ Len(pending) = 0 /\ pending = <<>> /\ b = offset
      \/ /\ Len(pending) = 1 /\ b = offset - 1 /\ offset > 0
         /\ pending[1] = c[offset] /\ c[offset][2] = "head"
  BY <1>2, <1>3
<1>8. /\ bytes \in Seq(H) /\ Len(bytes) = Len(pending) + n /\ b \in Nat
      /\ b + Len(bytes) = offset + n /\ Len(bytes) > 0
      /\ \A i \in 1 .. Len(bytes) : bytes[i] = c[b + i]
  <2>1. bytes \in Seq(H) /\ Len(bytes) = Len(pending) + n
    <3>1. pending \in Seq(H) /\ part \in Seq(H) /\ Len(part) = n
      BY <1>2, <1>6
    <3> HIDE DEF H
    <3> QED BY <3>1
  <2>2. CASE Len(pending) = 0 /\ pending = <<>> /\ b = offset
    <3>1. bytes = part
      BY <1>6, <2>2
    <3> HIDE DEF bytes, b
    <3> QED BY <1>2, <1>5, <1>6, <2>1, <2>2, <3>1
  <2>3. CASE /\ Len(pending) = 1 /\ b = offset - 1 /\ offset > 0
             /\ pending[1] = c[offset] /\ c[offset][2] = "head"
    <3>1. ASSUME NEW i \in 1 .. (n + 1) PROVE bytes[i] = c[b + i]
      <4>1. /\ pending \in Seq(H) /\ part \in Seq(H) /\ Len(part) = n /\ Len(pending) = 1
            /\ n \in Nat /\ offset \in Nat
        BY <1>2, <1>5, <1>6, <2>3
      <4>2. bytes[i] = IF i = 1 THEN pending[1] ELSE part[i - 1]
        <5>1. i \in 1 .. (Len(pending) + Len(part)) /\ (i <= Len(pending) <=> i = 1)
          BY <4>1
        <5>2. bytes[i] = IF i <= Len(pending) THEN pending[i] ELSE part[i - Len(pending)]
          <6> HIDE DEF H
          <6> QED BY <4>1, <5>1, Joined
        <5> HIDE DEF bytes
        <5> QED BY <4>1, <5>1, <5>2
      <4>3. CASE i = 1
        <5>1. b + i = offset
          BY <2>3, <4>1, <4>3
        <5>2. bytes[i] = pending[1]
          BY <4>2, <4>3
        <5> HIDE DEF b, bytes
        <5> QED BY <2>3, <5>1, <5>2
      <4>4. CASE i # 1
        <5>1. i - 1 \in 1 .. n /\ offset + (i - 1) = b + i
          BY <2>3, <4>1, <4>4
        <5> HIDE DEF b, bytes
        <5> QED BY <1>6, <4>2, <4>4, <5>1
      <4> QED BY <4>3, <4>4
    <3>2. Len(bytes) = n + 1 /\ b \in Nat /\ b + (n + 1) = offset + n /\ n + 1 > 0
      <4>1. n \in Nat /\ offset \in Nat
        BY <1>2, <1>5
      <4> HIDE DEF bytes, b
      <4> QED BY <2>1, <2>3, <4>1
    <3> HIDE DEF bytes, b, H
    <3> QED BY <2>1, <3>1, <3>2
  <2> QED BY <1>7, <2>2, <2>3
<1> HIDE DEF bytes, b
<1>9. \A i \in 1 .. Len(bytes) : b + i \in 1 .. Len(c)
  <2>1. /\ b \in Nat /\ Len(bytes) \in Nat /\ Len(c) \in Nat /\ offset \in Nat
        /\ b + Len(bytes) <= Len(c)
    BY <1>2, <1>5, <1>8
  <2> QED BY <2>1
<1>10. \A i \in 1 .. Len(bytes) : bytes[i] \in Numbers \X {"head", "end"} /\ bytes[i][1] <= Len(lines)
  <2> SUFFICES ASSUME NEW i \in 1 .. Len(bytes)
               PROVE  bytes[i] \in Numbers \X {"head", "end"} /\ bytes[i][1] <= Len(lines)
    OBVIOUS
  <2>1. bytes[i] \in H /\ bytes[i][1] \in 1 .. Len(lines)
    BY <1>2, <1>8, <1>9
  <2> QED BY <1>2, <2>1 DEF Numbers
<1>11. Follows(bytes) /\ bytes # <<>>
  <2>1. bytes \in Seq(Numbers \X {"head", "end"}) /\ bytes # <<>>
    BY <1>8, <1>10
  <2>2. ASSUME NEW i \in 2 .. Len(bytes)
        PROVE  /\ bytes[i][2] = "end" => bytes[i - 1] = <<bytes[i][1], "head">>
               /\ bytes[i][2] = "head" => bytes[i - 1] = <<bytes[i][1] - 1, "end">>
    <3>1. i \in 1 .. Len(bytes) /\ i - 1 \in 1 .. Len(bytes) /\ b + (i - 1) = (b + i) - 1 /\ b + i > 1
      BY <1>8
    <3>2. bytes[i] = c[b + i] /\ bytes[i - 1] = c[(b + i) - 1] /\ b + i \in DOMAIN c
      BY <1>2, <1>8, <1>9, <3>1
    <3> QED BY <1>4, <3>1, <3>2 DEF Alternates
  <2> QED BY <2>1, <2>2 DEF Follows
<1>12. Upto = IF bytes[1][2] = "head" THEN bytes[1][1] - 1 ELSE bytes[1][1]
  <2>1. 1 \in 1 .. Len(bytes) /\ bytes[1] = c[b + 1] /\ b + 1 \in DOMAIN c
    <3>1. 1 \in 1 .. Len(bytes)
      BY <1>8
    <3> QED BY <1>2, <1>8, <1>9, <3>1
  <2>2. /\ c[b + 1][2] \in {"head", "end"}
        /\ c[b + 1][2] = "end" => b + 1 > 1 /\ c[(b + 1) - 1] = <<c[b + 1][1], "head">>
        /\ c[b + 1][2] = "head" /\ b + 1 > 1 => c[(b + 1) - 1] = <<c[b + 1][1] - 1, "end">>
    BY <1>2, <1>4, <2>1 DEF Alternates
  <2>3. (b + 1) - 1 = b
    BY <1>8
  <2>4. CASE pending = <<>> /\ b = offset /\ offset = 0
    <3>1. c # <<>> /\ b + 1 = 1
      BY <1>2, <2>1, <2>4
    <3> QED BY <2>1, <2>2, <2>4, <3>1 DEF Upto, Before, c
  <2>5. CASE pending = <<>> /\ b = offset /\ offset # 0
    <3>1. Upto = c[offset][1] /\ b + 1 > 1
      BY <1>2, <2>5 DEF Upto, c
    <3>2. c[offset][1] \in Nat /\ c[b + 1][1] \in Nat
      BY <1>2, <2>1, <2>5
    <3> QED BY <2>1, <2>2, <2>3, <2>5, <3>1, <3>2
  <2>6. CASE /\ Len(pending) = 1 /\ b = offset - 1 /\ offset > 0
             /\ pending[1] = c[offset] /\ c[offset][2] = "head"
    <3>1. b + 1 = offset /\ pending # <<>>
      <4>1. pending # <<>>
        BY <2>6
      <4> HIDE DEF b
      <4> QED BY <1>2, <2>6, <4>1
    <3>2. Upto = c[offset][1] - 1
      BY <2>6, <3>1 DEF Upto, c
    <3>3. bytes[1] = c[offset]
      BY <2>1, <3>1
    <3> QED BY <2>6, <3>2, <3>3
  <2> QED BY <1>7, <2>4, <2>5, <2>6
<1>13. h \in Handlers /\ h.group = group /\ h.sent = sent
  BY <1>3 DEF Handled, Handlers
<1> DEFINE last == bytes[Len(bytes)]
           m == IF last[2] = "head" THEN last[1] - 1 ELSE last[1]
<1>14. k \in Handlers /\ Grouped(k.group) /\ Handled(lines, k.group, k.sent, Lo, m)
  <2> HIDE DEF h
  <2> QED BY <1>3, <1>10, <1>11, <1>12, <1>13, DrainKeeps
<1>15. /\ last = c[offset'] /\ offset' \in Nat /\ offset' > start /\ offset' <= Len(c)
       /\ offset' > 0 /\ offset' \in DOMAIN c
  BY <1>1, <1>2, <1>5, <1>8
<1>16. pending' = IF last[2] = "head" THEN <<last>> ELSE <<>>
  BY <1>1, <1>11, PartialIs
<1> HIDE DEF k, last
<1>17. Upto' = m /\ Lo' = Lo
  <2>1. Lo' = Lo
    BY <1>1 DEF Lo, Before, c
  <2>2. Upto' = IF pending' = <<>> THEN c[offset'][1] ELSE c[offset'][1] - 1
    BY <1>1, <1>15 DEF Upto, c
  <2>3. pending' = <<>> <=> last[2] # "head"
    BY <1>16
  <2> QED BY <1>15, <2>1, <2>2, <2>3
<1>18. Handled(lines, group, sent, Lo, Upto)'
  <2> HIDE DEF m
  <2> QED BY <1>1, <1>14, <1>17
<1>19. Position'
  <2>1. offset' \in start .. Len(c) /\ offset' # start
    BY <1>2, <1>15
  <2>2. pending' = IF offset' > start /\ c[offset'][2] = "head" THEN <<c[offset']>> ELSE <<>>
    BY <1>15, <1>16
  <2> QED BY <1>1, <1>2, <1>3, <2>1, <2>2 DEF Position, c
<1>20. SentBefore'
  <2> SUFFICES ASSUME NEW i \in DOMAIN sent', NEW f \in Files, f > file,
                      NEW j \in DOMAIN content[f]
               PROVE  sent'[i].line < content[f][j][1]
    BY <1>1 DEF SentBefore
  <2>1. sent'[i].line \in Numbers /\ sent'[i].line <= m
    <3> HIDE DEF m
    <3> QED BY <1>1, <1>14, HandledTypes DEF Handled
  <2>2. c[offset'][1] < content[f][j][1]
    BY <1>2, <1>15 DEF DiskInv, c
  <2>3. m <= c[offset'][1] /\ m \in Nat /\ c[offset'][1] \in Nat
    <3>1. c[offset'][1] \in 1 .. Len(lines)
      BY <1>2, <1>15
    <3>2. m = c[offset'][1] \/ m = c[offset'][1] - 1
      BY <1>15
    <3> HIDE DEF m
    <3> QED BY <1>2, <3>1, <3>2
  <2>4. content[f][j][1] \in Nat
    <3>1. content[f] \in Seq(H)
      BY DEF DiskInv
    <3>2. content[f][j] \in H
      BY <3>1, Elements
    <3> QED BY <3>2
  <2> HIDE DEF m
  <2> QED BY <2>1, <2>2, <2>3, <2>4 DEF Numbers
<1>21. Grouped(group)'
  BY <1>1, <1>14 DEF Grouped
<1> QED BY <1>1, <1>2, <1>18, <1>19, <1>20, <1>21 DEF ReadInv

\* What the handler knows stays true in every step.
LEMMA ReadStep ==
  ASSUME TailAssumption, DiskInv, DiskInv', ReadInv, [Next]_vars
  PROVE  ReadInv'
<1>1. CASE Open
  BY <1>1, OpenKeeps
<1>2. CASE BeginPoll
  BY <1>2, Passes DEF BeginPoll, CheckRotation, ReadInv, Position, disk
<1>3. CASE Reopen
  BY <1>3, ReopenKeeps
<1>4. CASE Idle
  BY <1>4, IdleKeeps
<1>5. CASE Read
  BY <1>5, ReadKeeps
<1>6. CASE ReadFails
  BY <1>6, Passes DEF ReadFails, ReadInv, Position, disk
<1>7. CASE End
  BY <1>7, Passes DEF End, ReadInv, Position, disk
<1>8. CASE WriteHead
  <2>1. PICK type \in Types, more \in {0, 1} :
          lines' = Append(lines, [event |-> IF lines = <<>> THEN 1 ELSE Last(lines).event + more,
                                  type  |-> type])
    BY <1>8 DEF WriteHead
  <2>2. /\ lines \in Seq([event : Nat, type : Types]) /\ writer \in Files
        /\ Len(lines') = Len(lines) + 1
        /\ Len(lines) <= Len(lines') /\ \A l \in 1 .. Len(lines) : lines'[l] = lines[l]
    BY <2>1 DEF DiskInv
  <2> DEFINE h == <<Len(lines'), "head">>
  <2>3. /\ content' = [content EXCEPT ![writer] = Append(@, h)]
        /\ UNCHANGED <<path, writer, state, handler, group, pc, sent>>
    BY <1>8 DEF WriteHead
  <2>4. h[1] = Len(lines') /\ h[1] = Len(lines) + 1
    BY <2>2
  <2> HIDE DEF h
  <2> QED BY <2>2, <2>3, <2>4, Written
<1>9. CASE WriteEnd
  <2> DEFINE h == <<Len(lines), "end">>
  <2>1. /\ content' = [content EXCEPT ![writer] = Append(@, h)]
        /\ UNCHANGED <<path, writer, lines, state, handler, group, pc, sent>>
    BY <1>9 DEF WriteEnd
  <2>2. /\ writer \in Files /\ content[writer] # <<>> /\ Last(content[writer])[1] = Len(lines)
        /\ Len(lines) \in Nat
    BY <1>9, LinesLength DEF WriteEnd, HalfWritten, DiskInv
  <2>3. h[1] = Len(lines)
    OBVIOUS
  <2>4. /\ Len(lines) <= Len(lines') /\ \A l \in 1 .. Len(lines) : lines'[l] = lines[l]
        /\ h[1] = Len(lines')
    BY <2>1, <2>2
  <2> HIDE DEF h
  <2> QED BY <2>1, <2>2, <2>3, <2>4, Written
<1>10. ASSUME Rename \/ Create \/ WriterReopens PROVE ReadInv'
  <2>1. /\ UNCHANGED <<content, lines, state, handler, group, sent>> /\ pc' = pc
        /\ pc' \in {"open", "first", "reopen", "read", "loop", "ended"}
    BY <1>10 DEF Rename, Create, WriterReopens, ReadInv
  <2>2. ASSUME file # NoFile
        PROVE  (file <= writer' \/ file = path') /\ (pc' = "reopen" => path' # file)
    <3>1. file \in Nat /\ writer \in Nat /\ file \in Files /\ writer \in Files
      BY <2>2, FileTypes DEF DiskInv, Files
    <3>2. (file <= writer \/ file = path) /\ (pc = "reopen" => path # file)
      BY <2>2 DEF ReadInv, Position
    <3>3. path \in {NoFile, writer, writer + 1}
      BY DEF DiskInv
    <3>4. CASE Rename
      BY <2>1, <2>2, <3>1, <3>2, <3>4 DEF Rename
    <3>5. CASE Create
      BY <2>1, <2>2, <3>1, <3>2, <3>5 DEF Create
    <3>6. CASE WriterReopens
      <4>1. writer' = path /\ path' = path /\ writer' = writer + 1
        BY <3>3, <3>6 DEF WriterReopens
      <4> QED BY <2>1, <3>1, <3>2, <4>1
    <3> QED BY <1>10, <3>4, <3>5, <3>6
  <2> QED BY <2>1, <2>2, Passes DEF ReadInv
<1>11. CASE UNCHANGED vars
  BY <1>11, Passes DEF vars, disk, ReadInv, Position
<1> QED BY <1>1, <1>2, <1>3, <1>4, <1>5, <1>6, <1>7, <1>8, <1>9, <1>10, <1>11
        DEF Next, Poll, Environment

\* What is read of a file and what was handled, together.
LEMMA TailInv == Spec => [](DiskInv /\ ReadInv)
<1>1. Init => DiskInv /\ ReadInv
  BY TailAssumption, DiskInit, ReadInit
<1>2. DiskInv /\ ReadInv /\ [Next]_vars => (DiskInv /\ ReadInv)'
  <2> SUFFICES ASSUME DiskInv, ReadInv, [Next]_vars PROVE DiskInv' /\ ReadInv'
    OBVIOUS
  <2>1. DiskInv'
    BY TailAssumption, DiskStep
  <2>2. ReadInv'
    BY <2>1, TailAssumption, ReadStep
  <2> QED BY <2>1, <2>2
<1> QED BY <1>1, <1>2, PTL DEF Spec

\* Whatever the sizes of the reads, and however often the file is rotated: a
\* record is sent once, in the order of the log, and a group has the records of
\* one audit event, with nothing between them but lines that do not parse
\* (inputs/tail.rs, drain_lines, check_rotation; inputs/auditd.rs, on_line,
\* on_idle, on_rotate).
THEOREM LeavesAsWritten == Spec => []SentAsWritten
<1>1. DiskInv /\ ReadInv => SentAsWritten
  <2> SUFFICES ASSUME DiskInv, ReadInv PROVE SentAsWritten
    OBVIOUS
  <2>1. CASE file = NoFile
    <3>1. DOMAIN sent = {}
      BY <2>1 DEF ReadInv
    <3> QED BY <3>1 DEF SentAsWritten, SentInOrder, GroupsAreOneEvent
  <2>2. CASE file # NoFile
    <3>1. Handled(lines, group, sent, Lo, Upto)
      BY <2>2 DEF ReadInv
    <3>2. SentInOrder
      BY <3>1 DEF Handled, SentInOrder
    <3>3. \A i \in DOMAIN sent : OneEvent(lines, sent[i].group)
      BY <3>1 DEF Handled
    <3>4. GroupsAreOneEvent
      BY <3>3 DEF GroupsAreOneEvent, OneEvent, Junk
    <3> QED BY <3>2, <3>4 DEF SentAsWritten
  <2> QED BY <2>1, <2>2
<1> QED BY <1>1, TailInv, PTL

\* A record that a read has taken to its newline is sent or waits in the group, in
\* every state: none is lost between two reads, in an idle poll, or because its
\* head and its end came in different reads (inputs/tail.rs, poll_once, drain_lines).
THEOREM NoRecordIsDropped == Spec => []ReadIsSent
<1>1. DiskInv /\ ReadInv => ReadIsSent
  <2> DEFINE c == content[file]
  <2> SUFFICES ASSUME DiskInv, ReadInv, file # NoFile, NEW i \in (start + 1) .. (offset - 1),
                      Record(c[i][1], i)
               PROVE  c[i][1] \in Sent \cup Range(group)
    BY DEF ReadIsSent
  <2> DEFINE l == c[i][1]
  <2>1. /\ file \in Files /\ DOMAIN c = 1 .. Len(c) /\ Len(c) \in Nat
        /\ \A j \in DOMAIN c : c[j] \in Nat \X {"head", "end"} /\ c[j][1] \in 1 .. Len(lines)
        /\ start \in Nat /\ offset \in Nat /\ offset <= Len(c) /\ Len(lines) \in Nat
    BY FileTypes
  <2>2. Alternates(c) /\ Ordered(c)
    BY <2>1 DEF DiskInv
  <2>3. /\ i + 1 <= Len(c) /\ c[i] = <<l, "head">> /\ c[i + 1] = <<l, "end">>
        /\ lines[l].type # "junk"
    BY DEF Record
  <2>4. Position /\ Handled(lines, group, sent, Lo, Upto)
    BY DEF ReadInv
  <2> HIDE DEF c
  <2>5. /\ i \in Nat /\ i \in DOMAIN c /\ i + 1 \in DOMAIN c /\ offset \in DOMAIN c
        /\ i > start /\ offset > start /\ offset >= i + 1
    BY <2>1, <2>3
  <2> DEFINE e == c[offset]
  <2>6. /\ l \in 1 .. Len(lines) /\ e[1] \in 1 .. Len(lines) /\ e[2] \in {"head", "end"}
    BY <2>1, <2>5
  <2>7. l <= Upto
    <3>1. CASE offset = i + 1
      <4>1. e = <<l, "end">>
        BY <2>3, <3>1
      <4>2. pending = <<>>
        BY <2>4, <4>1 DEF Position, c
      <4>3. Upto = l
        BY <2>1, <2>5, <4>1, <4>2 DEF Upto, c
      <4> QED BY <2>6, <4>3
    <3>2. CASE offset # i + 1
      <4>1. /\ c[i + 1][1] <= c[offset][1]
            /\ c[offset][2] = "head" => c[i + 1][1] < c[offset][1]
        BY <2>1, <2>2, <2>5, <3>2 DEF Ordered
      <4>2. l <= e[1] /\ (e[2] = "head" => l < e[1])
        BY <2>3, <4>1
      <4>3. pending = <<>> <=> e[2] # "head"
        BY <2>4, <2>5 DEF Position, c
      <4>4. Upto = IF e[2] # "head" THEN e[1] ELSE e[1] - 1
        BY <2>1, <2>5, <4>3 DEF Upto, c
      <4> HIDE DEF e, l
      <4> QED BY <2>1, <2>6, <4>2, <4>4
    <3> QED BY <3>1, <3>2
  <2>8. Lo < l
    <3>1. CASE start = 0
      <4>1. c # <<>> /\ 1 \in DOMAIN c
        BY <2>1, <2>5
      <4>2. Lo = c[1][1] - 1
        BY <3>1, <4>1 DEF Lo, Before, c
      <4>3. c[1][1] <= l
        <5>1. CASE i = 1
          BY <2>6, <5>1
        <5>2. CASE i # 1
          <6>1. 1 < i
            BY <2>1, <2>5, <5>2
          <6> QED BY <2>2, <2>5, <4>1, <6>1 DEF Ordered
        <5> QED BY <5>1, <5>2
      <4>4. c[1][1] \in 1 .. Len(lines)
        BY <2>1, <4>1
      <4> HIDE DEF l
      <4> QED BY <2>1, <2>6, <4>2, <4>3, <4>4
    <3>2. CASE start # 0
      <4>1. start \in DOMAIN c /\ start < i
        BY <2>1, <2>5, <3>2
      <4>2. c[start][1] < c[i][1]
        BY <2>2, <2>3, <2>5, <4>1 DEF Ordered
      <4> QED BY <3>2, <4>2 DEF Lo, c
    <3> QED BY <3>1, <3>2
  <2>9. l \in (Lo + 1) .. Upto
    <3>1. Lo \in Nat /\ Upto \in Nat
      BY <2>4 DEF Handled
    <3> HIDE DEF l
    <3> QED BY <2>1, <2>6, <2>7, <2>8, <3>1
  <2>10. Junk(lines, l) \/ l \in Range(group) \/ \E j \in DOMAIN sent : sent[j].line = l
    <3> HIDE DEF l
    <3> QED BY <2>4, <2>9 DEF Handled
  <2>11. ~Junk(lines, l)
    BY <2>3 DEF Junk
  <2> QED BY <2>10, <2>11 DEF Sent
<1> QED BY <1>1, TailInv, PTL

\* Lines add to an open group or begin the next one, and never leave none.
LEMMA DrainNeverEmpties ==
  ASSUME NEW h \in Handlers, NEW bytes \in Seq(Numbers \X {"head", "end"}), h.group # <<>>
  PROVE  DrainLines(h, bytes)[Len(bytes)].group # <<>>
<1> DEFINE n == Len(bytes)
           D == DrainLines(h, bytes)
           T == {k \in Nat : k <= n => D[k].group # <<>>}
<1>1. /\ D \in [0 .. n -> Handlers] /\ D[0] = h /\ n \in Nat
      /\ \A k \in 1 .. n : D[k] = IF EndsLine(bytes, k) THEN OnLine(D[k - 1], bytes[k][1])
                                  ELSE D[k - 1]
  BY HalfByHalf
<1>2. ASSUME NEW d \in Handlers, NEW l, d.group # <<>> PROVE OnLine(d, l).group # <<>>
  <2>1. d = [group |-> d.group, sent |-> d.sent] /\ d.group \in Seq(Numbers)
    BY DEF Handlers
  <2>2. Append(d.group, l) # <<>> /\ <<l>> # <<>>
    <3>1. Len(Append(d.group, l)) = Len(d.group) + 1 /\ Len(d.group) \in Nat
      BY <2>1
    <3> QED BY <3>1
  <2> QED BY <1>2, <2>1, <2>2 DEF OnLine
<1> HIDE DEF D, n
<1>3. 0 \in T
  BY <1>1
<1>4. ASSUME NEW k \in Nat, k \in T PROVE k + 1 \in T
  <2> SUFFICES ASSUME k + 1 <= n PROVE D[k + 1].group # <<>>
    OBVIOUS
  <2>1. k \in 0 .. n /\ k + 1 \in 1 .. n /\ (k + 1) - 1 = k /\ D[k].group # <<>>
    BY <1>1, <1>4
  <2>2. D[k] \in Handlers
    BY <1>1, <2>1
  <2>3. D[k + 1] = D[k] \/ \E l : D[k + 1] = OnLine(D[k], l)
    BY <1>1, <2>1
  <2> QED BY <1>2, <2>1, <2>2, <2>3
<1>5. T = Nat
  <2> HIDE DEF T
  <2>1. T \subseteq Nat
    BY DEF T
  <2> QED BY <1>3, <1>4, <2>1, Induct
<1> QED BY <1>1, <1>5 DEF D, n

\* An open group is closed by an idle poll only, and that one found nothing half written:
\* what it closes is complete (inputs/tail.rs, poll_once; inputs/auditd.rs, on_idle).
THEOREM IdleClosesWholeEvents == Spec => IdleClosesNoHalfWritten
<1>1. TailAssumption /\ DiskInv /\ ReadInv /\ Next
        => (pc = "read" /\ group # <<>> /\ group' = <<>> => ~HalfWritten(file))
  <2> SUFFICES ASSUME DiskInv, ReadInv, Next, pc = "read", group # <<>>, group' = <<>>
               PROVE  ~HalfWritten(file)
    OBVIOUS
  <2> DEFINE c == content[file]
             H == Nat \X {"head", "end"}
  <2>1. file # NoFile /\ Position
    BY DEF ReadInv
  <2>2. /\ c \in Seq(H) /\ DOMAIN c = 1 .. Len(c) /\ Len(c) \in Nat
        /\ \A i \in DOMAIN c : c[i] \in H /\ c[i][1] \in 1 .. Len(lines)
        /\ start \in Nat /\ offset \in Nat /\ start <= offset /\ offset <= Len(c)
    BY <2>1, FileTypes
  <2>3. offset > start
    BY <2>1, <2>2 DEF Position
  <2>4. CASE Idle
    <3>1. pending = <<>> /\ offset = Len(c)
      BY <2>4 DEF Idle
    <3>2. c[offset][2] # "head"
      BY <2>1, <2>3, <3>1 DEF Position
    <3>3. Last(c) = c[offset]
      BY <3>1 DEF Last
    <3> QED BY <3>2, <3>3 DEF HalfWritten
  <2>5. CASE Read
    <3> DEFINE n == Min({ReadMax, Len(c) - offset})
               part == SubSeq(c, offset + 1, offset + n)
               bytes == pending \o part
               h == [group |-> group, sent |-> sent]
               N == Numbers \X {"head", "end"}
    <3>1. group' = DrainLines(h, bytes)[Len(bytes)].group /\ offset < Len(c)
      BY <2>5 DEF Read
    <3>2. n \in Nat /\ n > 0 /\ offset + n <= Len(c)
      <4>1. Len(c) - offset \in Nat /\ Len(c) - offset > 0
        BY <2>2, <3>1
      <4>2. n \in Nat /\ n > 0 /\ n <= Len(c) - offset
        BY <4>1, TailAssumption, ReadSize
      <4> HIDE DEF n
      <4> QED BY <2>2, <4>2
    <3>3. \A i \in DOMAIN c : c[i] \in N
      BY <2>2 DEF Numbers
    <3>4. c \in Seq(N)
      <4> HIDE DEF c, N, H
      <4> QED BY <2>2, <3>3, Retyped
    <3> HIDE DEF n
    <3>5. part \in Seq(N)
      <4> HIDE DEF c, N
      <4> QED BY <2>2, <3>2, <3>4
    <3>6. pending \in Seq(N)
      <4>1. offset \in DOMAIN c
        BY <2>2, <2>3
      <4>2. pending = <<>> \/ pending = <<c[offset]>>
        BY <2>1 DEF Position
      <4>3. c[offset] \in N
        BY <3>3, <4>1
      <4>4. <<>> \in Seq(N) /\ \A x \in N : <<x>> \in Seq(N)
        <5> HIDE DEF N
        <5> QED OBVIOUS
      <4> HIDE DEF c, N
      <4> QED BY <4>2, <4>3, <4>4
    <3>7. bytes \in Seq(N)
      <4> HIDE DEF part, N
      <4> QED BY <3>5, <3>6
    <3>8. h \in Handlers /\ h.group # <<>>
      BY <2>1 DEF ReadInv, Handled, Handlers
    <3> HIDE DEF bytes, h
    <3> QED BY <3>1, <3>7, <3>8, DrainNeverEmpties
  <2>6. CASE Open \/ BeginPoll \/ Reopen \/ ReadFails \/ End
    BY <2>6 DEF Open, BeginPoll, Reopen, ReadFails, End
  <2>7. CASE Environment
    BY <2>7 DEF Environment, WriteHead, WriteEnd, Rename, Create, WriterReopens
  <2> QED BY <2>4, <2>5, <2>6, <2>7 DEF Next, Poll
<1> QED BY <1>1, TailAssumption, TailInv, PTL DEF Spec, IdleClosesNoHalfWritten
=============================================================================
