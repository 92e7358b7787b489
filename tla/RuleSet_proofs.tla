--------------------------- MODULE RuleSet_proofs ---------------------------
(***************************************************************************)
(* Theorems about the rule set and the engine, for every tree of rule      *)
(* files, every set of documents and any number of processes: the engine   *)
(* runs just the rules of the set, a whole cache holds what its key names, *)
(* a rule that has left is not detected, alerts point at their file, and   *)
(* every id that was loaded is accounted for.                              *)
(*                                                                         *)
(* IndInv is the inductive invariant they all follow from.  What the       *)
(* checked invariants lack is where the rules come from, that the rules of *)
(* an engine compile, and that a cache only ever holds such rules.         *)
(***************************************************************************)
EXTENDS RuleSet, FiniteSetTheorems, TLAPS

Built == {"saving", "writing", "running", "generating"}
Settled == Built \cup {"filtered"}

\* The variables that the proofs need the type of.
Types ==
  /\ disk \in [Files -> Docs]
  /\ rules \subseteq Rule /\ IsFiniteSet(rules)
  /\ rulePaths \in [Uuids -> Files \cup {None}]

\* Nothing in memory survives the process.
FreshWhenDown == pc = "down" => rules = {} /\ alerts = {}

\* A rule is what its file says, and the path of its id is that file or is gone.
RulesAreOfTheirFiles ==
  \A r \in rules :
    /\ r.doc = disk[r.file]
    /\ LET u == Meta[r.doc].uuid
       IN Meta[r.doc].form = "canonical" /\ SpelledOnce(u) => rulePaths[u] \in {None, r.file}

\* No rule with a retired id is left once the skip set was applied.
RetiredHaveLeft == pc \in Settled => RemoveIds(rules, retired) = rules

\* Once the engine is built, it is built from the rules of the set, which compile.
EngineIsBuilt ==
  pc \in Built => /\ engine = Fingerprint(rules)
                  /\ enginePaths = rulePaths
                  /\ \A r \in rules : Compiles(r)

\* A whole cache holds just what its key names, and rules that compile.
CacheIsSound ==
  cache.state = "whole" =>
    /\ cache.blob = cache.key
    /\ \A d \in Docs : cache.key[d] # 0 => Meta[d].compiles

IndInv == /\ Types /\ FreshWhenDown /\ RulesAreOfTheirFiles /\ RetiredHaveLeft
          /\ EngineIsBuilt /\ CacheIsSound /\ AlertsPointAtTheirFile

-----------------------------------------------------------------------------
(* Facts about the operators. *)

\* Any selection of finitely many rules is finite.
LEMMA FiniteSelection ==
  ASSUME NEW S, IsFiniteSet(S), NEW T, T \subseteq S
  PROVE  IsFiniteSet(T) /\ Cardinality(T) \in Nat
BY FS_Subset, FS_CardinalityType

\* A document counts in the fingerprint exactly when some rule has it.
LEMMA FingerprintCounts ==
  ASSUME NEW S, IsFiniteSet(S), NEW d \in Docs
  PROVE  Fingerprint(S)[d] # 0 <=> \E r \in S : r.doc = d
<1> DEFINE T == {r \in S : r.doc = d}
<1>1. Fingerprint(S)[d] = Cardinality(T)
  BY DEF Fingerprint
<1>2. IsFiniteSet(T)
  BY FiniteSelection
<1>3. Cardinality(T) = 0 <=> T = {}
  BY <1>2, FS_EmptySet
<1> QED
  BY <1>1, <1>3

\* Compiling rules that all compile into an empty engine gives their fingerprint.
LEMMA CompiledAll ==
  ASSUME NEW S, IsFiniteSet(S), \A r \in S : Compiles(r)
  PROVE  Compile(NoRules, S) = Fingerprint(S)
<1>1. ASSUME NEW d \in Docs
      PROVE  NoRules[d] + Cardinality({r \in S : Compiles(r) /\ r.doc = d})
               = Cardinality({r \in S : r.doc = d})
  <2> DEFINE n == Cardinality({r \in S : r.doc = d})
  <2>1. {r \in S : Compiles(r) /\ r.doc = d} = {r \in S : r.doc = d}
    OBVIOUS
  <2>2. n \in Nat
    BY FiniteSelection
  <2>3. NoRules[d] = 0
    BY DEF NoRules
  <2> HIDE DEF n
  <2>4. NoRules[d] + n = n
    BY <2>2, <2>3
  <2> QED
    BY <2>1, <2>4 DEF n
<1> QED
  BY <1>1 DEF Compile, Fingerprint

\* Removing ids twice is removing them once, and removes what either removes.
LEMMA RemovedTwice ==
  ASSUME NEW S, NEW ids, NEW more
  PROVE  /\ RemoveIds(S, ids) \subseteq S
         /\ RemoveIds(S, more) = S =>
              RemoveIds(RemoveIds(S, ids), more \cup ids) = RemoveIds(S, ids)
BY DEF RemoveIds

-----------------------------------------------------------------------------
\* What a process starts from.
LEMMA Initially == Init => IndInv
<1> SUFFICES ASSUME Init PROVE IndInv
  OBVIOUS
<1>1. Types
  BY DocsAssumption, FS_EmptySet DEF Init, Types, NoPaths
<1>2. FreshWhenDown /\ RulesAreOfTheirFiles /\ AlertsPointAtTheirFile
  BY DEF Init, FreshWhenDown, RulesAreOfTheirFiles, AlertsPointAtTheirFile
<1>3. RetiredHaveLeft /\ EngineIsBuilt /\ CacheIsSound
  BY DEF Init, RetiredHaveLeft, EngineIsBuilt, CacheIsSound, Settled, Built
<1> QED
  BY <1>1, <1>2, <1>3 DEF IndInv

-----------------------------------------------------------------------------
(* What the steps preserve, one conjunct after the other. *)

\* The steps that leave files and rules alone.
Still ==
  \/ \E m \in {"run", "all", "dry"}, flt \in Filters, c \in BOOLEAN : Start(m, flt, c)
  \/ WarmStart \/ ColdStart \/ AddRulesFails
  \/ BeginSave \/ EndSave \/ SaveFails
  \/ \E matched \in SUBSET {d \in Docs : engine[d] > 0} : ProcessEvents(matched)

\* What loads and removes no rule.
LEMMA StillKeeps == Still => UNCHANGED <<disk, set>>
BY DEF Still, Start, WarmStart, ColdStart, AddRulesFails, BeginSave, EndSave, SaveFails,
       ProcessEvents, set, disks

\* Every step is one of these.
LEMMA StepsAre ==
  ASSUME [Next]_vars
  PROVE  \/ Still \/ FilterRules \/ Stop \/ UNCHANGED vars
         \/ \E f \in Files : LoadFile(f) \/ \E d \in Docs : Update(f, d)
         \/ \E captured, blocked \in SUBSET ({a.rule_id : a \in alerts} \ {None}) :
              Retire(captured, blocked)
BY DEF Next, Still

\* What FilterRules and Retire make of the rules and their paths.
LEMMA FilterLeaves ==
  ASSUME FilterRules
  PROVE  /\ rules' \subseteq RemoveIds(rules, retired)
         /\ \A u \in Uuids : rulePaths'[u] \in {None, rulePaths[u]}
         /\ rulePaths' = [u \in Uuids |-> rulePaths'[u]]
         /\ UNCHANGED <<disk, retired>>
BY DEF FilterRules, Kept, RemovePaths, disks

\* What retirement leaves of rules and paths.
LEMMA RetireLeaves ==
  ASSUME NEW captured, NEW blocked, Retire(captured, blocked), Types
  PROVE  /\ rules' = rules \/ rules' = RemoveIds(rules, captured \cup blocked)
         /\ rules' \subseteq rules
         /\ \A u \in Uuids : rulePaths'[u] \in {None, rulePaths[u]}
         /\ rulePaths' = [u \in Uuids |-> rulePaths'[u]]
         /\ disk' = disk
BY DEF Retire, RemovePaths, RemoveIds, set, Types

\* The types, and that the rules are finitely many.
LEMMA TypesStep == IndInv /\ [Next]_vars => Types'
<1> SUFFICES ASSUME IndInv, [Next]_vars PROVE Types'
  OBVIOUS
<1> USE DEF IndInv, Types
<1>1. CASE Still
  BY <1>1, StillKeeps DEF set
<1>2. CASE FilterRules
  <2>1. rules' \subseteq rules
    BY <1>2, FilterLeaves, RemovedTwice
  <2>2. IsFiniteSet(rules')
    BY <2>1, FS_Subset
  <2>3. rulePaths' \in [Uuids -> Files \cup {None}]
    BY <1>2, FilterLeaves
  <2> QED
    BY <1>2, <2>1, <2>2, <2>3, FilterLeaves
<1>3. CASE Stop
  BY <1>3, FS_EmptySet DEF Stop, NoMemory, NoPaths, disks
<1>4. CASE UNCHANGED vars
  BY <1>4 DEF vars, disks, set
<1>5. ASSUME NEW f \in Files, LoadFile(f)
      PROVE  Types'
  <2>1. disk[f] \in Docs /\ disk' = disk
    BY <1>5 DEF LoadFile, disks
  <2>2. \/ rules' = rules
        \/ rules' = rules \cup {[file |-> f, doc |-> disk[f]]}
    BY <1>5 DEF LoadFile
  <2>3. rules' \subseteq Rule
    BY <2>1, <2>2 DEF Rule
  <2>4. IsFiniteSet(rules')
    <3>1. \A r : IsFiniteSet(rules \cup {r})
      BY FS_AddElement
    <3> QED
      BY <2>2, <3>1
  <2>5. rulePaths' \in [Uuids -> Files \cup {None}]
    BY <1>5 DEF LoadFile
  <2> QED
    BY <2>1, <2>3, <2>4, <2>5
<1>6. ASSUME NEW f \in Files, NEW d \in Docs, Update(f, d)
      PROVE  Types'
  BY <1>6 DEF Update, set
<1>7. ASSUME NEW captured, NEW blocked, Retire(captured, blocked)
      PROVE  Types'
  <2>1. IsFiniteSet(rules')
    BY <1>7, RetireLeaves, FS_Subset
  <2>2. rulePaths' \in [Uuids -> Files \cup {None}]
    BY <1>7, RetireLeaves
  <2> QED
    BY <1>7, <2>1, <2>2, RetireLeaves
<1> QED
  BY <1>1, <1>2, <1>3, <1>4, <1>5, <1>6, <1>7, StepsAre

\* Every step but Stop and Update ends with the process up.
LEMMA FreshStep == IndInv /\ [Next]_vars => FreshWhenDown'
<1> SUFFICES ASSUME IndInv, [Next]_vars PROVE FreshWhenDown'
  OBVIOUS
<1> USE DEF IndInv, FreshWhenDown
<1>1. CASE Still
  BY <1>1 DEF Still, Start, WarmStart, ColdStart, AddRulesFails, BeginSave, EndSave, SaveFails,
              ProcessEvents, AfterBuild
<1>2. CASE FilterRules \/ Stop
  BY <1>2 DEF FilterRules, Stop, NoMemory
<1>3. CASE UNCHANGED vars
  BY <1>3 DEF vars, set
<1>4. ASSUME NEW f \in Files, LoadFile(f) \/ \E d \in Docs : Update(f, d)
      PROVE  FreshWhenDown'
  BY <1>4 DEF LoadFile, Update, set
<1>5. ASSUME NEW captured, NEW blocked, Retire(captured, blocked)
      PROVE  FreshWhenDown'
  BY <1>5 DEF Retire
<1> QED
  BY <1>1, <1>2, <1>3, <1>4, <1>5, StepsAre

\* Files change only while no rules are loaded, and a second rule of one id is dropped.
LEMMA RulesStep == IndInv /\ [Next]_vars => RulesAreOfTheirFiles'
<1> SUFFICES ASSUME IndInv, [Next]_vars PROVE RulesAreOfTheirFiles'
  OBVIOUS
<1> USE DEF IndInv, RulesAreOfTheirFiles, SpelledOnce
<1>uuids. \A r \in rules : Meta[r.doc].form = "canonical" => Meta[r.doc].uuid \in Uuids
  BY MetaAssumption DEF Types, Rule
<1>1. CASE Still \/ UNCHANGED vars
  <2>1. UNCHANGED <<disk, rules, rulePaths>>
    BY <1>1, StillKeeps DEF set, vars, disks
  <2> QED
    BY <2>1
<1>2. CASE FilterRules
  <2>1. rules' \subseteq rules
    BY <1>2, FilterLeaves, RemovedTwice
  <2> QED
    BY <1>2, <1>uuids, <2>1, FilterLeaves
<1>3. CASE Stop
  BY <1>3 DEF Stop, NoMemory
<1>4. ASSUME NEW f \in Files, LoadFile(f)
      PROVE  RulesAreOfTheirFiles'
  <2> DEFINE d == disk[f]
  <2>1. d \in Docs /\ disk' = disk
    BY <1>4 DEF LoadFile, disks, Types
  <2>2. CASE rules' = rules /\ rulePaths' = rulePaths
    BY <2>1, <2>2
  <2>3. CASE /\ rules' = rules \cup {[file |-> f, doc |-> d]}
             /\ ~\E r \in rules : IdKey(r.file, r.doc) = IdKey(f, d)
             /\ rulePaths' = IF HasUuid(d) THEN [rulePaths EXCEPT ![Meta[d].uuid] = f]
                             ELSE rulePaths
    <3> SUFFICES ASSUME NEW r \in rules', Meta[r.doc].form = "canonical",
                        SpelledOnce(Meta[r.doc].uuid)
                 PROVE  rulePaths'[Meta[r.doc].uuid] \in {None, r.file}
      BY <2>1, <2>3
    <3>1. CASE r = [file |-> f, doc |-> d]
      BY <2>1, <2>3, <3>1, MetaAssumption DEF HasUuid, Types
    <3>2. CASE r \in rules /\ HasUuid(d) /\ Meta[d].uuid = Meta[r.doc].uuid
      \* The new rule would have to be a duplicate.
      <4>1. Meta[d].form = "canonical"
        BY <3>2
      <4>2. IdKey(r.file, r.doc) = IdKey(f, d)
        BY <3>2, <4>1 DEF IdKey
      <4> QED
        BY <2>3, <3>2, <4>2
    <3>3. CASE r \in rules /\ ~(HasUuid(d) /\ Meta[d].uuid = Meta[r.doc].uuid)
      BY <2>3, <3>3, <1>uuids DEF Types
    <3> QED
      BY <2>3, <3>1, <3>2, <3>3
  <2> QED
    BY <1>4, <2>2, <2>3 DEF LoadFile
<1>5. ASSUME NEW f \in Files, NEW d \in Docs, Update(f, d)
      PROVE  RulesAreOfTheirFiles'
  BY <1>5 DEF Update, FreshWhenDown, set
<1>6. ASSUME NEW captured, NEW blocked, Retire(captured, blocked)
      PROVE  RulesAreOfTheirFiles'
  BY <1>6, <1>uuids, RetireLeaves
<1> QED
  BY <1>1, <1>2, <1>3, <1>4, <1>5, <1>6, StepsAre

\* The skip set is applied before a rule is compiled, and retiring applies it again.
LEMMA RetiredStep == IndInv /\ [Next]_vars => RetiredHaveLeft'
<1> SUFFICES ASSUME IndInv, [Next]_vars PROVE RetiredHaveLeft'
  OBVIOUS
<1> USE DEF IndInv, RetiredHaveLeft, Settled, Built
<1>1. CASE Still
  <2>1. rules' = rules
    BY <1>1, StillKeeps DEF set
  <2>2. pc' \in Settled => pc \in Settled /\ retired' = retired
    BY <1>1 DEF Still, Start, WarmStart, ColdStart, AddRulesFails, BeginSave, EndSave, SaveFails,
                ProcessEvents, AfterBuild
  <2> QED
    BY <2>1, <2>2
<1>2. CASE FilterRules
  BY <1>2, FilterLeaves DEF RemoveIds
<1>3. CASE Stop
  BY <1>3 DEF Stop
<1>4. CASE UNCHANGED vars
  BY <1>4 DEF vars, set
<1>5. ASSUME NEW f \in Files, LoadFile(f) \/ \E d \in Docs : Update(f, d)
      PROVE  RetiredHaveLeft'
  BY <1>5 DEF LoadFile, Update
<1>6. ASSUME NEW captured, NEW blocked, Retire(captured, blocked)
      PROVE  RetiredHaveLeft'
  <2> DEFINE ids == captured \cup blocked
  <2>1. RemoveIds(rules, retired) = rules
    BY <1>6 DEF Retire
  <2>2. CASE ids = {}
    BY <1>6, <2>1, <2>2 DEF Retire, set
  <2>3. CASE ids # {}
    <3>1. rules' = RemoveIds(rules, ids) /\ retired' = retired \cup ids
      BY <1>6, <2>3 DEF Retire
    <3> QED
      BY <2>1, <3>1, RemovedTwice
  <2> QED
    BY <2>2, <2>3
<1> QED
  BY <1>1, <1>2, <1>3, <1>4, <1>5, <1>6, StepsAre

\* Whether it comes from the cache or from the rules, it is built from these rules.
LEMMA EngineStep == IndInv /\ [Next]_vars => EngineIsBuilt'
<1> SUFFICES ASSUME IndInv, [Next]_vars PROVE EngineIsBuilt'
  OBVIOUS
<1> USE DEF IndInv, EngineIsBuilt, Built
<1>0. IsFiniteSet(rules) /\ \A r \in rules : r.doc \in Docs
  BY DEF Types, Rule
<1>1. CASE WarmStart
  <2>1. /\ engine' = cache.blob /\ enginePaths' = rulePaths
        /\ cache.state = "whole" /\ cache.key = Fingerprint(rules)
        /\ rules' = rules /\ rulePaths' = rulePaths
    BY <1>1 DEF WarmStart, CacheHit, UseEngine, set
  <2>2. engine' = Fingerprint(rules)
    BY <2>1 DEF CacheIsSound
  <2>3. ASSUME NEW r \in rules PROVE Compiles(r)
    BY <1>0, <2>1, FingerprintCounts DEF CacheIsSound, Compiles
  <2> QED
    BY <2>1, <2>2, <2>3
<1>2. CASE ColdStart
  <2>1. /\ \A r \in rules : Compiles(r)
        /\ engine' = Compile(NoRules, rules) /\ enginePaths' = rulePaths
        /\ rules' = rules /\ rulePaths' = rulePaths
    BY <1>2 DEF ColdStart, UseEngine, EngineAfterRejection, set
  <2> QED
    BY <1>0, <2>1, CompiledAll
<1>3. CASE \/ BeginSave \/ EndSave \/ SaveFails
           \/ \E matched \in SUBSET {d \in Docs : engine[d] > 0} : ProcessEvents(matched)
  BY <1>3 DEF BeginSave, EndSave, SaveFails, ProcessEvents, compiled, set
<1>4. CASE \/ AddRulesFails \/ FilterRules \/ Stop
           \/ \E m \in {"run", "all", "dry"}, flt \in Filters, c \in BOOLEAN : Start(m, flt, c)
  BY <1>4 DEF AddRulesFails, FilterRules, Stop, Start
<1>5. CASE UNCHANGED vars
  BY <1>5 DEF vars, set, compiled
<1>6. ASSUME NEW f \in Files, LoadFile(f) \/ \E d \in Docs : Update(f, d)
      PROVE  EngineIsBuilt'
  BY <1>6 DEF LoadFile, Update
<1>7. ASSUME NEW captured, NEW blocked, Retire(captured, blocked)
      PROVE  EngineIsBuilt'
  <2> DEFINE ids == captured \cup blocked
             left == RemoveIds(rules, ids)
  <2>1. CASE ids = {}
    BY <1>7, <2>1 DEF Retire, set, compiled
  <2>2. CASE ids # {}
    <3>1. rules' = left /\ engine' = Compile(NoRules, left) /\ enginePaths' = rulePaths'
      BY <1>7, <2>2 DEF Retire
    <3>2. \A r \in left : Compiles(r)
      BY <1>7 DEF Retire, RemoveIds
    <3>3. IsFiniteSet(left)
      BY <1>0, RemovedTwice, FiniteSelection
    <3>4. engine' = Fingerprint(left)
      BY <3>1, <3>2, <3>3, CompiledAll
    <3> QED
      BY <3>1, <3>2, <3>4
  <2> QED
    BY <2>1, <2>2
<1> QED
  BY <1>1, <1>2, <1>3, <1>4, <1>5, <1>6, <1>7, StepsAre DEF Still

\* Only EndSave makes a cache whole, and what it writes is an engine of rules that compile.
LEMMA CacheStep == IndInv /\ [Next]_vars => CacheIsSound'
<1> SUFFICES ASSUME IndInv, [Next]_vars PROVE CacheIsSound'
  OBVIOUS
<1> USE DEF IndInv, CacheIsSound
<1>1. CASE EndSave
  <2>1. /\ engine = Fingerprint(rules) /\ \A r \in rules : Compiles(r)
        /\ cache' = [state |-> "whole", key |-> Fingerprint(rules), blob |-> engine]
    BY <1>1 DEF EndSave, EngineIsBuilt, Built
  <2>2. ASSUME NEW d \in Docs, Fingerprint(rules)[d] # 0
        PROVE  Meta[d].compiles
    BY <2>1, <2>2, FingerprintCounts DEF Types, Compiles
  <2> QED
    BY <2>1, <2>2
<1>2. CASE BeginSave
  BY <1>2 DEF BeginSave
<1>3. CASE cache' = cache
  BY <1>3
<1>4. Still => EndSave \/ BeginSave \/ cache' = cache
  BY DEF Still, Start, WarmStart, ColdStart, AddRulesFails, SaveFails, ProcessEvents
<1>5. FilterRules \/ Stop \/ UNCHANGED vars => cache' = cache
  BY DEF FilterRules, Stop, vars
<1>6. ASSUME NEW f \in Files, LoadFile(f) \/ \E d \in Docs : Update(f, d)
      PROVE  cache' = cache
  BY <1>6 DEF LoadFile, Update
<1>7. ASSUME NEW captured, NEW blocked, Retire(captured, blocked)
      PROVE  cache' = cache
  BY <1>7 DEF Retire
<1> QED
  BY <1>1, <1>2, <1>3, <1>4, <1>5, <1>6, <1>7, StepsAre

\* An alert is of a compiled rule, whose id leads to its file.
LEMMA AlertsStep == IndInv /\ [Next]_vars => AlertsPointAtTheirFile'
<1> SUFFICES ASSUME IndInv, [Next]_vars PROVE AlertsPointAtTheirFile'
  OBVIOUS
<1> USE DEF IndInv, AlertsPointAtTheirFile
<1>1. ASSUME NEW matched, ProcessEvents(matched)
      PROVE  AlertsPointAtTheirFile'
  <2>1. /\ disk' = disk /\ alerts' = {AlertOf(d) : d \in matched}
        /\ \A d \in matched : d \in Docs /\ engine[d] > 0
        /\ engine = Fingerprint(rules) /\ enginePaths = rulePaths
    BY <1>1 DEF ProcessEvents, EngineIsBuilt, Built, disks
  <2> SUFFICES ASSUME NEW d \in matched, AlertOf(d).path # None,
                      SpelledOnce(AlertOf(d).rule_id)
               PROVE  disk[AlertOf(d).path] = d
    BY <2>1 DEF AlertOf, SpelledOnce
  <2>2. /\ AlertOf(d).rule_id = Meta[d].uuid /\ Meta[d].form = "canonical"
        /\ AlertOf(d).path = rulePaths[Meta[d].uuid]
    BY <2>1 DEF AlertOf, LookupId
  <2>3. PICK r \in rules : r.doc = d
    BY <2>1, FingerprintCounts DEF Types
  <2> QED
    BY <2>2, <2>3 DEF RulesAreOfTheirFiles
<1>2. CASE UNCHANGED <<disk, alerts>>
  BY <1>2 DEF SpelledOnce
<1>3. CASE alerts' = {}
  BY <1>3
<1>4. Still => \/ UNCHANGED <<disk, alerts>>
               \/ \E matched \in SUBSET {d \in Docs : engine[d] > 0} : ProcessEvents(matched)
  BY DEF Still, Start, WarmStart, ColdStart, AddRulesFails, BeginSave, EndSave, SaveFails, disks
<1>5. FilterRules \/ Stop \/ UNCHANGED vars => UNCHANGED <<disk, alerts>> \/ alerts' = {}
  BY DEF FilterRules, Stop, NoMemory, vars, disks
<1>6. ASSUME NEW f \in Files, LoadFile(f) \/ \E d \in Docs : Update(f, d)
      PROVE  UNCHANGED <<disk, alerts>> \/ alerts' = {}
  BY <1>6 DEF LoadFile, Update, FreshWhenDown, disks
<1>7. ASSUME NEW captured, NEW blocked, Retire(captured, blocked)
      PROVE  alerts' = {}
  BY <1>7 DEF Retire
<1> QED
  BY <1>1, <1>2, <1>3, <1>4, <1>5, <1>6, <1>7, StepsAre

-----------------------------------------------------------------------------
(* The theorems. *)

\* The inductive invariant holds in every behaviour.
LEMMA Invariance == Spec => []IndInv
<1>1. IndInv /\ [Next]_vars => IndInv'
  BY TypesStep, FreshStep, RulesStep, RetiredStep, EngineStep, CacheStep, AlertsStep DEF IndInv
<1> QED
  BY Initially, <1>1, PTL DEF Spec

\* Whatever cache a process finds, its engine runs every rule of its set once and no
\* other, in the first cycle and after every reload (new_with_hir_cache, reload_rules).
THEOREM EngineIsTheRules == Spec => []EngineRunsTheRules
<1>1. IndInv => EngineRunsTheRules
  BY DEF IndInv, EngineIsBuilt, EngineRunsTheRules, Fingerprint, Built
<1> QED
  BY Invariance, <1>1, PTL

\* A cache that was written whole holds the compiled form of the rules its key names,
\* although a reload saves what it has (write_hir_cache, reload_rules).
THEOREM CacheIsItsKey == Spec => []CacheHoldsItsKey
<1>1. IndInv => CacheHoldsItsKey
  BY DEF IndInv, CacheIsSound, CacheHoldsItsKey
<1> QED
  BY Invariance, <1>1, PTL

\* No cycle detects a rule that was skipped for its data, captured or given up.
THEOREM RetiredAreGone == Spec => []RetiredAreNotDetected
<1>1. IndInv => RetiredAreNotDetected
  <2> SUFFICES ASSUME IndInv, pc \in {"saving", "writing", "running"},
                      NEW u \in retired, NEW d \in Docs, engine[d] > 0, NamedBy(d, u)
               PROVE  FALSE
    BY DEF RetiredAreNotDetected
  <2>1. engine = Fingerprint(rules) /\ RemoveIds(rules, retired) = rules
    BY DEF IndInv, EngineIsBuilt, RetiredHaveLeft, Settled, Built
  <2>2. PICK r \in rules : r.doc = d
    BY <2>1, FingerprintCounts DEF IndInv, Types
  <2> QED
    BY <2>1, <2>2 DEF RemoveIds
<1> QED
  BY Invariance, <1>1, PTL

\* The file that add() annotates is that of the rule that matched, whichever of the
\* files that name its id was read first (rule_paths, process_events).
THEOREM AlertsLeadToTheirFile == Spec => []AlertsPointAtTheirFile
<1>1. IndInv => AlertsPointAtTheirFile
  BY DEF IndInv
<1> QED
  BY Invariance, <1>1, PTL

-----------------------------------------------------------------------------
(* What becomes of the id strings. *)

Key(r) == IdKey(r.file, r.doc)
Parses(f) == Meta[disk[f]].parse = "ok"

\* While a process loads, its rules are the parsed files it has visited, one
\* for every id string of theirs.
LoadedSoFar ==
  pc = "loading" =>
    /\ todo \subseteq Candidates
    /\ \A r \in rules : /\ r.file \in Candidates \ todo /\ r.doc = disk[r.file]
                        /\ Parses(r.file)
    /\ \A f \in Candidates \ todo : Parses(f) => \E r \in rules : Key(r) = IdKey(f, disk[f])
    /\ \A r, s \in rules : Key(r) = Key(s) => r = s

AccountInv == DOMAIN stats = DOMAIN NoStats /\ LoadedSoFar /\ EveryIdIsAccountedFor

\* Every set is what is in a part of it and what is not.
LEMMA Parts ==
  ASSUME NEW S, IsFiniteSet(S), NEW T, T \subseteq S
  PROVE  /\ IsFiniteSet(T) /\ Cardinality(S) \in Nat /\ Cardinality(T) \in Nat
         /\ Cardinality(S \ T) \in Nat
         /\ Cardinality(S) = Cardinality(T) + Cardinality(S \ T)
<1>1. IsFiniteSet(T) /\ Cardinality(S) \in Nat /\ Cardinality(T) \in Nat
  BY FS_Subset, FS_CardinalityType
<1>2. S \cap T = T
  OBVIOUS
<1>3. IsFiniteSet(S \ T) /\ Cardinality(S \ T) = Cardinality(S) - Cardinality(T)
  BY <1>2, FS_Difference
<1>4. Cardinality(S \ T) \in Nat
  BY <1>3, FS_CardinalityType
<1> QED
  BY <1>1, <1>3, <1>4

\* Rules with keys of their own are as many as their keys.
LEMMA AsManyKeys ==
  ASSUME NEW S, IsFiniteSet(S), \A r, s \in S : Key(r) = Key(s) => r = s,
         NEW K, \A k : k \in K <=> \E r \in S : Key(r) = k
  PROVE  Cardinality(K) = Cardinality(S)
<1> DEFINE g == [r \in S |-> Key(r)]
<1>1. g \in [S -> K]
  OBVIOUS
<1>2. g \in Injection(S, K)
  BY <1>1 DEF Injection, IsInjective
<1>3. g \in Surjection(S, K)
  BY <1>1 DEF Surjection
<1>4. ExistsBijection(S, K)
  BY <1>2, <1>3 DEF ExistsBijection, Bijection
<1> QED
  BY <1>4, FS_Bijection

\* The counters of the filter add up: each rule is counted by one of them.
LEMMA FilterAddsUp ==
  ASSUME NEW flt, NEW S, IsFiniteSet(S), DOMAIN stats = DOMAIN NoStats
  PROVE  LET t == FilterStats(flt, S)
         IN /\ DOMAIN t = DOMAIN NoStats
            /\ t.candidate = Cardinality(S)
            /\ t.candidate = t.loaded + t.product + t.status + t.level + t.author
            /\ t.loaded = Cardinality(Kept(flt, S))
<1> DEFINE p == {r \in S : ProductOk(flt, r.doc)}
           s == {r \in p : StatusOk(flt, r.doc)}
           l == {r \in s : LevelOk(flt, r.doc)}
           a == {r \in l : AuthorOk(flt, r.doc)}
           t == FilterStats(flt, S)
<1>1. /\ Cardinality(S) = Cardinality(p) + Cardinality(S \ p)
      /\ Cardinality(S) \in Nat /\ Cardinality(p) \in Nat /\ Cardinality(S \ p) \in Nat
      /\ IsFiniteSet(p)
  BY Parts
<1>2. /\ Cardinality(p) = Cardinality(s) + Cardinality(p \ s)
      /\ Cardinality(s) \in Nat /\ Cardinality(p \ s) \in Nat /\ IsFiniteSet(s)
  BY <1>1, Parts
<1>3. /\ Cardinality(s) = Cardinality(l) + Cardinality(s \ l)
      /\ Cardinality(l) \in Nat /\ Cardinality(s \ l) \in Nat /\ IsFiniteSet(l)
  BY <1>2, Parts
<1>4. /\ Cardinality(l) = Cardinality(a) + Cardinality(l \ a)
      /\ Cardinality(a) \in Nat /\ Cardinality(l \ a) \in Nat
  BY <1>3, Parts
<1>5. a = Kept(flt, S)
  BY DEF Kept
<1>6. t = [stats EXCEPT !.candidate = Cardinality(S), !.product = Cardinality(S \ p),
                        !.status = Cardinality(p \ s), !.level = Cardinality(s \ l),
                        !.author = Cardinality(l \ a), !.loaded = Cardinality(a)]
  BY DEF FilterStats
<1> HIDE DEF p, s, l, a, t
<1>7. {"candidate", "product", "status", "level", "author", "loaded"} \subseteq DOMAIN stats
  BY DEF NoStats
<1>8. /\ DOMAIN t = DOMAIN stats
      /\ t.candidate = Cardinality(S) /\ t.product = Cardinality(S \ p)
      /\ t.status = Cardinality(p \ s) /\ t.level = Cardinality(s \ l)
      /\ t.author = Cardinality(l \ a) /\ t.loaded = Cardinality(a)
  BY <1>6, <1>7
<1> QED
  BY <1>1, <1>2, <1>3, <1>4, <1>5, <1>8 DEF t

\* When every file was visited, the filter accounts for what was found.
LEMMA FilterAccounts ==
  ASSUME IndInv, AccountInv, FilterRules
  PROVE  EveryIdIsAccountedFor'
<1> DEFINE ids == {IdKey(f, disk[f]) : f \in {g \in Candidates : Meta[disk[g]].parse = "ok"}}
           skipped == {k \in ids : \E u \in retired : k = <<u, "canonical">>}
           left == RemoveIds(rules, retired)
<1>1. /\ rules \subseteq Rule /\ IsFiniteSet(rules) /\ DOMAIN stats = DOMAIN NoStats
      /\ \A r \in rules : r.file \in Candidates /\ r.doc = disk[r.file] /\ Parses(r.file)
      /\ \A f \in Candidates : Parses(f) => \E r \in rules : Key(r) = IdKey(f, disk[f])
      /\ \A r, s \in rules : Key(r) = Key(s) => r = s
  BY DEF IndInv, Types, AccountInv, LoadedSoFar, FilterRules
<1>2. \A k : k \in ids <=> \E r \in rules : Key(r) = k
  <2>1. ASSUME NEW r \in rules PROVE Key(r) \in ids
    BY <1>1 DEF Key, Parses
  <2>2. ASSUME NEW k \in ids PROVE \E r \in rules : Key(r) = k
    <3>1. PICK f \in {g \in Candidates : Meta[disk[g]].parse = "ok"} : k = IdKey(f, disk[f])
      BY <2>2
    <3> QED
      BY <1>1, <3>1 DEF Parses
  <2> QED
    BY <2>1, <2>2
<1>3. \A r \in rules : r \notin left <=> \E u \in retired : Key(r) = <<u, "canonical">>
  BY DEF RemoveIds, NamedBy, Key, IdKey
<1>4. \A k : k \in skipped <=> \E r \in rules \ left : Key(r) = k
  <2> HIDE DEF ids, left
  <2> QED
    BY <1>2, <1>3
<1>5. left \subseteq rules
  BY DEF RemoveIds
<1>6. Cardinality(ids) = Cardinality(rules)
  <2> HIDE DEF ids
  <2> QED
    BY <1>1, <1>2, AsManyKeys
<1>7. IsFiniteSet(rules \ left)
  BY <1>1, FS_Difference
<1>8. Cardinality(skipped) = Cardinality(rules \ left)
  <2> HIDE DEF skipped, left
  <2> QED
    BY <1>1, <1>4, <1>7, AsManyKeys
<1>9. /\ Cardinality(rules) = Cardinality(left) + Cardinality(rules \ left)
      /\ IsFiniteSet(left) /\ Cardinality(left) \in Nat /\ Cardinality(rules \ left) \in Nat
  BY <1>1, <1>5, Parts
<1>10. /\ stats' = FilterStats(filter, left) /\ rules' = Kept(filter, left)
       /\ UNCHANGED <<disk, dirs, retired>>
  BY DEF FilterRules, disks, started
<1>11. /\ stats'.candidate = Cardinality(left)
       /\ stats'.candidate = stats'.loaded + stats'.product + stats'.status + stats'.level
                               + stats'.author
       /\ stats'.loaded = Cardinality(rules')
  BY <1>1, <1>9, <1>10, FilterAddsUp
<1>12. /\ Cardinality(ids) = Cardinality(skipped) + stats'.candidate
  <2> HIDE DEF ids, skipped, left
  <2> QED
    BY <1>6, <1>8, <1>9, <1>11
<1>13. ids' = ids /\ skipped' = skipped
  BY <1>10 DEF Candidates
<1> HIDE DEF left
<1> QED
  BY <1>11, <1>12, <1>13 DEF EveryIdIsAccountedFor

\* A step that is not a load, a filter or a start leaves the account alone, or
\* leaves the states it is about.
LEMMA QuietKeepsAccount ==
  ASSUME IndInv, AccountInv, DOMAIN stats' = DOMAIN stats, pc' # "loading",
         pc' = "filtered" => pc = "filtered" /\ UNCHANGED <<stats, disk, dirs, retired, rules>>
  PROVE  AccountInv'
<1>1. EveryIdIsAccountedFor'
  BY DEF EveryIdIsAccountedFor, AccountInv, Candidates
<1> QED
  BY <1>1 DEF AccountInv, LoadedSoFar

\* Every step keeps account.
LEMMA AccountStep ==
  ASSUME IndInv, AccountInv, [Next]_vars
  PROVE  AccountInv'
<1>1. ASSUME NEW m, NEW flt, NEW c, Start(m, flt, c)
      PROVE  AccountInv'
  <2>1. todo' = Candidates' /\ rules' = {} /\ pc' = "loading" /\ stats' = stats
    BY <1>1 DEF Start, IndInv, FreshWhenDown, set
  <2> QED
    BY <2>1 DEF AccountInv, LoadedSoFar, EveryIdIsAccountedFor
<1>2. ASSUME NEW f \in Files, LoadFile(f)
      PROVE  AccountInv'
  <2> DEFINE d == disk[f]
             duplicate == \E r \in rules : IdKey(r.file, r.doc) = IdKey(f, d)
             new == [file |-> f, doc |-> d]
  <2>1. /\ pc = "loading" /\ pc' = "loading" /\ f \in todo /\ todo' = todo \ {f}
        /\ rules' = IF Parses(f) /\ ~duplicate THEN rules \cup {new} ELSE rules
        /\ UNCHANGED <<disk, dirs>>
    BY <1>2 DEF LoadFile, Parses, disks, started
  <2>2. Candidates' = Candidates /\ \A g : Parses(g)' = Parses(g)
    BY <2>1 DEF Candidates, Parses
  <2>3. f \in Candidates /\ todo \subseteq Candidates
    BY <2>1 DEF AccountInv, LoadedSoFar
  <2>4. new.file = f /\ new.doc = disk[f] /\ Key(new) = IdKey(f, disk[f])
    BY DEF Key
  <2>5. \A r \in rules : /\ r.file \in Candidates \ todo' /\ r.doc = disk[r.file]
                         /\ Parses(r.file)
    BY <2>1 DEF AccountInv, LoadedSoFar
  <2>6. \A r \in rules' : /\ r.file \in Candidates \ todo' /\ r.doc = disk[r.file]
                          /\ Parses(r.file)
    <3> HIDE DEF new
    <3> QED
      BY <2>1, <2>3, <2>4, <2>5
  <2>7. ASSUME NEW g \in Candidates \ todo', Parses(g)
        PROVE  \E r \in rules' : Key(r) = IdKey(g, disk[g])
    <3>1. CASE g = f
      BY <2>1, <2>4, <2>7, <3>1 DEF Key
    <3>2. CASE g # f
      BY <2>1, <2>7, <3>2 DEF AccountInv, LoadedSoFar
    <3> QED
      BY <3>1, <3>2
  <2>8. \A r, s \in rules' : Key(r) = Key(s) => r = s
    <3>1. \A r, s \in rules : Key(r) = Key(s) => r = s
      BY <2>1 DEF AccountInv, LoadedSoFar
    <3>2. ~duplicate => \A r \in rules : Key(r) # Key(new)
      BY <2>4 DEF Key
    <3> HIDE DEF new, duplicate
    <3> QED
      BY <2>1, <3>1, <3>2
  <2>9. LoadedSoFar'
    BY <2>1, <2>2, <2>3, <2>6, <2>7, <2>8 DEF LoadedSoFar
  <2>10. DOMAIN stats' = DOMAIN stats
    <3>1. \E a, b : stats' = [stats EXCEPT !.parse_failed = a, !.timeframe = b]
      BY <1>2, Zenon DEF LoadFile
    <3> QED
      BY <3>1
  <2> QED
    BY <2>1, <2>9, <2>10 DEF AccountInv, EveryIdIsAccountedFor
<1>3. CASE FilterRules
  <2>1. IsFiniteSet(RemoveIds(rules, retired))
    BY FiniteSelection DEF RemoveIds, IndInv, Types
  <2>2. DOMAIN stats' = DOMAIN NoStats
    BY <1>3, <2>1, FilterAddsUp DEF FilterRules, AccountInv
  <2>3. pc' # "loading"
    BY <1>3 DEF FilterRules
  <2> QED
    BY <1>3, <2>2, <2>3, FilterAccounts DEF AccountInv, LoadedSoFar
<1>4. CASE Stop
  BY <1>4 DEF Stop, NoMemory, AccountInv, LoadedSoFar, EveryIdIsAccountedFor
<1>5. CASE WarmStart \/ ColdStart \/ AddRulesFails \/ BeginSave \/ EndSave \/ SaveFails
  BY <1>5, QuietKeepsAccount
     DEF WarmStart, ColdStart, AddRulesFails, BeginSave, EndSave, SaveFails, AfterBuild
<1>6. ASSUME NEW matched, ProcessEvents(matched)
      PROVE  AccountInv'
  BY <1>6, QuietKeepsAccount DEF ProcessEvents
<1>7. ASSUME NEW captured, NEW blocked, Retire(captured, blocked)
      PROVE  AccountInv'
  BY <1>7, QuietKeepsAccount DEF Retire
<1>8. ASSUME NEW f, NEW d, Update(f, d)
      PROVE  AccountInv'
  BY <1>8, QuietKeepsAccount DEF Update
<1>9. CASE UNCHANGED vars
  <2>1. UNCHANGED <<pc, stats, disk, dirs, retired, rules, todo>>
    BY <1>9 DEF vars, disks, started, set
  <2> QED
    BY <2>1 DEF AccountInv, LoadedSoFar, EveryIdIsAccountedFor, Candidates, Parses
<1> QED
  BY <1>1, <1>2, <1>3, <1>4, <1>5, <1>6, <1>7, <1>8, <1>9, StepsAre DEF Still

\* Whatever the tree, the order in which its directories are read, the ids that are
\* repeated in it and the filter, every id string that was found is loaded, skipped
\* or counted by one filter (new_from_path, remove_id, filter).
THEOREM NoIdIsLost == Spec => []EveryIdIsAccountedFor
<1>1. Init => AccountInv
  BY DEF Init, AccountInv, LoadedSoFar, EveryIdIsAccountedFor
<1>2. IndInv /\ AccountInv /\ [Next]_vars => AccountInv'
  BY AccountStep
<1>3. AccountInv => EveryIdIsAccountedFor
  BY DEF AccountInv
<1> QED
  BY Invariance, <1>1, <1>2, <1>3, PTL DEF Spec
=============================================================================
