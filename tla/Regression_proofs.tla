------------------------- MODULE Regression_proofs -------------------------
(***************************************************************************)
(* Theorems about the generation task, for every set of rules and every    *)
(* value of the configuration: type correctness, the invariants and the    *)
(* action property that MCRegression checks on two rules, and that the     *)
(* tree implements RuleLifecycle.                                          *)
(*                                                                         *)
(* IndInv is the inductive invariant they all follow from.  What the       *)
(* checked invariants lack is what generate() has already established at   *)
(* the point it has reached, and how the counters of SigmahqRegression     *)
(* relate to the failures that really happened.                            *)
(***************************************************************************)
EXTENDS Regression, TLAPS

\* Nothing in memory survives the process.
FreshWhenDown ==
  pc = "down" => /\ retired = {} /\ batches = {} /\ handed = {} /\ rules = {}
                 /\ blocked = {} /\ failed_this_cycle = {} /\ failedNow = {}
                 /\ \A r \in Rules : failures[r] = 0 /\ failed_cycles[r] = 0

\* generate() works on the first alert, of a rule that is not retired; the data
\* file is whole once it turns to info.yml, and info.yml before the rule file.
Progress ==
  /\ pc \in Generating => alerts # <<>> /\ Head(alerts) \notin retired
  /\ pc \in {"info", "info_write", "yaml", "yaml_write"} => data[Head(alerts)] = "ok"
  /\ pc \in {"json", "data", "data_write", "info", "info_write"} => info[Head(alerts)] # "ok"
  /\ pc \in {"yaml", "yaml_write"} => info[Head(alerts)] = "ok"

\* An info.yml of this program describes data that is there.
InfoTellsTheTruth == \A r \in Rules : info[r] = "ok" => data[r] = "ok"

\* The rules handed over are retired, and still whole.
Delivered == /\ batches \cup handed \subseteq retired
             /\ BatchesAreWhole

\* failed_cycles is the number of failing cycles until the rule is retired; a
\* retired rule that was not handed over has failed in all it may.
Counted ==
  /\ failedNow = failed_this_cycle
  /\ \A r \in Rules : r \notin retired => failures[r] = failed_cycles[r]
  /\ \A r \in batches \cup handed : failures[r] # MaxFailedCycles
  /\ \A r \in retired : r \in batches \cup handed \/ failures[r] = MaxFailedCycles

\* A retired rule that is still in the rule set is on its way out of it.
Leaving ==
  /\ rules \cap retired \subseteq batches \cup blocked
  /\ pc = "idle" => batches = {} /\ blocked = {}

IndInv == /\ TypeOK /\ FreshWhenDown /\ Progress /\ InfoTellsTheTruth
          /\ Delivered /\ Counted /\ Leaving

-----------------------------------------------------------------------------
\* The alerts left to process are alerts of the filter's rules.
LEMMA AlertsOfRules ==
  ASSUME TypeOK, alerts # <<>>
  PROVE  Head(alerts) \in Rules /\ Tail(alerts) \in Seq(Rules)
BY DEF TypeOK

\* What a failure of an open rule of the filter does to the memory.
LEMMA FailTypes ==
  ASSUME TypeOK, NEW r \in Rules, Fail(r)
  PROVE  /\ retired' \subseteq Rules /\ blocked' \subseteq Rules
         /\ failed_this_cycle' \subseteq Rules /\ failedNow' \subseteq Rules
         /\ failed_cycles' \in [Rules -> 0 .. (MaxFailedCycles - 1)]
         /\ failures' \in [Rules -> 0 .. MaxFailedCycles]
<1>1. MaxFailedCycles \in Nat \ {0}
  BY RegressionAssumption DEF RegressionAssumption
<1>2. failures' \in [Rules -> 0 .. MaxFailedCycles]
  BY <1>1 DEF TypeOK, Fail
<1>3. CASE r \in failed_this_cycle
  BY <1>2, <1>3 DEF TypeOK, Fail, NoteFailure, memory
<1>4. CASE r \notin failed_this_cycle
  <2>1. failed_cycles[r] \in 0 .. (MaxFailedCycles - 1)
    BY DEF TypeOK
  <2>2. CASE failed_cycles[r] + 1 >= MaxFailedCycles
    <3>1. /\ failed_cycles' = [failed_cycles EXCEPT ![r] = 0]
          /\ retired' = retired \cup {r} /\ blocked' = blocked \cup {r}
          /\ failed_this_cycle' = failed_this_cycle \cup {r}
          /\ failedNow' = failedNow \cup {r}
      BY <1>4, <2>2 DEF Fail, NoteFailure
    <3>2. 0 \in 0 .. (MaxFailedCycles - 1)
      BY <1>1
    <3> QED BY <1>2, <3>1, <3>2 DEF TypeOK
  <2>3. CASE ~(failed_cycles[r] + 1 >= MaxFailedCycles)
    <3>1. /\ failed_cycles' = [failed_cycles EXCEPT ![r] = @ + 1]
          /\ retired' = retired /\ blocked' = blocked
          /\ failed_this_cycle' = failed_this_cycle \cup {r}
          /\ failedNow' = failedNow \cup {r}
      BY <1>4, <2>3 DEF Fail, NoteFailure
    <3>2. failed_cycles[r] + 1 \in 0 .. (MaxFailedCycles - 1)
      BY <1>1, <2>1, <2>3
    <3> QED BY <1>2, <3>1, <3>2 DEF TypeOK
  <2> QED BY <2>2, <2>3
<1> QED BY <1>3, <1>4

\* Every step keeps the types.
LEMMA TypeStep == TypeOK /\ Progress /\ [Next]_vars => TypeOK'
<1> SUFFICES ASSUME TypeOK, Progress, [Next]_vars PROVE TypeOK'
  OBVIOUS
<1> USE DEF Generating, Phases
<1>1. CASE Startup
  BY <1>1 DEF TypeOK, Startup, memory, history
<1>2. CASE BeginCycle
  <2>1. alerts' \in Seq(Rules)
    BY <1>2 DEF BeginCycle, TypeOK
  <2> QED
    BY <1>2, <2>1 DEF TypeOK, BeginCycle, disk, loaded
<1>3. CASE SkipAlert
  BY <1>3, AlertsOfRules DEF TypeOK, SkipAlert, disk, memory, loaded, history
<1>4. CASE BeginGenerate
  BY <1>4 DEF TypeOK, BeginGenerate, disk, memory, loaded, history
<1>5. CASE GenerateRefused
  <2>1. Fail(Head(alerts)) /\ UNCHANGED disk /\ alerts # <<>>
    BY <1>5 DEF GenerateRefused
  <2> QED
    BY <2>1, AlertsOfRules, FailTypes DEF TypeOK, Fail, disk, loaded
<1>6. CASE WriteJson \/ OpenData \/ WriteData \/ OpenInfo \/ WriteInfo \/ OpenYaml
  BY <1>6 DEF TypeOK, WriteJson, OpenData, WriteData, OpenInfo, WriteInfo, OpenYaml,
              memory, loaded, history
<1>7. CASE DataFails
  <2>1. Fail(Head(alerts)) /\ Cleanup(Head(alerts)) /\ alerts # <<>>
    BY <1>7 DEF DataFails, Progress
  <2> QED
    <3>1. /\ json' \in [Rules -> BOOLEAN] /\ legacy' \in [Rules -> BOOLEAN]
          /\ data' \in [Rules -> {"none", "empty", "bad", "ok"}]
          /\ info' \in [Rules -> {"none", "torn", "old", "ok"}]
          /\ yaml' = yaml
      BY <2>1, AlertsOfRules DEF TypeOK, Cleanup
    <3> QED
      BY <2>1, <3>1, AlertsOfRules, FailTypes DEF TypeOK, Fail, loaded
<1>8. CASE InfoFails
  <2>1. Fail(Head(alerts)) /\ UNCHANGED disk /\ alerts # <<>>
    BY <1>8 DEF InfoFails, Progress
  <2> QED
    BY <2>1, AlertsOfRules, FailTypes DEF TypeOK, Fail, disk, loaded
<1>9. CASE Deliver
  BY <1>9, AlertsOfRules DEF TypeOK, Deliver, Progress, loaded, history
<1>10. CASE EndCycle
  BY <1>10 DEF TypeOK, EndCycle, RetiredIds, disk
<1>11. CASE Stop
  BY <1>11, RegressionAssumption DEF TypeOK, Stop, disk, RegressionAssumption
<1>12. CASE UNCHANGED vars
  BY <1>12 DEF TypeOK, vars, disk, memory, loaded, task, history
<1> QED
  BY <1>1, <1>2, <1>3, <1>4, <1>5, <1>6, <1>7, <1>8, <1>9, <1>10, <1>11, <1>12
     DEF Next, Step

\* Nothing survives the process: every other step ends with pc up.
LEMMA FreshStep == IndInv /\ [Next]_vars => FreshWhenDown'
<1> SUFFICES ASSUME IndInv, [Next]_vars PROVE FreshWhenDown'
  OBVIOUS
<1> USE DEF IndInv, FreshWhenDown
<1>1. CASE Startup \/ BeginCycle \/ EndCycle \/ Deliver
  BY <1>1 DEF Startup, BeginCycle, EndCycle, Deliver
<1>2. CASE SkipAlert \/ BeginGenerate
  BY <1>2 DEF SkipAlert, BeginGenerate
<1>3. CASE WriteJson \/ OpenData \/ WriteData \/ OpenInfo \/ WriteInfo \/ OpenYaml
  BY <1>3 DEF WriteJson, OpenData, WriteData, OpenInfo, WriteInfo, OpenYaml
<1>4. CASE GenerateRefused \/ DataFails \/ InfoFails
  BY <1>4 DEF GenerateRefused, DataFails, InfoFails, Fail
<1>5. CASE Stop
  BY <1>5 DEF Stop
<1>6. CASE UNCHANGED vars
  BY <1>6 DEF vars, memory, loaded, task, history
<1> QED
  BY <1>1, <1>2, <1>3, <1>4, <1>5, <1>6 DEF Next, Step

\* generate() proceeds from file to file of one rule.
LEMMA ProgressStep == IndInv /\ [Next]_vars => Progress'
<1> SUFFICES ASSUME IndInv, [Next]_vars PROVE Progress'
  OBVIOUS
<1> USE DEF IndInv, Progress, Generating
<1>1. CASE Startup \/ BeginCycle \/ EndCycle \/ Deliver \/ Stop
  BY <1>1 DEF Startup, BeginCycle, EndCycle, Deliver, Stop
<1>2. CASE SkipAlert
  BY <1>2 DEF SkipAlert
<1>3. CASE BeginGenerate
  \* The rule has no whole capture: add() would have skipped it.
  <2>1. alerts # <<>> /\ Head(alerts) \notin retired /\ ~Exists(Head(alerts))
    BY <1>3 DEF BeginGenerate, Skips
  <2>2. info[Head(alerts)] # "ok"
    BY <2>1, AlertsOfRules DEF Exists, HasData, InfoTellsTheTruth
  <2> QED
    BY <1>3, <2>1, <2>2 DEF BeginGenerate, disk, memory
<1>4. CASE WriteJson
  BY <1>4 DEF WriteJson, memory
<1>5. CASE OpenData
  BY <1>5 DEF OpenData, memory
<1>6. CASE WriteData
  BY <1>6, AlertsOfRules DEF WriteData, memory, TypeOK
<1>7. CASE OpenInfo
  BY <1>7, AlertsOfRules DEF OpenInfo, memory, TypeOK
<1>8. CASE WriteInfo
  BY <1>8, AlertsOfRules DEF WriteInfo, memory, TypeOK
<1>9. CASE OpenYaml
  BY <1>9 DEF OpenYaml, memory
<1>10. CASE GenerateRefused \/ DataFails \/ InfoFails
  BY <1>10 DEF GenerateRefused, DataFails, InfoFails, Fail
<1>11. CASE UNCHANGED vars
  BY <1>11 DEF vars, disk, memory, task
<1> QED
  BY <1>1, <1>2, <1>3, <1>4, <1>5, <1>6, <1>7, <1>8, <1>9, <1>10, <1>11 DEF Next, Step

\* info.yml is written after the data file, and neither is touched again
\* while an info.yml of this program is there.
LEMMA TruthStep == IndInv /\ [Next]_vars => InfoTellsTheTruth'
<1> SUFFICES ASSUME IndInv, [Next]_vars, NEW r \in Rules, info'[r] = "ok"
             PROVE  data'[r] = "ok"
  BY DEF InfoTellsTheTruth
<1> USE DEF IndInv, InfoTellsTheTruth
<1>1. CASE Startup
  BY <1>1 DEF Startup, Partial
<1>2. CASE BeginCycle \/ EndCycle \/ SkipAlert \/ BeginGenerate \/ Stop
  BY <1>2 DEF BeginCycle, EndCycle, SkipAlert, BeginGenerate, Stop, disk
<1>3. CASE WriteJson \/ OpenYaml \/ Deliver
  BY <1>3 DEF WriteJson, OpenYaml, Deliver
<1>4. CASE OpenData \/ WriteData
  BY <1>4 DEF OpenData, WriteData, Progress, TypeOK
<1>5. CASE OpenInfo \/ WriteInfo
  BY <1>5 DEF OpenInfo, WriteInfo, Progress, TypeOK
<1>6. CASE GenerateRefused \/ InfoFails
  BY <1>6 DEF GenerateRefused, InfoFails, disk
<1>7. CASE DataFails
  <2>1. Cleanup(Head(alerts)) /\ info[Head(alerts)] # "ok"
    BY <1>7 DEF DataFails, Progress
  <2>2. r # Head(alerts)
    BY <2>1 DEF Cleanup, TypeOK
  <2> QED
    BY <2>1, <2>2 DEF Cleanup, TypeOK
<1>8. CASE UNCHANGED vars
  BY <1>8 DEF vars, disk
<1> QED
  BY <1>1, <1>2, <1>3, <1>4, <1>5, <1>6, <1>7, <1>8 DEF Next, Step

\* What was handed over is retired, and no step writes for a retired rule.
LEMMA DeliveredStep == IndInv /\ [Next]_vars => Delivered'
<1> SUFFICES ASSUME IndInv, [Next]_vars PROVE Delivered'
  OBVIOUS
<1> USE DEF IndInv, Delivered, BatchesAreWhole
<1>1. CASE Startup
  BY <1>1 DEF Startup, FreshWhenDown, memory, history
<1>2. CASE BeginCycle \/ SkipAlert \/ BeginGenerate
  BY <1>2 DEF BeginCycle, SkipAlert, BeginGenerate, disk, memory, history
<1>3. CASE WriteJson \/ OpenYaml
  BY <1>3 DEF WriteJson, OpenYaml, memory, history
<1>4. CASE OpenData \/ WriteData \/ OpenInfo \/ WriteInfo
  BY <1>4 DEF OpenData, WriteData, OpenInfo, WriteInfo, memory, history,
              Progress, Generating, TypeOK
<1>5. CASE GenerateRefused \/ InfoFails
  BY <1>5 DEF GenerateRefused, InfoFails, Fail, NoteFailure, memory, disk
<1>6. CASE DataFails
  <2>1. Cleanup(Head(alerts)) /\ Head(alerts) \notin retired
    BY <1>6 DEF DataFails, Progress, Generating
  <2>2. batches' \cup handed' \subseteq retired'
    BY <1>6 DEF DataFails, Fail, NoteFailure, memory
  <2>3. \A r \in retired : data'[r] = data[r] /\ info'[r] = info[r]
    BY <2>1 DEF Cleanup, TypeOK
  <2> QED
    BY <1>6, <2>2, <2>3 DEF DataFails, Fail
<1>7. CASE Deliver
  BY <1>7 DEF Deliver, Progress, history
<1>8. CASE EndCycle
  BY <1>8 DEF EndCycle, disk
<1>9. CASE Stop
  BY <1>9 DEF Stop
<1>10. CASE UNCHANGED vars
  BY <1>10 DEF vars, disk, memory, task, history
<1> QED
  BY <1>1, <1>2, <1>3, <1>4, <1>5, <1>6, <1>7, <1>8, <1>9, <1>10 DEF Next, Step

\* The counter and the real number of failing cycles go together: one failure
\* more for the first failing alert of a cycle, none for the others, and the
\* rule is retired with the last.
LEMMA FailCounts ==
  ASSUME IndInv, NEW r \in Rules \ retired, Fail(r)
  PROVE  Counted'
<1> USE DEF IndInv, Counted
<1>1. MaxFailedCycles \in Nat \ {0}
  BY RegressionAssumption DEF RegressionAssumption
<1>2. failures[r] = failed_cycles[r] /\ failed_cycles[r] \in 0 .. (MaxFailedCycles - 1)
  BY DEF TypeOK
<1>3. r \notin batches \cup handed /\ batches' = batches /\ handed' = handed
  BY DEF Delivered, Fail
<1>4. CASE r \in failed_this_cycle
  BY <1>4 DEF Fail, NoteFailure, memory
<1>5. CASE r \notin failed_this_cycle
  <2>1. failures' = [failures EXCEPT ![r] = failures[r] + 1]
    BY <1>1, <1>2, <1>5 DEF Fail
  <2>2. failedNow' = failed_this_cycle'
    BY <1>5 DEF Fail, NoteFailure
  <2>3. CASE failed_cycles[r] + 1 >= MaxFailedCycles
    <3>1. failed_cycles' = [failed_cycles EXCEPT ![r] = 0] /\ retired' = retired \cup {r}
      BY <1>5, <2>3 DEF Fail, NoteFailure
    <3>2. failures'[r] = MaxFailedCycles
      BY <1>1, <1>2, <2>1, <2>3 DEF TypeOK
    <3> QED
      BY <1>3, <2>1, <2>2, <3>1, <3>2 DEF TypeOK
  <2>4. CASE ~(failed_cycles[r] + 1 >= MaxFailedCycles)
    <3>1. /\ failed_cycles' = [failed_cycles EXCEPT ![r] = failed_cycles[r] + 1]
          /\ retired' = retired
      BY <1>5, <2>4 DEF Fail, NoteFailure
    <3> QED
      BY <1>2, <1>3, <2>1, <2>2, <3>1 DEF TypeOK
  <2> QED
    BY <2>3, <2>4
<1> QED
  BY <1>4, <1>5

\* The counter of a rule follows its failing cycles in every step.
LEMMA CountedStep == IndInv /\ [Next]_vars => Counted'
<1> SUFFICES ASSUME IndInv, [Next]_vars PROVE Counted'
  OBVIOUS
<1> USE DEF IndInv, Counted
<1>1. CASE Startup \/ SkipAlert \/ BeginGenerate
  BY <1>1 DEF Startup, SkipAlert, BeginGenerate, memory, history
<1>2. CASE BeginCycle
  BY <1>2 DEF BeginCycle
<1>3. CASE WriteJson \/ OpenData \/ WriteData \/ OpenInfo \/ WriteInfo \/ OpenYaml
  BY <1>3 DEF WriteJson, OpenData, WriteData, OpenInfo, WriteInfo, OpenYaml, memory, history
<1>4. CASE GenerateRefused \/ DataFails \/ InfoFails
  <2>1. Fail(Head(alerts)) /\ alerts # <<>> /\ Head(alerts) \notin retired
    BY <1>4 DEF GenerateRefused, DataFails, InfoFails, Skips, Progress, Generating
  <2> QED
    BY <2>1, AlertsOfRules, FailCounts
<1>5. CASE Deliver
  <2>1. alerts # <<>> /\ Head(alerts) \notin retired
    BY <1>5 DEF Deliver, Progress, Generating
  <2>2. Head(alerts) \in Rules /\ failures[Head(alerts)] = failed_cycles[Head(alerts)]
    BY <2>1, AlertsOfRules
  <2>3. failures[Head(alerts)] # MaxFailedCycles
    BY <2>2, RegressionAssumption DEF TypeOK, RegressionAssumption
  <2> QED
    BY <1>5, <2>3 DEF Deliver, history
<1>6. CASE EndCycle
  BY <1>6 DEF EndCycle
<1>7. CASE Stop
  BY <1>7 DEF Stop
<1>8. CASE UNCHANGED vars
  BY <1>8 DEF vars, memory, task, history
<1> QED
  BY <1>1, <1>2, <1>3, <1>4, <1>5, <1>6, <1>7, <1>8 DEF Next, Step

\* Whatever is retired within a cycle is drained at its end.
LEMMA LeavingStep == IndInv /\ [Next]_vars => Leaving'
<1> SUFFICES ASSUME IndInv, [Next]_vars PROVE Leaving'
  OBVIOUS
<1> USE DEF IndInv, Leaving
<1>1. CASE Startup
  BY <1>1 DEF Startup, FreshWhenDown, memory
<1>2. CASE BeginCycle \/ SkipAlert \/ BeginGenerate
  BY <1>2 DEF BeginCycle, SkipAlert, BeginGenerate, memory, loaded
<1>3. CASE WriteJson \/ OpenData \/ WriteData \/ OpenInfo \/ WriteInfo \/ OpenYaml
  BY <1>3 DEF WriteJson, OpenData, WriteData, OpenInfo, WriteInfo, OpenYaml, memory, loaded
<1>4. CASE GenerateRefused \/ DataFails \/ InfoFails
  BY <1>4 DEF GenerateRefused, DataFails, InfoFails, Fail, NoteFailure, memory, loaded
<1>5. CASE Deliver
  BY <1>5 DEF Deliver, loaded
<1>6. CASE EndCycle
  BY <1>6 DEF EndCycle, RetiredIds
<1>7. CASE Stop
  BY <1>7 DEF Stop
<1>8. CASE UNCHANGED vars
  BY <1>8 DEF vars, memory, loaded, task
<1> QED
  BY <1>1, <1>2, <1>3, <1>4, <1>5, <1>6, <1>7, <1>8 DEF Next, Step

-----------------------------------------------------------------------------
\* Before the first start.
LEMMA InitIndInv == Init => IndInv
<1> SUFFICES ASSUME Init PROVE IndInv
  OBVIOUS
<1>1. TypeOK
  BY RegressionAssumption DEF Init, TypeOK, Phases, RegressionAssumption
<1>2. InfoTellsTheTruth
  BY DEF Init, InfoTellsTheTruth
<1>3. FreshWhenDown /\ Progress /\ Delivered /\ Counted /\ Leaving
  BY DEF Init, FreshWhenDown, Progress, Generating, Delivered, BatchesAreWhole, Counted,
         Leaving
<1> QED
  BY <1>1, <1>2, <1>3 DEF IndInv

\* The inductive invariant holds throughout every behaviour.
THEOREM Invariance == Spec => []IndInv
<1>1. IndInv /\ [Next]_vars => IndInv'
  BY TypeStep, FreshStep, ProgressStep, TruthStep, DeliveredStep, CountedStep, LeavingStep
     DEF IndInv
<1> QED
  BY InitIndInv, <1>1, PTL DEF Spec

\* Every variable keeps its type, whatever fails and whenever the process is
\* killed.
THEOREM TypeCorrect == Spec => []TypeOK
<1>1. IndInv => TypeOK
  BY DEF IndInv
<1> QED
  BY Invariance, <1>1, PTL

\* What add() hands over for commit has whole data and a whole info.yml and
\* keeps them (generate and add of regression/mod.rs).
THEOREM HandedOverWhole == Spec => []BatchesAreWhole
<1>1. IndInv => BatchesAreWhole
  BY DEF IndInv, Delivered
<1> QED
  BY Invariance, <1>1, PTL

\* A rule is given up exactly when it failed in max_failed_cycles cycles of
\* the process (note_generation_failure of regression/mod.rs).
THEOREM GivenUpOnTime == Spec => []GivenUpAtTheLimit
<1>1. IndInv => GivenUpAtTheLimit
  <2> SUFFICES ASSUME IndInv, NEW r \in Rules
               PROVE  failures[r] = MaxFailedCycles
                        <=> r \in retired \ (batches \cup handed)
    BY DEF GivenUpAtTheLimit
  <2>1. r \notin retired => failures[r] # MaxFailedCycles
    BY RegressionAssumption DEF IndInv, Counted, TypeOK, RegressionAssumption
  <2> QED
    BY <2>1 DEF IndInv, Counted
<1> QED
  BY Invariance, <1>1, PTL

\* Between cycles the rule set holds no retired rule (process_and_generate of
\* runner.rs, take_blocked of regression/mod.rs).
THEOREM RetiredHaveLeft == Spec => []RetiredLeaveTheRules
<1>1. IndInv => RetiredLeaveTheRules
  BY DEF IndInv, Leaving, RetiredLeaveTheRules
<1> QED
  BY Invariance, <1>1, PTL

\* Within a process nothing is written for a retired rule (the retired set that
\* add() of regression/mod.rs consults): generate() only runs for other rules.
THEOREM RetiredUntouched == Spec => RetiredAreLeftAlone
<1> DEFINE Files(r) == <<data[r], info[r], json[r], yaml[r]>>
           Alone == \A r \in retired : pc' # "down" => Files(r)' = Files(r)
<1>1. IndInv /\ [Next]_vars => Alone
  <2> SUFFICES ASSUME IndInv, [Next]_vars, NEW r \in retired, pc' # "down"
               PROVE  Files(r)' = Files(r)
    OBVIOUS
  <2>1. r \in Rules /\ pc # "down"
    BY DEF IndInv, TypeOK, FreshWhenDown
  <2>2. pc \in Generating => r # Head(alerts)
    BY DEF IndInv, Progress
  <2>3. CASE Startup \/ Stop
    BY <2>1, <2>3 DEF Startup, Stop
  <2>4. CASE BeginCycle \/ SkipAlert \/ BeginGenerate \/ EndCycle
    BY <2>4 DEF BeginCycle, SkipAlert, BeginGenerate, EndCycle, disk
  <2>5. CASE GenerateRefused \/ InfoFails
    BY <2>5 DEF GenerateRefused, InfoFails, disk
  <2>6. CASE WriteJson \/ OpenData \/ WriteData \/ OpenInfo \/ WriteInfo \/ OpenYaml
    BY <2>1, <2>2, <2>6 DEF WriteJson, OpenData, WriteData, OpenInfo, WriteInfo, OpenYaml,
                            Generating, IndInv, TypeOK
  <2>7. CASE DataFails
    BY <2>1, <2>2, <2>7 DEF DataFails, Cleanup, Generating, IndInv, TypeOK
  <2>8. CASE Deliver
    BY <2>1, <2>2, <2>8 DEF Deliver, Generating, IndInv, TypeOK
  <2>9. CASE UNCHANGED vars
    BY <2>9 DEF vars, disk
  <2> QED
    BY <2>3, <2>4, <2>5, <2>6, <2>7, <2>8, <2>9 DEF Next, Step
<1>2. Alone => [\A r \in retired : pc' # "down" =>
                  <<data[r], info[r], json[r], yaml[r]>>'
                    = <<data[r], info[r], json[r], yaml[r]>>]_vars
  OBVIOUS
<1> QED
  BY Invariance, <1>1, <1>2, PTL DEF Spec, RetiredAreLeftAlone

-----------------------------------------------------------------------------
(* The tree implements RuleLifecycle.  A rule is captured at the moment its *)
(* info.yml is whole, and blocked when it is retired without that.          *)

\* Under the invariant an info.yml of this program is what captured means.
LEMMA CapturedIsInfo ==
  ASSUME IndInv, NEW r \in Rules
  PROVE  Captured(r) <=> info[r] = "ok"
BY DEF IndInv, InfoTellsTheTruth, Captured

\* What the life of the rules depends on.
LEMMA LifeKept ==
  ASSUME retired' = retired, \A r \in Rules : Captured(r)' <=> Captured(r)
  PROVE  Life' = Life
BY DEF Life

\* A failed generation blocks its rule or leaves its life as it was.
LEMMA FailIsBlock ==
  ASSUME IndInv, NEW r \in Rules \ retired, Fail(r), pc # "down", ~Captured(r),
         \A q \in Rules : Captured(q)' <=> Captured(q)
  PROVE  [Lifecycle!Next]_(Lifecycle!lifeVars)
<1>1. pc' # "down"
  BY DEF Fail
<1>2. CASE retired' = retired
  <2>1. Life' = Life
    BY <1>2, LifeKept
  <2> QED
    BY <1>1, <2>1 DEF Lifecycle!lifeVars
<1>3. CASE retired' # retired
  <2>1. retired' = retired \cup {r}
    BY <1>3 DEF Fail, NoteFailure, memory
  <2>2. Life[r] = "open" /\ Life' = [Life EXCEPT ![r] = "blocked"]
    BY <2>1 DEF Life
  <2>3. Lifecycle!Block(r)
    BY <1>1, <2>2 DEF Lifecycle!Block
  <2> QED
    BY <2>3 DEF Lifecycle!Next
<1> QED
  BY <1>2, <1>3

\* Every rule begins open or captured.
LEMMA LifecycleInit == Init => Lifecycle!Init
BY DEF Init, Lifecycle!Init, Life

\* Every step of the program is one of the lifecycle, or a stutter.
LEMMA LifecycleStep ==
  IndInv /\ IndInv' /\ [Next]_vars => [Lifecycle!Next]_(Lifecycle!lifeVars)
<1> SUFFICES ASSUME IndInv, IndInv', [Next]_vars
             PROVE  [Lifecycle!Next]_(Lifecycle!lifeVars)
  OBVIOUS
<1>captured. \A r \in Rules : Captured(r) <=> info[r] = "ok"
  BY CapturedIsInfo
<1>capturedNext. \A r \in Rules : Captured(r)' <=> info'[r] = "ok"
  BY DEF IndInv, InfoTellsTheTruth, Captured
<1>stutter. ASSUME retired' = retired, info' = info, pc # "down", pc' # "down"
      PROVE  [Lifecycle!Next]_(Lifecycle!lifeVars)
  <2>1. Life' = Life
    BY <1>captured, <1>capturedNext, <1>stutter, LifeKept
  <2> QED
    BY <1>stutter, <2>1 DEF Lifecycle!lifeVars
<1>1. CASE Startup
  <2>1. info' = info /\ retired' = retired /\ pc = "down" /\ pc' = "idle"
    BY <1>1 DEF Startup, memory
  <2>2. Life' = Life
    BY <1>captured, <1>capturedNext, <2>1, LifeKept
  <2> QED
    BY <2>1, <2>2 DEF Lifecycle!Start, Lifecycle!Next
<1>2. CASE BeginCycle \/ SkipAlert \/ BeginGenerate \/ EndCycle
  BY <1>stutter, <1>2 DEF BeginCycle, SkipAlert, BeginGenerate, EndCycle, disk, memory
<1>3. CASE WriteJson \/ OpenData \/ WriteData \/ OpenYaml
  BY <1>stutter, <1>3 DEF WriteJson, OpenData, WriteData, OpenYaml, memory
<1>4. CASE GenerateRefused
  <2>1. /\ Fail(Head(alerts)) /\ UNCHANGED disk /\ alerts # <<>> /\ pc # "down"
        /\ Head(alerts) \notin retired /\ ~Exists(Head(alerts))
    BY <1>4 DEF GenerateRefused, Skips
  <2>2. Head(alerts) \in Rules \ retired /\ ~Captured(Head(alerts))
    BY <2>1, AlertsOfRules DEF IndInv, Exists, HasData, Captured
  <2> QED
    BY <1>captured, <1>capturedNext, <2>1, <2>2, FailIsBlock DEF disk
<1>5. CASE DataFails
  <2>1. /\ Fail(Head(alerts)) /\ Cleanup(Head(alerts)) /\ alerts # <<>> /\ pc # "down"
        /\ Head(alerts) \notin retired /\ info[Head(alerts)] # "ok"
    BY <1>5 DEF DataFails, IndInv, Progress, Generating
  <2>2. Head(alerts) \in Rules \ retired /\ ~Captured(Head(alerts))
    BY <2>1, AlertsOfRules DEF IndInv, Captured
  <2>3. \A q \in Rules : info'[q] = "ok" <=> info[q] = "ok"
    <3>1. PICK left : info' = [info EXCEPT ![Head(alerts)] =
                                 IF "info" \in left THEN @ ELSE "none"]
      BY <2>1 DEF Cleanup
    <3>2. \A q \in Rules : q # Head(alerts) => info'[q] = info[q]
      BY <3>1 DEF IndInv, TypeOK
    <3>3. info'[Head(alerts)] # "ok"
      BY <2>1, <2>2, <3>1 DEF IndInv, TypeOK
    <3> QED
      BY <2>1, <3>2, <3>3
  <2> QED
    BY <1>captured, <1>capturedNext, <2>1, <2>2, <2>3, FailIsBlock
<1>6. CASE InfoFails
  <2>1. /\ Fail(Head(alerts)) /\ UNCHANGED disk /\ alerts # <<>> /\ pc # "down"
        /\ Head(alerts) \notin retired /\ info[Head(alerts)] # "ok"
    BY <1>6 DEF InfoFails, IndInv, Progress, Generating
  <2>2. Head(alerts) \in Rules \ retired /\ ~Captured(Head(alerts))
    BY <2>1, AlertsOfRules DEF IndInv, Captured
  <2> QED
    BY <1>captured, <1>capturedNext, <2>1, <2>2, FailIsBlock DEF disk
<1>7. CASE OpenInfo
  <2>1. \A r \in Rules : info'[r] = "ok" <=> info[r] = "ok"
    BY <1>7 DEF OpenInfo, IndInv, TypeOK, Progress
  <2>2. Life' = Life
    BY <1>captured, <1>capturedNext, <1>7, <2>1, LifeKept DEF OpenInfo, memory
  <2> QED
    BY <1>7, <2>2 DEF OpenInfo, Lifecycle!lifeVars
<1>8. CASE WriteInfo
  <2>1. /\ Head(alerts) \in Rules \ retired /\ info[Head(alerts)] # "ok"
        /\ info' = [info EXCEPT ![Head(alerts)] = "ok"]
        /\ retired' = retired /\ pc # "down" /\ pc' # "down"
    BY <1>8, AlertsOfRules DEF WriteInfo, IndInv, Progress, Generating, memory
  <2>2. \A r \in Rules : info'[r] = "ok" <=> info[r] = "ok" \/ r = Head(alerts)
    BY <2>1 DEF IndInv, TypeOK
  <2>3. /\ Life[Head(alerts)] = "open"
        /\ Life' = [Life EXCEPT ![Head(alerts)] = "captured"]
    BY <1>captured, <1>capturedNext, <2>1, <2>2 DEF Life
  <2>4. Lifecycle!Capture(Head(alerts))
    BY <2>1, <2>3 DEF Lifecycle!Capture
  <2> QED
    BY <2>1, <2>4 DEF Lifecycle!Next
<1>9. CASE Deliver
  <2>1. /\ retired' = retired \cup {Head(alerts)} /\ info' = info
        /\ pc # "down" /\ pc' # "down" /\ info[Head(alerts)] = "ok"
    BY <1>9 DEF Deliver, IndInv, Progress
  <2>2. Life' = Life
    BY <1>captured, <1>capturedNext, <2>1 DEF Life
  <2> QED
    BY <2>1, <2>2 DEF Lifecycle!lifeVars
<1>10. CASE Stop
  <2>1. /\ retired' = {} /\ info' = info /\ pc # "down" /\ pc' = "down"
    BY <1>10 DEF Stop, disk
  <2>2. Life' = [r \in Rules |-> IF Life[r] = "blocked" THEN "open" ELSE Life[r]]
    BY <1>captured, <1>capturedNext, <2>1 DEF Life
  <2> QED
    BY <2>1, <2>2 DEF Lifecycle!Stop, Lifecycle!Next
<1>11. CASE UNCHANGED vars
  <2>1. Life' = Life
    BY <1>captured, <1>capturedNext, <1>11, LifeKept DEF vars, disk, memory
  <2> QED
    BY <1>11, <2>1 DEF vars, task, Lifecycle!lifeVars
<1> QED
  BY <1>1, <1>2, <1>3, <1>4, <1>5, <1>6, <1>7, <1>8, <1>9, <1>10, <1>11 DEF Next, Step

\* Seen rule by rule, the generation task with its crashes is RuleLifecycle:
\* a captured rule stays captured, a rule is blocked only while it is open.
THEOREM Refinement == Spec => ImplementsLifecycle
<1>1. IndInv /\ IndInv' /\ [Next]_vars => [Lifecycle!Next]_(Lifecycle!lifeVars)
  BY LifecycleStep
<1> QED
  BY LifecycleInit, Invariance, <1>1, PTL DEF Spec, ImplementsLifecycle, Lifecycle!Spec
=============================================================================
