---------------------------- MODULE Ebpf_proofs ----------------------------
(***************************************************************************)
(* The eBPF collector, for any number of processes, threads, images and    *)
(* calls and for maps, a ring and a cache of any size: an event carries    *)
(* the identity of its process, and a cached hash is that of the content.  *)
(***************************************************************************)
EXTENDS Ebpf, TLAPS

SystemCall == {Idle, [name |-> "emit"]} \cup [name : {"exec"}, file : Images]
                \cup [name : {"open"}, file : Created]
Texts == Images \cup Created \cup Queries \cup {None}
RingRecord == [kind : {"exec", "exit", "net", "file", "dns"}, pid : Pids, what : Texts,
               n : Nat \ {0}, ran : Images, sure : BOOLEAN, exec : Nat]

KernelTypes ==
  /\ owner \in [Threads -> Pids \cup {None}]
  /\ call \in [Threads -> SystemCall]
  /\ proc \in [Pids -> Images \cup {None}]
  /\ \A k \in DOMAIN execArgs : execArgs[k] \in Images
  /\ \A k \in DOMAIN fileStage : fileStage[k] \in Created
  /\ \A k \in DOMAIN freed : k \in Pids /\ freed[k] \in Images
  /\ version \in [Images -> Nat] /\ born \in Nat /\ reserved \in Nat
  /\ traced \in [Pids -> [sure : BOOLEAN, exec : Nat]]

\* A thread belongs to a process that exists, an id of a leader to its own
\* only, and a process that is between the removal of its slot and its record
\* has one thread, which is in the probe.
ThreadsOfProcesses ==
  /\ \A t \in Threads : owner[t] # None => proc[owner[t]] # None
  /\ \A p \in Pids : owner[p] \in {p, None}
  /\ \A p \in DOMAIN freed :
       /\ owner[p] = p /\ call[p] = [name |-> "emit"]
       /\ \A t \in Threads : owner[t] = p => t = p

RecordsAreWhole ==
  /\ ring \in Seq(RingRecord)
  /\ \A i \in 1 .. Len(ring) : ring[i].kind = "exec" => ring[i].what \in Images
  /\ mode = "hash" => ring # <<>> /\ ring[1].kind = "exec"

KernelInv == KernelTypes /\ ThreadsOfProcesses /\ RecordsAreWhole

-----------------------------------------------------------------------------
\* What the builder knows p by, nothing or one identity, and what it will once it
\* has taken the first n records of r: what the last exec or exit of p among them
\* leaves, or else what it knows.
Known(p) == IF p \in DOMAIN parents THEN {parents[p]} ELSE {}
Identifies(rec, p) == rec.pid = p /\ rec.kind \in {"exec", "exit"}
Leaves(rec) == IF rec.kind = "exec" THEN {[guid |-> rec.n, image |-> rec.what]} ELSE {}
After(r, known, p, n, id) ==
  /\ (\A j \in 1 .. n : ~Identifies(r[j], p)) => known = id
  /\ \A j \in 1 .. n :
       Identifies(r[j], p) /\ (\A k \in j + 1 .. n : ~Identifies(r[k], p)) => Leaves(r[j]) = id

\* What a process should be known by that left the exec record of this number, if
\* any, and runs this image.
Owed(exec, image) == IF exec # 0 THEN {[guid |-> exec, image |-> image]} ELSE {}

\* Every record meets the identity it should be sent with, and the builder that
\* has taken them all knows each process by what the probes think it does.
RecordsMeetTheirIdentity ==
  \A i \in 1 .. Len(ring) : ring[i].sure =>
    IF ring[i].kind = "exec" THEN ring[i].exec = ring[i].n /\ ring[i].what = ring[i].ran
    ELSE After(ring, Known(ring[i].pid), ring[i].pid, i - 1, Owed(ring[i].exec, ring[i].ran))

TracesAreTheRing ==
  \A p \in Pids \ DOMAIN freed : traced[p].sure =>
    /\ traced[p].exec # 0 => owner[p] = p
    /\ After(ring, Known(p), p, Len(ring), Owed(traced[p].exec, proc[p]))

IdentityInv ==
  /\ IdentityIsTheCallers
  /\ mode # "panicked" => RecordsMeetTheirIdentity /\ TracesAreTheRing

-----------------------------------------------------------------------------
\* No mtime that the collector holds is later than that of the file.
HashInv ==
  /\ mode = "hash" =>
       /\ hashing.path \in Images /\ hashing.mtime <= version[hashing.path]
       /\ hashing.mtime \in Nat
  /\ \A f \in DOMAIN hashes :
       f \in Images /\ hashes[f].mtime \in Nat /\ hashes[f].mtime <= version[f]
  /\ HashesAreOfTheContent

-----------------------------------------------------------------------------
\* A staged path is the one that was there or the new one.
LEMMA StagedPaths ==
  ASSUME NEW map, NEW k, NEW v, NEW m \in Stage(map, k, v), NEW x \in DOMAIN m
  PROVE  m[x] = v \/ (x \in DOMAIN map /\ m[x] = map[x])
BY DEF Stage, With, Without

\* The record of a process that exists is a whole one.
LEMMA WholeRecord ==
  ASSUME KernelTypes, NEW p \in Pids, proc[p] # None,
         NEW kind \in {"exec", "exit", "net", "file", "dns"}, NEW what \in Texts
  PROVE  /\ Record(kind, p, what) \in RingRecord
         /\ Record(kind, p, what).kind = kind /\ Record(kind, p, what).what = what
         /\ Record(kind, p, what).pid = p
         /\ Record(kind, p, what).n = reserved + 1 /\ Record(kind, p, what).ran = proc[p]
         /\ Record(kind, p, what).sure = traced[p].sure
         /\ Record(kind, p, what).exec = traced[p].exec
<1>1. proc[p] \in Images /\ reserved + 1 \in Nat \ {0} BY DEF KernelTypes
<1>2. traced[p] \in [sure : BOOLEAN, exec : Nat] BY DEF KernelTypes
<1> QED BY <1>1, <1>2 DEF Record, RingRecord

\* A record more leaves a ring of whole records whole.
LEMMA ReserveKeepsRecordsWhole ==
  ASSUME RecordsAreWhole, NEW rec \in RingRecord, rec.kind = "exec" => rec.what \in Images,
         Reserve(rec), mode' = mode
  PROVE  RecordsAreWhole'
<1>1. CASE ring' = ring BY <1>1 DEF RecordsAreWhole
<1>2. CASE ring' = Append(ring, rec)
  <2>1. ring' \in Seq(RingRecord) /\ Len(ring') = Len(ring) + 1 /\ Len(ring) \in Nat
    BY <1>2 DEF RecordsAreWhole
  <2>2. \A i \in 1 .. Len(ring) : ring'[i] = ring[i]
    BY <1>2 DEF RecordsAreWhole
  <2>3. ring'[Len(ring) + 1] = rec BY <1>2 DEF RecordsAreWhole
  <2>4. ASSUME NEW i \in 1 .. Len(ring'), ring'[i].kind = "exec" PROVE ring'[i].what \in Images
    <3>1. CASE i \in 1 .. Len(ring) BY <3>1, <2>2, <2>4 DEF RecordsAreWhole
    <3>2. CASE i = Len(ring) + 1 BY <3>2, <2>3, <2>4
    <3> QED BY <3>1, <3>2, <2>1
  <2>5. mode = "hash" => ring' # <<>> /\ ring'[1].kind = "exec"
    BY <2>1, <2>2 DEF RecordsAreWhole
  <2> QED BY <2>1, <2>4, <2>5 DEF RecordsAreWhole
<1> QED BY <1>1, <1>2 DEF Reserve

\* And the count of records is one, too.
LEMMA ReserveCounts ==
  ASSUME reserved \in Nat, NEW rec, Reserve(rec)
  PROVE  reserved' \in Nat
BY DEF Reserve

\* So does a record less.
LEMMA TailKeepsRecordsWhole ==
  ASSUME RecordsAreWhole, ring # <<>>, ring' = Tail(ring), mode' # "hash"
  PROVE  RecordsAreWhole'
<1>1. /\ ring' \in Seq(RingRecord) /\ Len(ring') = Len(ring) - 1 /\ Len(ring) \in Nat
      /\ \A i \in 1 .. Len(ring') : ring'[i] = ring[i + 1]
  BY DEF RecordsAreWhole
<1> QED BY <1>1 DEF RecordsAreWhole

\* The actions of a kernel that leave what a process is alone.
LEMMA QuietCallsKeepKernelInv ==
  ASSUME KernelInv, EbpfAssumption, NEW t \in Threads,
         \/ CallFails(t) \/ ExitOpenat(t) \/ Connect(t) \/ \E q \in Queries : Send(t, q)
         \/ \E f \in Images : EnterExecve(t, f) \/ EnterExecveat(t, f)
         \/ \E f \in Created, creat \in BOOLEAN : EnterOpenat(t, f, creat)
  PROVE  KernelInv'
<1> DEFINE p == owner[t]
<1> USE DEF KernelInv
<1>1. Alive(t) /\ owner[t] \in Pids /\ proc[p] # None
  BY DEF CallFails, ExitOpenat, Connect, Send, EnterExecve, EnterExecveat, EnterOpenat, Calls,
         InUser, Alive, KernelTypes, ThreadsOfProcesses
<1>2. call[t] # [name |-> "emit"]
  BY DEF CallFails, ExitOpenat, Connect, Send, EnterExecve, EnterExecveat, EnterOpenat, Calls,
         InUser, Idle
<1>3. \A x \in DOMAIN freed : x # t BY <1>2 DEF ThreadsOfProcesses
<1>0. reserved' \in Nat /\ traced' = traced
  <2>1. reserved \in Nat BY DEF KernelTypes
  <2>2. reserved' = reserved \/ \E rec : Reserve(rec)
    BY DEF CallFails, ExitOpenat, Connect, Send, EnterExecve, EnterExecveat, EnterOpenat, history
  <2>3. reserved' \in Nat BY <2>1, <2>2, ReserveCounts
  <2>4. traced' = traced
    BY DEF CallFails, ExitOpenat, Connect, Send, EnterExecve, EnterExecveat, EnterOpenat, history
  <2> QED BY <2>3, <2>4
<1>4. CASE CallFails(t)
  BY <1>0, <1>1, <1>3, <1>4 DEF CallFails, KernelTypes, ThreadsOfProcesses, RecordsAreWhole, SystemCall
<1>5. CASE ExitOpenat(t)
  <2>1. RecordsAreWhole'
    <3>1. CASE p \in DOMAIN fileStage
      <4>1. fileStage[p] \in Texts BY <3>1 DEF KernelTypes, Texts
      <4> QED BY <1>1, <1>5, <3>1, <4>1, WholeRecord, ReserveKeepsRecordsWhole DEF ExitOpenat
    <3>2. CASE p \notin DOMAIN fileStage BY <1>5, <3>2 DEF ExitOpenat, RecordsAreWhole
    <3> QED BY <3>1, <3>2
  <2>2. \A k \in DOMAIN fileStage' : fileStage'[k] \in Created
    BY <1>5 DEF ExitOpenat, Without, KernelTypes
  <2> QED BY <1>0, <1>1, <1>3, <1>5, <2>1, <2>2
      DEF ExitOpenat, KernelTypes, ThreadsOfProcesses, SystemCall
<1>6. CASE Connect(t)
  <2>1. RecordsAreWhole'
    BY <1>1, <1>6, WholeRecord, ReserveKeepsRecordsWhole DEF Connect, Texts
  <2> QED BY <1>0, <1>6, <2>1 DEF Connect, KernelTypes, ThreadsOfProcesses, kernel
<1>7. CASE \E q \in Queries : Send(t, q)
  <2>1. PICK q \in Queries : Send(t, q) BY <1>7
  <2>2. RecordsAreWhole'
    BY <1>1, <2>1, WholeRecord, ReserveKeepsRecordsWhole DEF Send, Texts
  <2> QED BY <1>0, <2>1, <2>2 DEF Send, KernelTypes, ThreadsOfProcesses, kernel
<1>8. CASE \E f \in Images : EnterExecve(t, f)
  <2>1. PICK f \in Images : EnterExecve(t, f) BY <1>8
  <2>2. \A k \in DOMAIN execArgs' : execArgs'[k] \in Images
    BY <2>1, StagedPaths DEF EnterExecve, KernelTypes
  <2>3. DOMAIN freed' = DOMAIN freed /\ \A k \in DOMAIN freed' : freed'[k] \in Images
    BY <2>1 DEF EnterExecve, KernelTypes
  <2>4. KernelTypes'
    BY <1>0, <2>1, <2>2, <2>3 DEF EnterExecve, KernelTypes, SystemCall
  <2>5. ThreadsOfProcesses' BY <1>3, <2>1, <2>3 DEF EnterExecve, ThreadsOfProcesses
  <2>6. RecordsAreWhole' BY <2>1 DEF EnterExecve, RecordsAreWhole
  <2> QED BY <2>4, <2>5, <2>6
<1>9. CASE \E f \in Images : EnterExecveat(t, f)
  BY <1>0, <1>3, <1>9 DEF EnterExecveat, KernelTypes, ThreadsOfProcesses, SystemCall, RecordsAreWhole
<1>10. CASE \E f \in Created, creat \in BOOLEAN : EnterOpenat(t, f, creat)
  <2>1. PICK f \in Created, creat \in BOOLEAN : EnterOpenat(t, f, creat) BY <1>10
  <2>2. \A k \in DOMAIN fileStage' : fileStage'[k] \in Created
    BY <2>1, StagedPaths DEF EnterOpenat, KernelTypes
  <2> QED BY <1>0, <1>3, <2>1, <2>2
      DEF EnterOpenat, KernelTypes, ThreadsOfProcesses, SystemCall, RecordsAreWhole
<1> QED BY <1>4, <1>5, <1>6, <1>7, <1>8, <1>9, <1>10

\* The actions that change what a process is.
LEMMA ProcessChangesKeepKernelInv ==
  ASSUME KernelInv, EbpfAssumption,
         \/ \E t \in Threads : Exec(t) \/ Exit(t)
         \/ \E t \in Threads, p \in Pids : Fork(t, p)
         \/ \E t \in Threads, new \in Tids : Clone(t, new)
         \/ \E p \in Pids : EmitExec(p)
  PROVE  KernelInv'
<1> USE DEF KernelInv
<1>1. CASE \E t \in Threads : Exec(t)
  <2>1. PICK t \in Threads : Exec(t) BY <1>1
  <2> DEFINE p == owner[t]
  <2>2. p \in Pids /\ proc[p] # None /\ proc[p] \in Images /\ Alive(t) /\ call[t].name = "exec"
    BY <2>1 DEF Exec, Alive, KernelTypes, ThreadsOfProcesses
  <2>3. call[t].file \in Images BY <2>2 DEF KernelTypes, SystemCall, Idle
  <2>4. p \notin DOMAIN freed BY <2>2 DEF ThreadsOfProcesses
  <2>5. /\ owner' = [x \in Threads |-> IF x = p THEN p ELSE IF owner[x] = p THEN None ELSE owner[x]]
        /\ proc' = [proc EXCEPT ![p] = call[t].file]
        /\ UNCHANGED <<fileStage, ring, mode, version, born, reserved>>
    BY <2>1 DEF Exec
  <2>6. /\ proc'[p] \in Images /\ proc'[p] # None
        /\ \A q \in Pids \ {p} : proc'[q] = proc[q]
        /\ proc' \in [Pids -> Images \cup {None}]
    BY <2>2, <2>3, <2>5, EbpfAssumption DEF KernelTypes, EbpfAssumption
  <2>7. /\ p \in DOMAIN freed' => call'[p] = [name |-> "emit"] /\ freed'[p] \in Images
        /\ \A q \in DOMAIN freed' : q # p => q \in DOMAIN freed /\ freed'[q] = freed[q]
        /\ \A q \in DOMAIN freed : call'[q] = call[q]
        /\ \A k \in DOMAIN execArgs' : execArgs'[k] \in Images
        /\ call' \in [Threads -> SystemCall]
        /\ traced' \in [Pids -> [sure : BOOLEAN, exec : Nat]]
    <3> DEFINE others == [x \in Threads |-> IF owner[x] = p THEN Idle ELSE call[x]]
    <3>1. others \in [Threads -> SystemCall] BY DEF KernelTypes, SystemCall
    <3>2. \A q \in DOMAIN freed : q \in Threads /\ others[q] = call[q] /\ q # p
      BY <2>4 DEF ThreadsOfProcesses, Threads, KernelTypes
    <3>3. p \in Threads BY <2>2 DEF Threads
    <3>4. CASE p \in DOMAIN execArgs
      <4>1. /\ freed' = With(freed, p, execArgs[p]) /\ execArgs' = Without(execArgs, p)
            /\ call' = [others EXCEPT ![p] = [name |-> "emit"]] /\ UNCHANGED traced
        BY <2>1, <3>4 DEF Exec
      <4> HIDE DEF others
      <4> QED BY <3>1, <3>2, <3>3, <3>4, <4>1 DEF With, Without, KernelTypes, SystemCall
    <3>5. CASE p \notin DOMAIN execArgs
      <4>1. /\ call' = others /\ traced' = [traced EXCEPT ![p] = [sure |-> FALSE, exec |-> 0]]
            /\ UNCHANGED <<freed, execArgs>>
        BY <2>1, <3>5 DEF Exec
      <4>2. traced' \in [Pids -> [sure : BOOLEAN, exec : Nat]]
        BY <2>2, <4>1 DEF KernelTypes
      <4> HIDE DEF others
      <4> QED BY <2>4, <3>1, <3>2, <4>1, <4>2 DEF KernelTypes
    <3> QED BY <3>4, <3>5
  <2>8. KernelTypes'
    <3>1. owner' \in [Threads -> Pids \cup {None}] BY <2>2, <2>5 DEF KernelTypes
    <3>2. /\ \A k \in DOMAIN fileStage' : fileStage'[k] \in Created
          /\ version' \in [Images -> Nat] /\ born' \in Nat /\ reserved' \in Nat
      BY <2>5 DEF KernelTypes
    <3>3. \A k \in DOMAIN freed' : k \in Pids /\ freed'[k] \in Images
      BY <2>2, <2>7 DEF KernelTypes
    <3> HIDE DEF p
    <3> QED BY <2>6, <2>7, <3>1, <3>2, <3>3 DEF KernelTypes
  <2>9. ThreadsOfProcesses'
    <3>1. \A x \in Threads : owner'[x] # None => proc'[owner'[x]] # None
      BY <2>2, <2>5, <2>6 DEF KernelTypes, ThreadsOfProcesses
    <3>2. \A q \in Pids : owner'[q] \in {q, None}
      BY <2>2, <2>5 DEF ThreadsOfProcesses, Threads
    <3>3. ASSUME NEW q \in DOMAIN freed'
          PROVE  /\ owner'[q] = q /\ call'[q] = [name |-> "emit"]
                 /\ \A x \in Threads : owner'[x] = q => x = q
      <4>1. CASE q = p
        <5>1. owner'[p] = p /\ \A x \in Threads : owner'[x] = p => x = p
          BY <2>2, <2>5, EbpfAssumption DEF Threads, EbpfAssumption
        <5> QED BY <2>7, <3>3, <4>1, <5>1
      <4>2. CASE q # p
        <5>1. q \in DOMAIN freed /\ owner[q] = q BY <2>7, <3>3, <4>2 DEF ThreadsOfProcesses
        <5>2. q \in Threads BY <5>1 DEF KernelTypes, Threads
        <5>3. owner'[q] = q /\ \A x \in Threads : owner'[x] = q => x = q
          BY <2>2, <2>5, <4>2, <5>1, <5>2 DEF ThreadsOfProcesses, KernelTypes, EbpfAssumption
        <5> QED BY <2>7, <5>1, <5>3 DEF ThreadsOfProcesses
      <4> QED BY <4>1, <4>2
    <3> QED BY <3>1, <3>2, <3>3 DEF ThreadsOfProcesses
  <2> QED BY <2>5, <2>8, <2>9 DEF RecordsAreWhole
<1>2. CASE \E t \in Threads : Exit(t)
  <2>1. PICK t \in Threads : Exit(t) BY <1>2
  <2> DEFINE p == owner[t]
             last == \A x \in Threads \ {t} : owner[x] # p
  <2>2. /\ p \in Pids /\ proc[p] # None /\ p # None /\ p \in Threads
        /\ IsLeader(t) => p \notin DOMAIN freed
    BY <2>1 DEF Exit, InUser, Alive, KernelTypes, ThreadsOfProcesses, Threads
  <2>3. /\ owner' = [owner EXCEPT ![t] = None]
        /\ proc' = IF last THEN [proc EXCEPT ![p] = None] ELSE proc
        /\ UNCHANGED <<call, execArgs, fileStage, freed, version, born>>
    BY <2>1 DEF Exit
  <2>4. \A q \in Pids : proc[q] # None /\ ~(q = p /\ last) => proc'[q] # None
    <3> HIDE DEF last, p
    <3> QED BY <2>3 DEF KernelTypes
  <2>5. proc' \in [Pids -> Images \cup {None}]
    <3> HIDE DEF last, p
    <3> QED BY <2>3 DEF KernelTypes
  <2>6. traced' \in [Pids -> [sure : BOOLEAN, exec : Nat]]
    <3>1. CASE IsLeader(t)
      <4>1. PICK now \in BOOLEAN : traced' = [traced EXCEPT ![p] = [sure |-> now, exec |-> 0]]
        <5>1. (HasRoom \/ (traced[p].sure /\ traced[p].exec = 0)) \in BOOLEAN OBVIOUS
        <5> QED BY <2>1, <3>1, <5>1 DEF Exit
      <4>2. [sure |-> now, exec |-> 0] \in [sure : BOOLEAN, exec : Nat] OBVIOUS
      <4> QED BY <4>1, <4>2 DEF KernelTypes
    <3>2. CASE ~IsLeader(t) BY <2>1, <3>2 DEF Exit, history, KernelTypes
    <3> QED BY <3>1, <3>2
  <2>7. RecordsAreWhole'
    <3>1. CASE IsLeader(t)
      <4>1. Reserve(Record("exit", p, None)) /\ mode' = mode BY <2>1, <3>1 DEF Exit
      <4> QED BY <2>2, <4>1, WholeRecord, ReserveKeepsRecordsWhole DEF Texts
    <3>2. CASE ~IsLeader(t) BY <2>1, <3>2 DEF Exit, RecordsAreWhole
    <3> QED BY <3>1, <3>2
  <2>8. KernelTypes'
    <3>1. reserved' \in Nat
      BY <2>1, ReserveCounts DEF Exit, history, KernelTypes
    <3> QED BY <2>2, <2>3, <2>5, <2>6, <3>1 DEF KernelTypes
  <2>9. ThreadsOfProcesses'
    <3>1. ASSUME NEW x \in Threads, owner'[x] # None PROVE proc'[owner'[x]] # None
      <4>1. x # t /\ owner'[x] = owner[x] BY <2>3, <3>1 DEF KernelTypes
      <4>2. ~(owner[x] = p /\ last) BY <4>1
      <4>3. owner[x] \in Pids /\ proc[owner[x]] # None
        BY <3>1, <4>1 DEF KernelTypes, ThreadsOfProcesses
      <4> HIDE DEF last, p
      <4> QED BY <2>4, <4>1, <4>2, <4>3
    <3>2. \A q \in Pids : owner'[q] \in {q, None}
      BY <2>3 DEF ThreadsOfProcesses, Threads, KernelTypes
    <3>3. \A q \in DOMAIN freed : q # t
      BY <2>2 DEF ThreadsOfProcesses, IsLeader, KernelTypes
    <3>4. ASSUME NEW q \in DOMAIN freed PROVE owner'[q] = q
      BY <2>3, <3>3 DEF ThreadsOfProcesses, KernelTypes, Threads
    <3>5. \A q \in DOMAIN freed : \A x \in Threads : owner'[x] = q => x = q
      BY <2>3 DEF ThreadsOfProcesses, KernelTypes, EbpfAssumption
    <3> QED BY <2>3, <3>1, <3>2, <3>4, <3>5 DEF ThreadsOfProcesses
  <2> QED BY <2>7, <2>8, <2>9
<1>3. CASE \E t \in Threads, p \in Pids : Fork(t, p)
  <2>1. PICK t \in Threads, p \in Pids : Fork(t, p) BY <1>3
  <2>2. /\ owner[t] \in Pids /\ proc[owner[t]] \in Images
        /\ proc[p] = None /\ p \in Threads /\ born + 1 \in Nat
    BY <2>1 DEF Fork, Alive, KernelTypes, ThreadsOfProcesses, Threads
  <2>3. owner[p] = None /\ p \notin DOMAIN freed
    BY <2>2 DEF ThreadsOfProcesses, EbpfAssumption
  <2>4. /\ owner' = [owner EXCEPT ![p] = p]
        /\ proc' = [proc EXCEPT ![p] = proc[owner[t]]]
        /\ born' = born + 1
        /\ UNCHANGED <<call, execArgs, fileStage, freed, ring, mode, version, history>>
    BY <2>1 DEF Fork
  <2>5. proc'[p] \in Images /\ \A q \in Pids \ {p} : proc'[q] = proc[q]
    BY <2>2, <2>4 DEF KernelTypes
  <2>6. KernelTypes' BY <2>2, <2>4, <2>5 DEF KernelTypes, history
  <2>7. ThreadsOfProcesses'
    <3>1. \A x \in Threads : owner'[x] # None => proc'[owner'[x]] # None
      BY <2>2, <2>4, <2>5, EbpfAssumption DEF KernelTypes, ThreadsOfProcesses, EbpfAssumption
    <3>2. \A q \in Pids : owner'[q] \in {q, None}
      BY <2>4 DEF ThreadsOfProcesses, Threads, KernelTypes
    <3>3. \A q \in DOMAIN freed : owner'[q] = q /\ \A x \in Threads : owner'[x] = q => x = q
      BY <2>3, <2>4 DEF ThreadsOfProcesses, KernelTypes, Threads
    <3> QED BY <2>4, <3>1, <3>2, <3>3 DEF ThreadsOfProcesses
  <2> QED BY <2>4, <2>6, <2>7 DEF RecordsAreWhole
<1>4. CASE \E t \in Threads, new \in Tids : Clone(t, new)
  <2>1. PICK t \in Threads, new \in Tids : Clone(t, new) BY <1>4
  <2>2. /\ owner[t] \in Pids /\ proc[owner[t]] # None /\ new \in Threads \ Pids
        /\ owner[new] = None /\ call[t] = Idle
    BY <2>1 DEF Clone, Calls, InUser, Alive, KernelTypes, ThreadsOfProcesses, Threads,
                EbpfAssumption
  <2>3. owner[t] \notin DOMAIN freed
    BY <2>2 DEF ThreadsOfProcesses, Idle
  <2>4. /\ owner' = [owner EXCEPT ![new] = owner[t]]
        /\ UNCHANGED <<call, proc, execArgs, fileStage, freed, ring, mode, version, born, history>>
    BY <2>1 DEF Clone
  <2>5. KernelTypes' BY <2>2, <2>4 DEF KernelTypes, history
  <2>6. ThreadsOfProcesses'
    <3>1. \A x \in Threads : owner'[x] # None => proc'[owner'[x]] # None
      BY <2>2, <2>4 DEF KernelTypes, ThreadsOfProcesses
    <3>2. \A q \in Pids : owner'[q] \in {q, None}
      BY <2>2, <2>4 DEF ThreadsOfProcesses, Threads, KernelTypes
    <3>3. \A q \in DOMAIN freed : owner'[q] = q /\ \A x \in Threads : owner'[x] = q => x = q
      BY <2>2, <2>3, <2>4 DEF ThreadsOfProcesses, KernelTypes, Threads
    <3> QED BY <2>4, <3>1, <3>2, <3>3 DEF ThreadsOfProcesses
  <2> QED BY <2>4, <2>5, <2>6 DEF RecordsAreWhole
<1>5. CASE \E p \in Pids : EmitExec(p)
  <2>1. PICK p \in Pids : EmitExec(p) BY <1>5
  <2> DEFINE rec == [Record("exec", p, freed[p]) EXCEPT !.sure = (freed[p] = proc[p]),
                                                      !.exec = reserved + 1]
  <2>2. /\ p \in DOMAIN freed /\ freed[p] \in Images /\ proc[p] # None
        /\ owner[p] = p /\ p \in Threads
    <3>1. p \in DOMAIN freed /\ p \in Threads BY <2>1 DEF EmitExec, Threads
    <3>2. freed[p] \in Images /\ owner[p] = p BY <3>1 DEF KernelTypes, ThreadsOfProcesses
    <3>3. p # None BY EbpfAssumption DEF EbpfAssumption
    <3> QED BY <3>1, <3>2, <3>3 DEF ThreadsOfProcesses
  <2>3. Record("exec", p, freed[p]) \in RingRecord /\ Record("exec", p, freed[p]).what \in Images
    BY <2>2, WholeRecord DEF Texts
  <2>4. rec \in RingRecord /\ rec.what \in Images
    <3>1. reserved + 1 \in Nat BY DEF KernelTypes
    <3> QED BY <2>3, <3>1 DEF RingRecord
  <2>5. Reserve(rec) /\ mode' = mode BY <2>1 DEF EmitExec
  <2>6. RecordsAreWhole'
    <3> HIDE DEF rec
    <3> QED BY <2>4, <2>5, ReserveKeepsRecordsWhole
  <2>7. /\ \E good \in BOOLEAN, n \in {0, reserved + 1} :
             traced' = [traced EXCEPT ![p] = [sure |-> good, exec |-> n]]
        /\ freed' = Without(freed, p) /\ call' = [call EXCEPT ![p] = Idle]
        /\ UNCHANGED <<owner, proc, execArgs, fileStage, version, born>>
    BY <2>1 DEF EmitExec
  <2>8. traced' \in [Pids -> [sure : BOOLEAN, exec : Nat]]
    BY <2>7 DEF KernelTypes
  <2>9. call' \in [Threads -> SystemCall] BY <2>7 DEF KernelTypes, SystemCall
  <2>10. KernelTypes'
    <3>1. reserved' \in Nat BY <2>5, ReserveCounts DEF KernelTypes
    <3> QED BY <2>7, <2>8, <2>9, <3>1 DEF KernelTypes, Without
  <2>11. ThreadsOfProcesses' BY <2>7 DEF ThreadsOfProcesses, Without, KernelTypes
  <2> QED BY <2>6, <2>10, <2>11
<1> QED BY <1>1, <1>2, <1>3, <1>4, <1>5

\* Types, threads and records stay whole in every step.
LEMMA KernelInvStep ==
  ASSUME KernelInv, EbpfAssumption, Next
  PROVE  KernelInv'
<1> USE DEF KernelInv
<1>1. CASE Kernel
  <2>1. CASE \E f \in Images : Rewrite(f)
    BY <2>1 DEF Rewrite, kernel, history, KernelTypes, ThreadsOfProcesses, RecordsAreWhole
  <2> QED BY <1>1, <2>1, QuietCallsKeepKernelInv, ProcessChangesKeepKernelInv DEF Kernel
<1>2. CASE Collector \/ Stop
  <2>1. UNCHANGED <<kernel, version, born, history>>
    BY <1>2 DEF Collector, Stop, New, Wake, Drained, ReceiverGone, BuildNet, BuildFile, BuildDns,
                BuildExit, BuildExec, Builds, ReadImage
  <2>2. RecordsAreWhole'
    <3>1. ASSUME mode' # "hash", ring' = ring \/ (ring # <<>> /\ ring' = Tail(ring))
          PROVE  RecordsAreWhole'
      BY <3>1, TailKeepsRecordsWhole DEF RecordsAreWhole
    <3>2. CASE New \/ Wake \/ Drained \/ ReceiverGone
      BY <3>1, <3>2 DEF New, Wake, Drained, ReceiverGone
    <3>3. CASE BuildNet \/ BuildFile \/ BuildDns
      BY <3>1, <3>3 DEF BuildNet, BuildFile, BuildDns, Builds, SendEvent
    <3>4. CASE BuildExit BY <3>1, <3>4 DEF BuildExit, Builds, SendEvent
    <3>5. CASE BuildExec
      <4>1. CASE mode' = "hash"
        BY <3>5, <4>1 DEF BuildExec, Builds, Finish, SendEvent, RecordsAreWhole
      <4>2. CASE mode' # "hash" BY <3>1, <3>5, <4>2 DEF BuildExec, Builds, Finish, SendEvent
      <4> QED BY <4>1, <4>2
    <3>6. CASE ReadImage
      <4>1. ring # <<>> BY <3>6 DEF ReadImage, RecordsAreWhole
      <4> QED BY <3>1, <3>6, <4>1 DEF ReadImage, Finish, SendEvent
    <3>7. CASE Stop BY <3>7 DEF Stop, RecordsAreWhole
    <3> QED BY <1>2, <3>2, <3>3, <3>4, <3>5, <3>6, <3>7 DEF Collector
  <2> QED BY <2>1, <2>2 DEF kernel, history, KernelTypes, ThreadsOfProcesses
<1> QED BY <1>1, <1>2 DEF Next

-----------------------------------------------------------------------------
\* A record that comes last says nothing of what was known before it.
LEMMA AppendKeepsAfter ==
  ASSUME NEW S, NEW r \in Seq(S), NEW rec \in S, NEW known, NEW p, NEW n \in 0 .. Len(r), NEW id,
         After(r, known, p, n, id)
  PROVE  After(Append(r, rec), known, p, n, id)
<1>1. \A j \in 1 .. n : Append(r, rec)[j] = r[j] OBVIOUS
<1> QED BY <1>1 DEF After

\* One that does not identify p leaves p known as it was.
LEMMA AppendOtherKeepsAfter ==
  ASSUME NEW S, NEW r \in Seq(S), NEW rec \in S, NEW known, NEW p, NEW id,
         ~Identifies(rec, p), After(r, known, p, Len(r), id)
  PROVE  After(Append(r, rec), known, p, Len(Append(r, rec)), id)
<1> DEFINE a == Append(r, rec)
<1>1. /\ Len(r) \in Nat /\ Len(a) = Len(r) + 1
      /\ \A j \in 1 .. Len(r) : a[j] = r[j]
      /\ a[Len(r) + 1] = rec
  OBVIOUS
<1> HIDE DEF a
<1>2. ASSUME \A j \in 1 .. Len(a) : ~Identifies(a[j], p) PROVE known = id
  BY <1>1, <1>2 DEF After
<1>3. ASSUME NEW j \in 1 .. Len(a), Identifies(a[j], p),
             \A k \in j + 1 .. Len(a) : ~Identifies(a[k], p)
      PROVE  Leaves(a[j]) = id
  <2>1. j \in 1 .. Len(r) BY <1>1, <1>3
  <2> QED BY <1>1, <1>3, <2>1 DEF After
<1>4. After(a, known, p, Len(a), id) BY <1>2, <1>3 DEF After
<1> QED BY <1>4 DEF a

\* One that does leaves p known by it.
LEMMA AppendIdentifies ==
  ASSUME NEW S, NEW r \in Seq(S), NEW rec \in S, NEW known, NEW p,
         Identifies(rec, p)
  PROVE  After(Append(r, rec), known, p, Len(Append(r, rec)), Leaves(rec))
<1> DEFINE a == Append(r, rec)
<1>1. Len(r) \in Nat /\ Len(a) = Len(r) + 1 /\ a[Len(a)] = rec OBVIOUS
<1> HIDE DEF a
<1>2. ASSUME \A j \in 1 .. Len(a) : ~Identifies(a[j], p) PROVE known = Leaves(rec)
  BY <1>1, <1>2
<1>3. ASSUME NEW j \in 1 .. Len(a), Identifies(a[j], p),
             \A k \in j + 1 .. Len(a) : ~Identifies(a[k], p)
      PROVE  Leaves(a[j]) = Leaves(rec)
  <2>1. j = Len(a) BY <1>1, <1>3
  <2> QED BY <1>1, <2>1
<1>4. After(a, known, p, Len(a), Leaves(rec)) BY <1>2, <1>3 DEF After
<1> QED BY <1>4 DEF a

\* A builder that takes the first record and learns what it says, knows after
\* the others what it would have known.
LEMMA TakingOneKeepsAfter ==
  ASSUME NEW S, NEW r \in Seq(S), r # <<>>, NEW known, NEW then, NEW p, NEW n \in 1 .. Len(r),
         NEW id, After(r, known, p, n, id),
         then = IF Identifies(r[1], p) THEN Leaves(r[1]) ELSE known
  PROVE  After(Tail(r), then, p, n - 1, id)
<1> DEFINE a == Tail(r)
<1>1. /\ Len(r) \in Nat \ {0} /\ Len(a) = Len(r) - 1
      /\ \A j \in 1 .. Len(a) : a[j] = r[j + 1]
  OBVIOUS
<1> HIDE DEF a
<1>2. ASSUME \A j \in 1 .. n - 1 : ~Identifies(a[j], p) PROVE then = id
  <2>1. \A j \in 2 .. n : ~Identifies(r[j], p)
    <3>1. ASSUME NEW j \in 2 .. n PROVE ~Identifies(r[j], p)
      <4>1. j - 1 \in 1 .. n - 1 /\ j - 1 \in 1 .. Len(a) /\ (j - 1) + 1 = j BY <1>1
      <4> QED BY <1>1, <1>2, <4>1
    <3> QED BY <3>1
  <2>2. CASE Identifies(r[1], p) BY <2>1, <2>2 DEF After
  <2>3. CASE ~Identifies(r[1], p) BY <2>1, <2>3 DEF After
  <2> QED BY <2>2, <2>3
<1>3. ASSUME NEW j \in 1 .. n - 1, Identifies(a[j], p),
             \A k \in j + 1 .. n - 1 : ~Identifies(a[k], p)
      PROVE  Leaves(a[j]) = id
  <2>1. a[j] = r[j + 1] /\ j + 1 \in 1 .. n BY <1>1
  <2>2. ASSUME NEW k \in (j + 1) + 1 .. n PROVE ~Identifies(r[k], p)
    <3>1. k - 1 \in j + 1 .. n - 1 /\ k - 1 \in 1 .. Len(a) /\ (k - 1) + 1 = k BY <1>1
    <3> QED BY <1>1, <1>3, <3>1
  <2> QED BY <1>3, <2>1, <2>2 DEF After
<1>4. After(a, then, p, n - 1, id) BY <1>2, <1>3 DEF After
<1> QED BY <1>4 DEF a

\* What a record has to meet when the builder comes to it: see Record.
Meets(rec, known, r, n) ==
  rec.sure =>
    IF rec.kind = "exec" THEN rec.exec = rec.n /\ rec.what = rec.ran
    ELSE After(r, known, rec.pid, n, Owed(rec.exec, rec.ran))

\* A record that meets its identity keeps that of the others.
LEMMA ReserveKeepsIdentities ==
  ASSUME RecordsAreWhole, RecordsMeetTheirIdentity, NEW rec \in RingRecord, Reserve(rec),
         parents' = parents, Meets(rec, Known(rec.pid), ring, Len(ring))
  PROVE  RecordsMeetTheirIdentity'
<1>1. CASE ring' = ring BY <1>1 DEF RecordsMeetTheirIdentity, Known
<1>2. CASE ring' = Append(ring, rec)
  <2>1. /\ Len(ring') = Len(ring) + 1 /\ Len(ring) \in Nat
        /\ \A i \in 1 .. Len(ring) : ring'[i] = ring[i] /\ ring[i] \in RingRecord
        /\ ring'[Len(ring) + 1] = rec
    BY <1>2 DEF RecordsAreWhole
  <2>2. \A q : Known(q)' = Known(q) BY DEF Known
  <2>3. \A i \in 1 .. Len(ring) : Meets(ring[i], Known(ring[i].pid), ring, i - 1)
    BY DEF RecordsMeetTheirIdentity, Meets
  <2>4. ASSUME NEW x \in RingRecord, NEW n \in 0 .. Len(ring), Meets(x, Known(x.pid), ring, n)
        PROVE  Meets(x, Known(x.pid), ring', n)
    BY <1>2, <2>4, AppendKeepsAfter DEF Meets, RecordsAreWhole
  <2>5. ASSUME NEW i \in 1 .. Len(ring')
        PROVE  Meets(ring'[i], Known(ring'[i].pid), ring', i - 1)
    <3>1. CASE i \in 1 .. Len(ring)
      <4>1. i - 1 \in 0 .. Len(ring) BY <2>1, <3>1
      <4> QED BY <2>1, <2>3, <2>4, <3>1, <4>1
    <3>2. CASE i = Len(ring) + 1
      <4>1. i - 1 = Len(ring) /\ Len(ring) \in 0 .. Len(ring) BY <2>1, <3>2
      <4> QED BY <2>1, <2>4, <3>2, <4>1
    <3> QED BY <2>1, <3>1, <3>2
  <2> QED BY <2>2, <2>5 DEF RecordsMeetTheirIdentity, Meets
<1> QED BY <1>1, <1>2 DEF Reserve

\* The record of a process that exists and is not between its slot and its
\* record meets its identity: the probes know what the builder will.
LEMMA RecordsOfTheLivingMeet ==
  ASSUME KernelInv, TracesAreTheRing, NEW p \in Pids, p \notin DOMAIN freed, proc[p] # None,
         NEW kind \in {"exit", "net", "file", "dns"}, NEW what \in Texts
  PROVE  Meets(Record(kind, p, what), Known(p), ring, Len(ring))
<1>1. /\ Record(kind, p, what).kind = kind /\ Record(kind, p, what).pid = p
      /\ Record(kind, p, what).ran = proc[p]
      /\ Record(kind, p, what).sure = traced[p].sure
      /\ Record(kind, p, what).exec = traced[p].exec
  BY WholeRecord DEF KernelInv
<1> QED BY <1>1 DEF Meets, TracesAreTheRing

\* A record of p leaves what is traced of the others true.
LEMMA ReserveKeepsTraceOf ==
  ASSUME RecordsAreWhole, NEW rec \in RingRecord, Reserve(rec), NEW q, NEW known, NEW id,
         ~Identifies(rec, q), After(ring, known, q, Len(ring), id)
  PROVE  After(ring', known, q, Len(ring'), id)
<1>1. CASE ring' = ring BY <1>1
<1>2. CASE ring' = Append(ring, rec) BY <1>2, AppendOtherKeepsAfter DEF RecordsAreWhole
<1> QED BY <1>1, <1>2 DEF Reserve

\* The builder that takes a record and learns what it says is right about all.
LEMMA TakingOneKeepsIdentities ==
  ASSUME RecordsAreWhole, RecordsMeetTheirIdentity, TracesAreTheRing,
         ring # <<>>, ring' = Tail(ring), UNCHANGED <<owner, proc, freed, traced>>,
         \A p \in Pids : Known(p)' = IF Identifies(ring[1], p) THEN Leaves(ring[1]) ELSE Known(p)
  PROVE  RecordsMeetTheirIdentity' /\ TracesAreTheRing'
<1>1. /\ Len(ring) \in Nat \ {0} /\ Len(ring') = Len(ring) - 1 /\ ring \in Seq(RingRecord)
      /\ \A i \in 1 .. Len(ring') : ring'[i] = ring[i + 1] /\ ring[i + 1] \in RingRecord
  BY DEF RecordsAreWhole
<1>2. ASSUME NEW p \in Pids, NEW n \in 1 .. Len(ring), NEW id, After(ring, Known(p), p, n, id)
      PROVE  After(ring', Known(p)', p, n - 1, id)
  BY <1>1, <1>2, TakingOneKeepsAfter
<1>3. RecordsMeetTheirIdentity'
  <2>1. ASSUME NEW i \in 1 .. Len(ring'), NEW rec, rec = ring[i + 1], NEW p, p = rec.pid
        PROVE  ring'[i] = rec /\ p \in Pids /\ Meets(rec, Known(p)', ring', i - 1)
    <3>1. /\ ring'[i] = rec /\ rec \in RingRecord /\ p \in Pids /\ i + 1 \in 1 .. Len(ring)
          /\ (i + 1) - 1 = i /\ i \in 1 .. Len(ring)
      BY <1>1, <2>1 DEF RingRecord
    <3>2. Meets(rec, Known(p), ring, i)
      BY <2>1, <3>1 DEF RecordsMeetTheirIdentity, Meets
    <3>3. \A id : After(ring, Known(p), p, i, id) => After(ring', Known(p)', p, i - 1, id)
      BY <1>2, <3>1
    <3> QED BY <2>1, <3>1, <3>2, <3>3 DEF Meets
  <2>2. ASSUME NEW i \in 1 .. Len(ring')
        PROVE  Meets(ring'[i], Known(ring[i].pid)', ring', i - 1)
    <3>1. PICK p : p = ring[i + 1].pid OBVIOUS
    <3>2. ring'[i] = ring[i + 1] /\ Meets(ring'[i], Known(p)', ring', i - 1)
      BY <2>1, <3>1
    <3>3. Known(ring[i].pid)' = Known(p)' BY <3>1, <3>2 DEF Known
    <3> QED BY <3>2, <3>3
  <2>3. \A i \in 1 .. Len(ring') : Meets(ring'[i], Known(ring[i].pid)', ring', i - 1)
    BY <2>2
  <2> QED BY <2>3 DEF RecordsMeetTheirIdentity, Meets
<1>4. TracesAreTheRing'
  <2>1. \A p \in Pids : \A id : After(ring, Known(p), p, Len(ring), id) =>
                                  After(ring', Known(p)', p, Len(ring'), id)
    BY <1>1, <1>2
  <2> QED BY <2>1 DEF TracesAreTheRing
<1> QED BY <1>3, <1>4

-----------------------------------------------------------------------------
\* The calls that change no process: a record they reserve meets its identity.
LEMMA QuietCallsKeepIdentityInv ==
  ASSUME KernelInv, IdentityInv, EbpfAssumption, NEW t \in Threads,
         \/ CallFails(t) \/ ExitOpenat(t) \/ Connect(t) \/ \E q \in Queries : Send(t, q)
         \/ \E f \in Images : EnterExecve(t, f) \/ EnterExecveat(t, f)
         \/ \E f \in Created, creat \in BOOLEAN : EnterOpenat(t, f, creat)
  PROVE  IdentityInv'
<1> USE DEF KernelInv
<1> DEFINE p == owner[t]
<1>1. UNCHANGED <<owner, proc, traced, parents, mode, out>> /\ DOMAIN freed' = DOMAIN freed
  BY DEF CallFails, ExitOpenat, Connect, Send, EnterExecve, EnterExecveat, EnterOpenat, kernel,
         builder, history
<1>2. IdentityIsTheCallers' BY <1>1 DEF IdentityIsTheCallers, IdentityInv
<1>3. p \in Pids /\ proc[p] # None /\ call[t] # [name |-> "emit"]
  BY DEF CallFails, ExitOpenat, Connect, Send, EnterExecve, EnterExecveat, EnterOpenat, Calls,
         InUser, Alive, KernelTypes, ThreadsOfProcesses, Idle
<1>4. p \notin DOMAIN freed BY <1>3 DEF ThreadsOfProcesses
<1>5. \/ ring' = ring
      \/ \E kind \in {"net", "file", "dns"}, what \in Texts : Reserve(Record(kind, p, what))
  <2>1. CASE ExitOpenat(t) BY <2>1 DEF ExitOpenat, KernelTypes, Texts
  <2>2. CASE Connect(t) BY <2>2 DEF Connect, Texts
  <2>3. CASE \E q \in Queries : Send(t, q) BY <2>3 DEF Send, Texts
  <2> QED BY <2>1, <2>2, <2>3 DEF CallFails, EnterExecve, EnterExecveat, EnterOpenat
<1>6. ASSUME mode' # "panicked" PROVE RecordsMeetTheirIdentity' /\ TracesAreTheRing'
  <2>1. RecordsMeetTheirIdentity /\ TracesAreTheRing BY <1>1, <1>6 DEF IdentityInv
  <2>2. \A q : Known(q)' = Known(q) BY <1>1 DEF Known
  <2>3. CASE ring' = ring
    BY <1>1, <2>1, <2>2, <2>3 DEF RecordsMeetTheirIdentity, TracesAreTheRing
  <2>4. CASE \E kind \in {"net", "file", "dns"}, what \in Texts : Reserve(Record(kind, p, what))
    <3>1. PICK kind \in {"net", "file", "dns"}, what \in Texts : Reserve(Record(kind, p, what))
      BY <2>4
    <3> DEFINE rec == Record(kind, p, what)
    <3>2. rec \in RingRecord /\ rec.pid = p /\ rec.kind = kind BY <1>3, WholeRecord
    <3>3. Meets(rec, Known(p), ring, Len(ring))
      BY <1>3, <1>4, <2>1, RecordsOfTheLivingMeet
    <3> HIDE DEF rec
    <3>4. RecordsMeetTheirIdentity'
      BY <1>1, <2>1, <3>1, <3>2, <3>3, ReserveKeepsIdentities DEF rec
    <3>5. ASSUME NEW q \in Pids, NEW id, After(ring, Known(q), q, Len(ring), id)
          PROVE  After(ring', Known(q)', q, Len(ring'), id)
      <4>1. ~Identifies(rec, q) BY <3>2 DEF Identifies
      <4> QED BY <2>2, <3>1, <3>2, <3>5, <4>1, ReserveKeepsTraceOf DEF rec
    <3>6. TracesAreTheRing' BY <1>1, <2>1, <3>5 DEF TracesAreTheRing
    <3> QED BY <3>4, <3>6
  <2> QED BY <1>5, <2>3, <2>4
<1> QED BY <1>2, <1>6 DEF IdentityInv

\* What a step of the kernel has to show of the processes: that it leaves the
\* identity of those it does not trace anew as the probes know it.
LEMMA UntracedKeepTheirTrace ==
  ASSUME NEW p \in Pids, TracesAreTheRing, p \notin DOMAIN freed, traced'[p] = traced[p],
         traced[p].sure /\ traced[p].exec # 0 /\ owner[p] = p =>
           owner'[p] = p /\ proc'[p] = proc[p],
         \A id : After(ring, Known(p), p, Len(ring), id)
                   => After(ring', Known(p)', p, Len(ring'), id)
  PROVE  traced'[p].sure =>
           /\ traced'[p].exec # 0 => owner'[p] = p
           /\ After(ring', Known(p)', p, Len(ring'), Owed(traced'[p].exec, proc'[p]))
BY DEF TracesAreTheRing, Owed

\* An exec that is to be recorded is not traced before its record.
LEMMA ExecKeepsIdentityInv ==
  ASSUME KernelInv, IdentityInv, EbpfAssumption, NEW t \in Threads, Exec(t)
  PROVE  IdentityInv'
<1> USE DEF KernelInv
<1> DEFINE p == owner[t]
<1>1. /\ p \in Pids /\ UNCHANGED <<ring, parents, mode, out>>
      /\ owner' = [x \in Threads |-> IF x = p THEN p ELSE IF owner[x] = p THEN None ELSE owner[x]]
      /\ proc' = [proc EXCEPT ![p] = call[t].file]
  BY DEF Exec, Alive, KernelTypes, builder
<1>2. \/ /\ p \in DOMAIN freed' /\ traced' = traced
      \/ traced' = [traced EXCEPT ![p] = [sure |-> FALSE, exec |-> 0]]
  BY DEF Exec, With
<1>3. \A q \in DOMAIN freed : q \in DOMAIN freed' BY DEF Exec, With
<1>4. ASSUME mode' # "panicked" PROVE RecordsMeetTheirIdentity' /\ TracesAreTheRing'
  <2>1. RecordsMeetTheirIdentity /\ TracesAreTheRing BY <1>1, <1>4 DEF IdentityInv
  <2>2. \A q : Known(q)' = Known(q) BY <1>1 DEF Known
  <2>3. RecordsMeetTheirIdentity' BY <1>1, <2>1, <2>2 DEF RecordsMeetTheirIdentity
  <2>4. ASSUME NEW q \in Pids \ DOMAIN freed', traced'[q].sure
        PROVE  /\ q # p /\ q \notin DOMAIN freed /\ traced'[q] = traced[q]
               /\ owner[q] = q => owner'[q] = q
               /\ proc'[q] = proc[q]
    BY <1>1, <1>2, <1>3, <2>4, EbpfAssumption DEF KernelTypes, Threads
  <2>5. ASSUME NEW q \in Pids \ DOMAIN freed', traced'[q].sure
        PROVE  /\ traced'[q].exec # 0 => owner'[q] = q
               /\ After(ring', Known(q)', q, Len(ring'), Owed(traced'[q].exec, proc'[q]))
    <3>1. /\ traced[q].exec # 0 => owner[q] = q
          /\ After(ring, Known(q), q, Len(ring), Owed(traced[q].exec, proc[q]))
      BY <2>1, <2>4, <2>5 DEF TracesAreTheRing
    <3> QED BY <1>1, <2>2, <2>4, <2>5, <3>1
  <2>6. TracesAreTheRing' BY <2>5 DEF TracesAreTheRing
  <2> QED BY <2>3, <2>6
<1>5. IdentityIsTheCallers' BY <1>1 DEF IdentityIsTheCallers, IdentityInv
<1> QED BY <1>4, <1>5 DEF IdentityInv

\* The record of an exec says what the process runs now, or is not sure.
LEMMA EmitExecKeepsIdentityInv ==
  ASSUME KernelInv, IdentityInv, EbpfAssumption, NEW p \in Pids, EmitExec(p)
  PROVE  IdentityInv'
<1> USE DEF KernelInv
<1> DEFINE plain == Record("exec", p, freed[p])
           right == freed[p] = proc[p]
           rec == [plain EXCEPT !.sure = right, !.exec = reserved + 1]
           now == IF HasRoom /\ right THEN [sure |-> TRUE, exec |-> reserved + 1]
                  ELSE [sure |-> FALSE, exec |-> 0]
<1>1. /\ p \in DOMAIN freed /\ Reserve(rec) /\ UNCHANGED <<owner, proc, parents, mode, out>>
      /\ freed' = Without(freed, p)
      /\ traced' = [traced EXCEPT ![p] = now]
  BY DEF EmitExec, builder
<1>2. /\ owner[p] = p /\ proc[p] # None /\ freed[p] \in Texts /\ p \in Threads
      /\ reserved + 1 \in Nat
  <2>1. owner[p] = p /\ p \in Threads BY <1>1 DEF ThreadsOfProcesses, Threads
  <2>2. p # None BY EbpfAssumption DEF EbpfAssumption
  <2> QED BY <1>1, <2>1, <2>2 DEF ThreadsOfProcesses, KernelTypes, Texts
<1>3. /\ plain \in RingRecord /\ plain.kind = "exec" /\ plain.what = freed[p] /\ plain.pid = p
      /\ plain.n = reserved + 1 /\ plain.ran = proc[p]
  BY <1>2, WholeRecord
<1>4. /\ rec \in RingRecord /\ rec.kind = "exec" /\ rec.what = freed[p] /\ rec.pid = p
      /\ rec.n = reserved + 1 /\ rec.ran = proc[p]
      /\ rec.exec = rec.n /\ (rec.sure => freed[p] = proc[p])
  <2> HIDE DEF plain
  <2> QED BY <1>2, <1>3 DEF RingRecord
<1> HIDE DEF rec, now
<1>6. traced'[p] = now /\ \A q \in Pids \ {p} : traced'[q] = traced[q]
  BY <1>1 DEF KernelTypes
<1>7. ASSUME mode' # "panicked" PROVE RecordsMeetTheirIdentity' /\ TracesAreTheRing'
  <2>1. RecordsMeetTheirIdentity /\ TracesAreTheRing BY <1>1, <1>7 DEF IdentityInv
  <2>2. \A q : Known(q)' = Known(q) BY <1>1 DEF Known
  <2>3. RecordsMeetTheirIdentity'
    BY <1>1, <1>4, <2>1, ReserveKeepsIdentities DEF Meets
  <2>4. ASSUME NEW q \in Pids \ DOMAIN freed', q # p, traced'[q].sure
        PROVE  /\ traced'[q].exec # 0 => owner'[q] = q
               /\ After(ring', Known(q)', q, Len(ring'), Owed(traced'[q].exec, proc'[q]))
    <3>1. q \notin DOMAIN freed BY <1>1, <2>4 DEF Without
    <3>2. ~Identifies(rec, q) BY <1>4, <2>4 DEF Identifies
    <3>3. \A id : After(ring, Known(q), q, Len(ring), id)
                    => After(ring', Known(q)', q, Len(ring'), id)
      BY <1>1, <1>4, <2>2, <3>2, ReserveKeepsTraceOf
    <3> QED BY <1>1, <1>6, <2>1, <2>4, <3>1, <3>3, UntracedKeepTheirTrace
  <2>5. ASSUME traced'[p].sure
        PROVE  /\ owner'[p] = p
               /\ After(ring', Known(p)', p, Len(ring'), Owed(traced'[p].exec, proc'[p]))
    <3>1. HasRoom /\ freed[p] = proc[p] /\ traced'[p] = [sure |-> TRUE, exec |-> reserved + 1]
      BY <1>6, <2>5 DEF now
    <3>2. ring' = Append(ring, rec) BY <1>1, <3>1 DEF Reserve
    <3>3. Identifies(rec, p) /\ Leaves(rec) = {[guid |-> reserved + 1, image |-> proc[p]]}
      BY <1>4, <3>1 DEF Identifies, Leaves
    <3>4. After(Append(ring, rec), Known(p), p, Len(Append(ring, rec)), Leaves(rec))
      BY <1>4, <3>3, AppendIdentifies DEF RecordsAreWhole
    <3>5. Owed(traced'[p].exec, proc'[p]) = {[guid |-> reserved + 1, image |-> proc[p]]}
      <4>1. reserved + 1 # 0 BY DEF KernelTypes
      <4> QED BY <1>1, <3>1, <4>1 DEF Owed
    <3> QED BY <1>1, <1>2, <2>2, <3>2, <3>3, <3>4, <3>5
  <2> QED BY <2>3, <2>4, <2>5 DEF TracesAreTheRing
<1>8. IdentityIsTheCallers' BY <1>1 DEF IdentityIsTheCallers, IdentityInv
<1> QED BY <1>7, <1>8 DEF IdentityInv

\* The exit of a leader is recorded, or the id is not traced until an exec is,
\* unless nothing was known of it anyway.
LEMMA ExitKeepsIdentityInv ==
  ASSUME KernelInv, IdentityInv, EbpfAssumption, NEW t \in Threads, Exit(t)
  PROVE  IdentityInv'
<1> USE DEF KernelInv
<1>0. PICK p : p = owner[t] OBVIOUS
<1> DEFINE last == \A x \in Threads \ {t} : owner[x] # p
           rec == Record("exit", p, None)
<1>1. /\ p \in Pids /\ p \in Threads /\ proc[p] # None /\ p # None
      /\ UNCHANGED <<freed, parents, mode, out>>
      /\ IsLeader(t) => p = t /\ p \notin DOMAIN freed
      /\ ~IsLeader(t) => t \notin Pids /\ UNCHANGED <<ring, history>>
      /\ IsLeader(t) => Reserve(rec)
  BY <1>0 DEF Exit, InUser, Alive, KernelTypes, ThreadsOfProcesses, builder, IsLeader, Threads
<1>2. /\ owner' = [owner EXCEPT ![t] = None]
      /\ proc' = IF last THEN [proc EXCEPT ![p] = None] ELSE proc
  BY <1>0 DEF Exit
<1>3. ASSUME NEW q \in Pids, q # p \/ ~IsLeader(t), owner[q] = q
      PROVE  owner'[q] = q /\ proc'[q] = proc[q]
  <2>1. q # t BY <1>1, <1>3
  <2>2. q \in Threads \ {t} BY <2>1 DEF Threads
  <2>3. ~(q = p /\ last) BY <1>3, <2>2
  <2>4. proc'[q] = proc[q]
    <3> HIDE DEF last
    <3> QED BY <1>2, <2>3 DEF KernelTypes
  <2> QED BY <1>2, <1>3, <2>2, <2>4 DEF KernelTypes
<1>4. ASSUME mode' # "panicked" PROVE RecordsMeetTheirIdentity' /\ TracesAreTheRing'
  <2>1. RecordsMeetTheirIdentity /\ TracesAreTheRing BY <1>1, <1>4 DEF IdentityInv
  <2>2. \A q : Known(q)' = Known(q) BY <1>1 DEF Known
  <2>3. CASE ~IsLeader(t)
    <3>1. RecordsMeetTheirIdentity' BY <1>1, <2>1, <2>2, <2>3 DEF RecordsMeetTheirIdentity
    <3>2. TracesAreTheRing'
      <4> SUFFICES ASSUME NEW q \in Pids \ DOMAIN freed, traced[q].sure
                   PROVE  /\ traced[q].exec # 0 => owner'[q] = q
                          /\ After(ring, Known(q), q, Len(ring), Owed(traced[q].exec, proc'[q]))
        BY <1>1, <2>2, <2>3 DEF TracesAreTheRing, history
      <4>1. /\ traced[q].exec # 0 => owner[q] = q
            /\ After(ring, Known(q), q, Len(ring), Owed(traced[q].exec, proc[q]))
        BY <2>1 DEF TracesAreTheRing
      <4> QED BY <1>3, <2>3, <4>1 DEF Owed
    <3> QED BY <3>1, <3>2
  <2>4. CASE IsLeader(t)
    <3>1. /\ rec \in RingRecord /\ rec.kind = "exit" /\ rec.pid = p
          /\ Meets(rec, Known(p), ring, Len(ring)) /\ Reserve(rec)
      BY <1>1, <2>1, <2>4, WholeRecord, RecordsOfTheLivingMeet DEF Texts
    <3> HIDE DEF rec
    <3>2. RecordsMeetTheirIdentity' BY <1>1, <2>1, <3>1, ReserveKeepsIdentities
    <3>3. traced' = [traced EXCEPT ![p] =
                       [sure |-> HasRoom \/ (@.sure /\ @.exec = 0), exec |-> 0]]
      BY <1>0, <2>4 DEF Exit
    <3>4. ASSUME NEW q \in Pids \ DOMAIN freed', q # p, traced'[q].sure
          PROVE  /\ traced'[q].exec # 0 => owner'[q] = q
                 /\ After(ring', Known(q)', q, Len(ring'), Owed(traced'[q].exec, proc'[q]))
      <4>1. q \notin DOMAIN freed /\ traced'[q] = traced[q] BY <1>1, <3>3, <3>4 DEF KernelTypes
      <4>2. ~Identifies(rec, q) BY <3>1, <3>4 DEF Identifies
      <4>3. \A id : After(ring, Known(q), q, Len(ring), id)
                      => After(ring', Known(q)', q, Len(ring'), id)
        BY <2>2, <3>1, <4>2, ReserveKeepsTraceOf
      <4> QED BY <1>3, <2>1, <3>4, <4>1, <4>3, UntracedKeepTheirTrace
    <3>5. ASSUME traced'[p].sure
          PROVE  traced'[p].exec = 0 /\ After(ring', Known(p)', p, Len(ring'), {})
      <4> DEFINE now == HasRoom \/ (traced[p].sure /\ traced[p].exec = 0)
      <4>0. traced'[p] = [sure |-> now, exec |-> 0]
        <5> HIDE DEF now
        <5>1. traced' = [traced EXCEPT ![p] = [sure |-> now, exec |-> 0]] BY <3>3 DEF now
        <5> QED BY <1>1, <5>1 DEF KernelTypes
      <4>1. CASE HasRoom
        <5>2. ring' = Append(ring, rec) BY <3>1, <4>1 DEF Reserve
        <5>3. Identifies(rec, p) /\ Leaves(rec) = {} BY <3>1 DEF Identifies, Leaves
        <5>4. After(Append(ring, rec), Known(p), p, Len(Append(ring, rec)), Leaves(rec))
          BY <3>1, <5>3, AppendIdentifies DEF RecordsAreWhole
        <5> QED BY <2>2, <4>0, <5>2, <5>3, <5>4
      <4>2. CASE ~HasRoom
        <5>1. traced'[p].sure = now /\ traced'[p].exec = 0
          <6> HIDE DEF now
          <6> QED BY <4>0
        <5>2. traced[p].sure /\ traced[p].exec = 0 BY <3>5, <4>2, <5>1
        <5>3. ring' = ring BY <3>1, <4>2 DEF Reserve
        <5> QED BY <1>1, <2>1, <2>2, <2>4, <5>1, <5>2, <5>3 DEF TracesAreTheRing, Owed
      <4> QED BY <4>1, <4>2
    <3>6. TracesAreTheRing' BY <3>4, <3>5 DEF TracesAreTheRing, Owed
    <3> QED BY <3>2, <3>6
  <2> QED BY <2>3, <2>4
<1>5. IdentityIsTheCallers' BY <1>1 DEF IdentityIsTheCallers, IdentityInv
<1> QED BY <1>4, <1>5 DEF IdentityInv

\* A new process takes an id of which nothing is known, and a new thread and
\* new content change no process.
LEMMA NewProcessesKeepIdentityInv ==
  ASSUME KernelInv, IdentityInv, EbpfAssumption,
         \/ \E t \in Threads, p \in Pids : Fork(t, p)
         \/ \E t \in Threads, new \in Tids : Clone(t, new)
         \/ \E f \in Images : Rewrite(f)
  PROVE  IdentityInv'
<1> USE DEF KernelInv
<1>1. UNCHANGED <<freed, ring, parents, mode, out, traced>>
  BY DEF Fork, Clone, Rewrite, builder, kernel, history
<1>2. ASSUME NEW q \in Pids, owner[q] = q PROVE owner'[q] = q /\ proc'[q] = proc[q]
  <2>1. q \in Threads /\ q # None /\ proc[q] # None
    BY <1>2 DEF ThreadsOfProcesses, Threads, EbpfAssumption
  <2>2. CASE \E t \in Threads, p \in Pids : Fork(t, p)
    <3>1. PICK t \in Threads, p \in Pids : Fork(t, p) BY <2>2
    <3>2. q # p BY <2>1, <3>1 DEF Fork
    <3> QED BY <1>2, <2>1, <3>1, <3>2 DEF Fork, KernelTypes
  <2>3. CASE \E t \in Threads, new \in Tids : Clone(t, new)
    BY <1>2, <2>1, <2>3 DEF Clone, KernelTypes, EbpfAssumption
  <2>4. CASE \E f \in Images : Rewrite(f) BY <1>2, <2>4 DEF Rewrite, kernel
  <2> QED BY <2>2, <2>3, <2>4
<1>3. ASSUME mode' # "panicked" PROVE RecordsMeetTheirIdentity' /\ TracesAreTheRing'
  <2>1. RecordsMeetTheirIdentity /\ TracesAreTheRing BY <1>1, <1>3 DEF IdentityInv
  <2>2. \A q : Known(q)' = Known(q) BY <1>1 DEF Known
  <2>3. RecordsMeetTheirIdentity' BY <1>1, <2>1, <2>2 DEF RecordsMeetTheirIdentity
  <2> QED BY <1>1, <1>2, <2>1, <2>2, <2>3 DEF TracesAreTheRing, Owed
<1>4. IdentityIsTheCallers' BY <1>1 DEF IdentityIsTheCallers, IdentityInv
<1> QED BY <1>3, <1>4 DEF IdentityInv

\* The identity that an event of a record should be sent with.
RightId(rec) ==
  IF rec.exec # 0 THEN [guid |-> rec.exec, image |-> rec.ran]
  ELSE [guid |-> IF rec.kind = "net" THEN NullGuid ELSE rec.n, image |-> None]

\* What is sent of a record is right when the record meets what is known.
LEMMA SendingIsRight ==
  ASSUME NEW rec, NEW id, IdentityIsTheCallers, out' = out \/ out' = Event(rec, id),
         rec.sure => id = RightId(rec)
  PROVE  IdentityIsTheCallers'
<1>1. CASE out' = out BY <1>1 DEF IdentityIsTheCallers
<1>2. CASE out' = Event(rec, id)
  <2>1. /\ out'.id = id /\ out'.kind = rec.kind /\ out'.n = rec.n /\ out'.ran = rec.ran
        /\ out'.sure = rec.sure /\ out'.exec = rec.exec
    BY <1>2 DEF Event
  <2> QED BY <2>1 DEF IdentityIsTheCallers, RightId
<1> QED BY <1>1, <1>2

\* What a builder that knows what is owed looks up is right, if it takes for an
\* unknown process the null guid in an event of a connection, else a new one.
LEMMA LookupIsRight ==
  ASSUME NEW rec, rec.kind # "exec", Known(rec.pid) = Owed(rec.exec, rec.ran),
         NEW unknown, unknown = IF rec.kind = "net" THEN NullGuid ELSE rec.n
  PROVE  /\ Identity(rec, unknown) = RightId(rec)
         /\ rec.pid \in DOMAIN parents => parents[rec.pid] = RightId(rec)
<1>1. CASE rec.exec = 0
  <2>1. rec.pid \notin DOMAIN parents BY <1>1 DEF Known, Owed
  <2>2. Identity(rec, unknown) = [guid |-> unknown, image |-> None] BY <2>1 DEF Identity
  <2>3. CASE rec.kind = "net" BY <1>1, <2>1, <2>2, <2>3 DEF RightId
  <2>4. CASE rec.kind # "net" BY <1>1, <2>1, <2>2, <2>4 DEF RightId
  <2> QED BY <2>3, <2>4
<1>2. CASE rec.exec # 0
  <2>1. rec.pid \in DOMAIN parents /\ parents[rec.pid] = [guid |-> rec.exec, image |-> rec.ran]
    BY <1>2 DEF Known, Owed
  <2>2. Identity(rec, unknown) = parents[rec.pid] BY <2>1 DEF Identity
  <2>3. RightId(rec) = [guid |-> rec.exec, image |-> rec.ran] BY <1>2 DEF RightId
  <2> QED BY <2>1, <2>2, <2>3
<1> QED BY <1>1, <1>2

\* The builder takes the first record, sends what it should and learns it.
LEMMA BuildingKeepsIdentityInv ==
  ASSUME KernelInv, IdentityInv, mode # "panicked", ring # <<>>,
         \/ BuildNet \/ BuildFile \/ BuildDns \/ BuildExit
         \/ BuildExec /\ mode' # "hash"
         \/ ReadImage
  PROVE  IdentityInv'
<1> USE DEF KernelInv
<1>1. PICK rec : rec = ring[1] OBVIOUS
<1>2. PICK p : p = rec.pid OBVIOUS
<1>3. /\ Head(ring) = rec /\ rec \in RingRecord /\ p \in Pids /\ 1 \in 1 .. Len(ring)
      /\ RecordsMeetTheirIdentity /\ TracesAreTheRing
  <2>1. ring \in Seq(RingRecord) BY DEF RecordsAreWhole
  <2>2. Head(ring) = rec /\ 1 \in 1 .. Len(ring) /\ rec \in RingRecord BY <1>1, <2>1
  <2>3. p \in Pids BY <1>2, <2>2 DEF RingRecord
  <2> QED BY <2>2, <2>3 DEF IdentityInv
<1>4. UNCHANGED <<owner, proc, freed, traced>>
  BY DEF BuildNet, BuildFile, BuildDns, BuildExit, BuildExec, Builds, ReadImage, kernel, history
<1>5. rec.sure => IF rec.kind = "exec" THEN rec.exec = rec.n /\ rec.what = rec.ran
                  ELSE Known(p) = Owed(rec.exec, rec.ran)
  <2>1. rec.sure => IF rec.kind = "exec" THEN rec.exec = rec.n /\ rec.what = rec.ran
                    ELSE After(ring, Known(p), p, 1 - 1, Owed(rec.exec, rec.ran))
    BY <1>1, <1>2, <1>3 DEF RecordsMeetTheirIdentity
  <2> QED BY <2>1 DEF After
<1>6. CASE BuildNet \/ BuildFile \/ BuildDns
  <2>1. PICK unknown : unknown = IF rec.kind = "net" THEN NullGuid ELSE rec.n OBVIOUS
  <2> DEFINE id == Identity(rec, unknown)
  <2>2. /\ rec.kind \in {"net", "file", "dns"} /\ parents' = parents
        /\ out' = out \/ out' = Event(rec, id)
        /\ mode' = "panicked" \/ ring' = Tail(ring)
    <3>1. CASE BuildNet BY <1>3, <2>1, <3>1 DEF BuildNet, Builds, SendEvent
    <3>2. CASE BuildFile BY <1>3, <2>1, <3>2 DEF BuildFile, Builds, SendEvent, NewGuid
    <3>3. CASE BuildDns BY <1>3, <2>1, <3>3 DEF BuildDns, Builds, SendEvent, NewGuid
    <3> QED BY <1>6, <3>1, <3>2, <3>3
  <2>3. rec.sure => id = RightId(rec) BY <1>2, <1>5, <2>1, <2>2, LookupIsRight
  <2> HIDE DEF id
  <2>4. IdentityIsTheCallers' BY <2>2, <2>3, SendingIsRight DEF IdentityInv
  <2>5. \A q \in Pids : Known(q)' = IF Identifies(rec, q) THEN Leaves(rec) ELSE Known(q)
    BY <2>2 DEF Known, Identifies
  <2> QED BY <1>1, <1>3, <1>4, <2>2, <2>4, <2>5, TakingOneKeepsIdentities DEF IdentityInv
<1>7. CASE BuildExit
  <2>1. /\ rec.kind = "exit"
        /\ \/ p \notin DOMAIN parents /\ UNCHANGED <<parents, out>> /\ ring' = Tail(ring)
           \/ /\ p \in DOMAIN parents /\ parents' = Without(parents, p)
              /\ out' = out \/ out' = Event(rec, parents[p])
              /\ mode' = "panicked" \/ ring' = Tail(ring)
    BY <1>2, <1>3, <1>7 DEF BuildExit, Builds, SendEvent, Forget
  <2>2. rec.sure /\ p \in DOMAIN parents => parents[p] = RightId(rec)
    BY <1>2, <1>5, <2>1, LookupIsRight
  <2>3. IdentityIsTheCallers'
    <3>1. CASE out' = out BY <3>1 DEF IdentityIsTheCallers, IdentityInv
    <3>2. CASE p \in DOMAIN parents BY <2>1, <2>2, <3>2, SendingIsRight DEF IdentityInv
    <3> QED BY <2>1, <3>1, <3>2
  <2>4. \A q \in Pids : Known(q)' = IF Identifies(rec, q) THEN Leaves(rec) ELSE Known(q)
    BY <1>2, <2>1 DEF Known, Identifies, Without, Leaves
  <2> QED BY <1>1, <1>3, <1>4, <2>1, <2>3, <2>4, TakingOneKeepsIdentities DEF IdentityInv
<1>8. CASE (BuildExec /\ mode' # "hash") \/ ReadImage
  <2> DEFINE id == [guid |-> rec.n, image |-> rec.what]
  <2>1. rec.kind = "exec"
    BY <1>1, <1>3, <1>8 DEF BuildExec, Builds, ReadImage, RecordsAreWhole
  <2>2. Finish(rec) BY <1>3, <1>8 DEF BuildExec, ReadImage
  <2>3. /\ parents' = With(parents, p, id)
        /\ out' = out \/ out' = Event(rec, id)
        /\ mode' = "panicked" \/ ring' = Tail(ring)
    BY <1>2, <1>3, <2>2 DEF Finish, SendEvent, NewGuid
  <2>4. rec.sure => id = RightId(rec)
    <3>1. rec.n # 0 BY <1>3 DEF RingRecord
    <3> QED BY <1>5, <2>1, <3>1 DEF RightId
  <2>5. \A q \in Pids : Known(q)' = IF Identifies(rec, q) THEN Leaves(rec) ELSE Known(q)
    BY <1>2, <2>1, <2>3 DEF Known, Identifies, With, Leaves
  <2> HIDE DEF id
  <2>6. IdentityIsTheCallers' BY <2>3, <2>4, SendingIsRight DEF IdentityInv
  <2> QED BY <1>1, <1>3, <1>4, <2>3, <2>5, <2>6, TakingOneKeepsIdentities DEF IdentityInv
<1> QED BY <1>6, <1>7, <1>8

\* In the beginning the ring is empty and nothing is known.
LEMMA EbpfInit ==
  ASSUME EbpfAssumption, Init
  PROVE  KernelInv /\ IdentityInv
<1>1. PICK p \in Pids :
        /\ owner = [t \in Threads |-> IF t = p THEN p ELSE None]
        /\ proc = [q \in Pids |-> IF q = p THEN CHOOSE f \in Images : TRUE ELSE None]
  BY DEF Init
<1>2. (CHOOSE f \in Images : TRUE) \in Images BY EbpfAssumption DEF EbpfAssumption
<1>3. /\ DOMAIN execArgs = {} /\ DOMAIN fileStage = {} /\ DOMAIN freed = {} /\ DOMAIN parents = {}
      /\ ring = <<>> /\ mode = "start" /\ reserved = 0
      /\ traced = [q \in Pids |-> [sure |-> TRUE, exec |-> 0]]
  BY DEF Init
<1>4. proc[p] \in Images /\ \A q \in Pids : proc[q] \in Images \cup {None}
  BY <1>1, <1>2
<1>5. proc[p] # None BY <1>4, EbpfAssumption DEF EbpfAssumption
<1>6. KernelTypes
  <2>1. /\ owner \in [Threads -> Pids \cup {None}]
        /\ call \in [Threads -> SystemCall]
        /\ version \in [Images -> Nat] /\ born \in Nat
    BY <1>1 DEF Init, SystemCall, Threads
  <2>2. proc \in [Pids -> Images \cup {None}] BY <1>1, <1>4
  <2> QED BY <1>3, <2>1, <2>2 DEF KernelTypes
<1>7. ThreadsOfProcesses
  BY <1>1, <1>3, <1>5, EbpfAssumption DEF ThreadsOfProcesses, Threads, EbpfAssumption
<1>8. RecordsAreWhole BY <1>3 DEF RecordsAreWhole
<1>9. TracesAreTheRing
  <2>1. \A q \in Pids : Known(q) = {} BY <1>3 DEF Known
  <2>2. \A q \in Pids : After(ring, Known(q), q, 0, {}) BY <2>1 DEF After
  <2>3. Len(ring) = 0 BY <1>3
  <2>4. \A q \in Pids : traced[q].exec = 0 BY <1>3
  <2>5. \A x : Owed(0, x) = {} BY DEF Owed
  <2> QED BY <2>2, <2>3, <2>4, <2>5 DEF TracesAreTheRing
<1>10. RecordsMeetTheirIdentity BY <1>3 DEF RecordsMeetTheirIdentity
<1>11. IdentityIsTheCallers BY DEF Init, IdentityIsTheCallers
<1> QED BY <1>6, <1>7, <1>8, <1>9, <1>10, <1>11 DEF KernelInv, IdentityInv

\* Every step keeps the builder and the probes in agreement.
LEMMA IdentityInvStep ==
  ASSUME EbpfAssumption, KernelInv, IdentityInv, [Next]_vars
  PROVE  IdentityInv'
<1>1. CASE UNCHANGED vars
  <2>1. UNCHANGED <<owner, proc, freed, traced, ring, parents, mode, out>>
    BY <1>1 DEF vars, kernel, builder, history
  <2>2. \A q : Known(q)' = Known(q) BY <2>1 DEF Known
  <2> QED BY <2>1, <2>2 DEF IdentityInv, IdentityIsTheCallers, RecordsMeetTheirIdentity,
                            TracesAreTheRing
<1>2. CASE Kernel
  BY <1>2, QuietCallsKeepIdentityInv, ExecKeepsIdentityInv, EmitExecKeepsIdentityInv,
     ExitKeepsIdentityInv, NewProcessesKeepIdentityInv DEF Kernel
<1>3. CASE Stop \/ New \/ Wake \/ Drained \/ ReceiverGone \/ (BuildExec /\ mode' = "hash")
  <2>1. /\ UNCHANGED <<owner, proc, freed, traced, ring, parents, out>>
        /\ mode' # "panicked" => mode # "panicked"
    BY <1>3 DEF Stop, New, Wake, Drained, ReceiverGone, BuildExec, Builds, kernel, builder, history,
                Finish, SendEvent
  <2>2. \A q : Known(q)' = Known(q) BY <2>1 DEF Known
  <2> QED BY <2>1, <2>2 DEF IdentityInv, IdentityIsTheCallers, RecordsMeetTheirIdentity,
                            TracesAreTheRing
<1>4. CASE \/ BuildNet \/ BuildFile \/ BuildDns \/ BuildExit
           \/ BuildExec /\ mode' # "hash"
           \/ ReadImage
  <2>1. mode # "panicked" /\ ring # <<>>
    BY <1>4 DEF BuildNet, BuildFile, BuildDns, BuildExit, BuildExec, Builds, ReadImage, KernelInv,
                RecordsAreWhole
  <2> QED BY <1>4, <2>1, BuildingKeepsIdentityInv
<1> QED BY <1>1, <1>2, <1>3, <1>4 DEF Next, Collector

\* Whatever processes, threads and system calls do, however often an id is used
\* again and however late a record is read, an event of a process of which every
\* change since it took its id was recorded carries the guid of its last exec and
\* the image that it runs, or, when it has had no exec, no image and a guid that
\* is null or made for that event.
THEOREM IdentityIsRight == Spec => []IdentityIsTheCallers
<1>1. Init => KernelInv /\ IdentityInv BY EbpfInit, EbpfAssumption
<1>2. KernelInv /\ IdentityInv /\ [Next]_vars => KernelInv' /\ IdentityInv'
  <2>1. ASSUME KernelInv, UNCHANGED vars PROVE KernelInv'
    BY <2>1 DEF vars, kernel, history, KernelInv, KernelTypes, ThreadsOfProcesses,
                RecordsAreWhole
  <2> QED BY <2>1, KernelInvStep, IdentityInvStep, EbpfAssumption
<1>3. IdentityInv => IdentityIsTheCallers BY DEF IdentityInv
<1> QED BY <1>1, <1>2, <1>3, PTL DEF Spec

-----------------------------------------------------------------------------
\* The path that is hashed is that of an image.
LEMMA HashedIsAnImage ==
  ASSUME KernelInv, ring # <<>>, Head(ring).kind = "exec"
  PROVE  Resolved(Head(ring)) \in Images
<1> USE DEF KernelInv
<1>1. Head(ring) = ring[1] /\ ring[1] \in RingRecord /\ ring[1].what \in Images
  <2>1. ring \in Seq(RingRecord) BY DEF RecordsAreWhole
  <2>2. Head(ring) = ring[1] /\ 1 \in 1 .. Len(ring) /\ ring[1] \in RingRecord BY <2>1
  <2> QED BY <2>2 DEF RecordsAreWhole
<1>2. Head(ring).pid \in Pids BY <1>1 DEF RingRecord
<1>3. proc[Head(ring).pid] # None => proc[Head(ring).pid] \in Images BY <1>2 DEF KernelTypes
<1> QED BY <1>1, <1>3 DEF Resolved

\* The mtime is taken before the content is read, and content only moves on.
LEMMA HashInvStep ==
  ASSUME KernelInv, HashInv, [Next]_vars
  PROVE  HashInv'
<1> USE DEF KernelInv
<1>1. CASE UNCHANGED <<hashes, hashing, mode, version>>
  BY <1>1 DEF HashInv, HashesAreOfTheContent
<1>2. CASE \E f \in Images : Rewrite(f)
  <2>1. PICK f \in Images : Rewrite(f) BY <1>2
  <2>2. /\ \A g \in Images : version[g] \in Nat /\ version'[g] \in Nat /\ version[g] <= version'[g]
        /\ \A g \in Images : version'[g] = version[g] \/ version'[g] = version[g] + 1
        /\ UNCHANGED <<hashes, hashing, mode>>
    BY <2>1 DEF Rewrite, KernelTypes, builder
  <2> HIDE DEF KernelInv
  <2>3. mode' = "hash" =>
          /\ hashing'.path \in Images /\ hashing'.mtime <= version'[hashing'.path]
          /\ hashing'.mtime \in Nat
    BY <2>2 DEF HashInv
  <2>4. \A g \in DOMAIN hashes' :
          /\ g \in Images /\ hashes'[g].mtime \in Nat /\ hashes'[g].mtime <= version'[g]
          /\ hashes'[g].mtime = version'[g] => hashes'[g].hash = version'[g]
    BY <2>2 DEF HashInv, HashesAreOfTheContent
  <2> QED BY <2>3, <2>4 DEF HashInv, HashesAreOfTheContent
<1>3. CASE BuildExec
  <2>1. UNCHANGED <<hashes, version>> BY <1>3 DEF BuildExec, Builds
  <2>2. mode' = "hash" =>
          /\ hashing'.path \in Images /\ hashing'.mtime = version[hashing'.path]
    BY <1>3, HashedIsAnImage DEF BuildExec, Builds, Finish, SendEvent
  <2>3. mode' = "hash" => hashing'.mtime \in Nat /\ hashing'.mtime <= version[hashing'.path]
    <3>1. ASSUME mode' = "hash" PROVE hashing'.mtime = version[hashing'.path]
      BY <1>3, <3>1 DEF BuildExec, Builds, Finish, SendEvent
    <3>2. \A f \in Images : version[f] \in Nat /\ version[f] <= version[f]
      BY DEF KernelTypes
    <3> QED BY <2>2, <3>1, <3>2
  <2> HIDE DEF KernelInv
  <2> QED BY <2>1, <2>2, <2>3 DEF HashInv, HashesAreOfTheContent
<1>4. CASE ReadImage
  <2>1. mode = "hash" /\ mode' # "hash" /\ version' = version
    BY <1>4 DEF ReadImage, Finish, SendEvent
  <2>2. /\ hashing.path \in Images /\ hashing.mtime \in Nat
        /\ hashing.mtime <= version[hashing.path]
    BY <2>1 DEF HashInv
  <2>3. CASE hashes' = hashes BY <2>1, <2>3 DEF HashInv, HashesAreOfTheContent
  <2>4. CASE Remember(hashing.path, hashing.mtime, version[hashing.path])
    <3>1. \A f \in DOMAIN hashes' :
            \/ /\ f = hashing.path
               /\ hashes'[f] = [mtime |-> hashing.mtime, hash |-> version[hashing.path]]
            \/ f \in DOMAIN hashes /\ hashes'[f] = hashes[f]
      BY <2>4 DEF Remember, Evict, With, Without
    <3>2. \A f \in DOMAIN hashes' :
            /\ f \in Images /\ hashes'[f].mtime \in Nat /\ hashes'[f].mtime <= version[f]
            /\ hashes'[f].mtime = version[f] => hashes'[f].hash = version[f]
      BY <2>2, <3>1 DEF HashInv, HashesAreOfTheContent
    <3> QED BY <2>1, <3>2 DEF HashInv, HashesAreOfTheContent
  <2> QED BY <1>4, <2>3, <2>4 DEF ReadImage
<1>5. CASE Next /\ ~(\E f \in Images : Rewrite(f)) /\ ~BuildExec /\ ~ReadImage
  <2>1. UNCHANGED <<hashes, hashing, version>> /\ (mode' = "hash" => mode = "hash")
    <3>1. CASE Kernel
      BY <1>5, <3>1 DEF Kernel, CallFails, Exec, ExitOpenat, Connect, Exit, EnterExecve,
         EnterExecveat, EnterOpenat, Send, Fork, Clone, EmitExec, kernel, builder
    <3>2. CASE Collector \/ Stop
      BY <1>5, <3>2 DEF Collector, Stop, New, Wake, Drained, ReceiverGone, BuildNet, BuildFile,
         BuildDns, BuildExit, Builds, SendEvent, kernel, builder
    <3> QED BY <1>5, <3>1, <3>2 DEF Next
  <2> QED BY <2>1 DEF HashInv, HashesAreOfTheContent
<1> QED BY <1>1, <1>2, <1>3, <1>4, <1>5 DEF vars, builder

\* Whenever a file is rewritten, and whatever was evicted meanwhile, a cached
\* hash under the mtime the file has is that of the content it has.
THEOREM CachedHashesAreRight == Spec => []HashesAreOfTheContent
<1>1. Init => KernelInv /\ HashInv
  <2>1. Init => DOMAIN hashes = {} /\ mode = "start" BY DEF Init
  <2> QED BY <2>1, EbpfInit, EbpfAssumption DEF HashInv, HashesAreOfTheContent
<1>2. KernelInv /\ HashInv /\ [Next]_vars => KernelInv' /\ HashInv'
  <2>1. ASSUME KernelInv, UNCHANGED vars PROVE KernelInv'
    BY <2>1 DEF vars, kernel, history, KernelInv, KernelTypes, ThreadsOfProcesses,
                RecordsAreWhole
  <2> QED BY <2>1, KernelInvStep, HashInvStep, EbpfAssumption
<1>3. HashInv => HashesAreOfTheContent BY DEF HashInv
<1> QED BY <1>1, <1>2, <1>3, PTL DEF Spec

-----------------------------------------------------------------------------
\* A path pushed again stays in the order when its first mention goes, so long
\* as its hash went with that.
LEMMA EvictionOrderStep ==
  ASSUME KernelInv, HashInv, hashOrder \in Seq(Images), EveryHashCanBeEvicted, [Next]_vars
  PROVE  hashOrder' \in Seq(Images) /\ EveryHashCanBeEvicted'
<1>1. CASE UNCHANGED <<hashes, hashOrder>> BY <1>1 DEF EveryHashCanBeEvicted
<1>2. CASE Remember(hashing.path, hashing.mtime, version[hashing.path]) /\ mode = "hash"
  <2> DEFINE path == hashing.path
  <2>1. path \in Images BY <1>2 DEF HashInv
  <2>2. /\ Evict.order \in Seq(Images)
        /\ \A f \in DOMAIN Evict.map : \E i \in 1 .. Len(Evict.order) : Evict.order[i] = f
    <3>1. CASE ~Evicts BY <3>1 DEF Evict, EveryHashCanBeEvicted
    <3>2. CASE Evicts
      <4>1. hashOrder # <<>> BY <3>2 DEF Evicts
      <4>2. /\ Evict.order = Tail(hashOrder) /\ DOMAIN Evict.map = DOMAIN hashes \ {Head(hashOrder)}
        BY <3>2 DEF Evict, Without
      <4>3. /\ Tail(hashOrder) \in Seq(Images) /\ Len(Tail(hashOrder)) = Len(hashOrder) - 1
            /\ \A i \in 1 .. Len(hashOrder) - 1 : Tail(hashOrder)[i] = hashOrder[i + 1]
            /\ Head(hashOrder) = hashOrder[1] /\ Len(hashOrder) \in Nat
        BY <4>1
      <4>4. ASSUME NEW f \in DOMAIN hashes \ {Head(hashOrder)}
            PROVE  \E i \in 1 .. Len(Tail(hashOrder)) : Tail(hashOrder)[i] = f
        <5>1. PICK i \in 1 .. Len(hashOrder) : hashOrder[i] = f BY DEF EveryHashCanBeEvicted
        <5>2. i # 1 BY <4>3, <4>4, <5>1
        <5>3. i - 1 \in 1 .. Len(hashOrder) - 1 /\ (i - 1) + 1 = i BY <4>3, <5>2
        <5> QED BY <4>3, <5>1, <5>3
      <4> QED BY <4>2, <4>3, <4>4
    <3> QED BY <3>1, <3>2
  <2>3. /\ hashOrder' = Append(Evict.order, path)
        /\ DOMAIN hashes' = DOMAIN Evict.map \cup {path}
    BY <1>2 DEF Remember, With
  <2> HIDE DEF path
  <2>4. /\ hashOrder' \in Seq(Images) /\ Len(hashOrder') = Len(Evict.order) + 1
        /\ \A i \in 1 .. Len(Evict.order) : hashOrder'[i] = Evict.order[i]
        /\ hashOrder'[Len(hashOrder')] = path /\ Len(Evict.order) \in Nat
    BY <2>1, <2>2, <2>3
  <2>5. ASSUME NEW f \in DOMAIN hashes' PROVE \E i \in 1 .. Len(hashOrder') : hashOrder'[i] = f
    <3>1. CASE f = path BY <2>4, <3>1
    <3>2. CASE f # path
      <4>1. PICK i \in 1 .. Len(Evict.order) : Evict.order[i] = f BY <2>2, <2>3, <2>5, <3>2
      <4> QED BY <2>4, <4>1
    <3> QED BY <3>1, <3>2
  <2> QED BY <2>4, <2>5 DEF EveryHashCanBeEvicted
<1>3. CASE Kernel
  BY <1>1, <1>3 DEF Kernel, CallFails, Exec, ExitOpenat, Connect, Exit, EnterExecve, Rewrite,
     EnterExecveat, EnterOpenat, Send, Fork, Clone, EmitExec, kernel, builder
<1>4. CASE Stop \/ (Collector /\ ~ReadImage)
  BY <1>1, <1>4 DEF Collector, Stop, New, Wake, Drained, ReceiverGone, BuildNet, BuildFile,
     BuildDns, BuildExit, BuildExec, Builds, kernel, builder
<1>5. CASE ReadImage BY <1>1, <1>2, <1>5 DEF ReadImage
<1> QED BY <1>1, <1>3, <1>4, <1>5 DEF Next, Collector, vars, builder

\* For any limit and any pattern of pushes, no hash is kept for ever.
THEOREM EveryHashGoes == Spec => []EveryHashCanBeEvicted
<1> DEFINE Inv == KernelInv /\ HashInv /\ hashOrder \in Seq(Images) /\ EveryHashCanBeEvicted
<1>1. Init => Inv
  <2>1. Init => DOMAIN hashes = {} /\ mode = "start" /\ hashOrder = <<>> BY DEF Init
  <2> QED BY <2>1, EbpfInit, EbpfAssumption DEF HashInv, HashesAreOfTheContent,
                                                EveryHashCanBeEvicted
<1>2. Inv /\ [Next]_vars => Inv'
  <2>1. ASSUME KernelInv, UNCHANGED vars PROVE KernelInv'
    BY <2>1 DEF vars, kernel, history, KernelInv, KernelTypes, ThreadsOfProcesses,
                RecordsAreWhole
  <2> QED BY <2>1, KernelInvStep, HashInvStep, EvictionOrderStep, EbpfAssumption
<1>3. Inv => EveryHashCanBeEvicted OBVIOUS
<1> QED BY <1>1, <1>2, <1>3, PTL DEF Spec
=============================================================================
