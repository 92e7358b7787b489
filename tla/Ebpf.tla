-------------------------------- MODULE Ebpf --------------------------------
(* The eBPF collector: the probes of ebpf/src/main.rs, which stage and emit  *)
(* records at tracepoints of any thread, the ring between kernel and user,   *)
(* and the builder of inputs/ebpf_event.rs, which turns a record into an     *)
(* event much later, from what it remembers and from what /proc says then.   *)
(* Processes, threads, files and system calls are the environment.           *)
EXTENDS Naturals, Sequences, FiniteSets

CONSTANTS Pids,        \* ids of group leaders, which are process ids
          Tids,        \* ids of other threads
          Images,      \* paths of executables
          Created,     \* paths of other files
          Unprintable, \* paths with a character that XML has no place for
          Queries,     \* what is sent on sockets: see QueryName
          None,
          RingCap,     \* records that fit in EVENTS
          StageMax,    \* EXEC_ARGS_MAX and FILE_STAGE_MAX
          HashCap,     \* HASH_CACHE_CAP
          MaxBorn,     \* bound on processes
          MaxCalls,    \* bound on system calls
          MaxRewrites  \* bound on changes of an image's content

ASSUME EbpfAssumption ==
  /\ Pids \cap Tids = {} /\ Images # {} /\ Unprintable \subseteq Images \cup Created
  /\ None \notin Pids \cup Images
  /\ \A n \in {RingCap, StageMax, HashCap} : n \in Nat \ {0}
  /\ \A n \in {MaxBorn, MaxCalls, MaxRewrites} : n \in Nat

VARIABLES
  owner,     \* thread -> its process, None while there is no such thread
  call,      \* thread -> the system call it is in
  proc,      \* pid -> the image its process runs, None when there is none
  execArgs,  \* EXEC_ARGS: thread or process id -> image
  fileStage, \* FILE_STAGE: thread or process id -> path
  freed,     \* pid -> what the slot removed from EXEC_ARGS holds until it is copied
  ring,      \* EVENTS
  mode,      \* the collector: "start", "sleep", "drain", "hash", "ended", "panicked"
  parents,   \* pid -> [guid, image]
  hashes,    \* path -> [mtime, hash]
  hashOrder, \* hash_order
  hashing,   \* [path, mtime] between the stat of an image and its reading
  out,       \* the last event sent
  stop,      \* the stop signal of the runner
  version,   \* image -> its content; every change of it changes the mtime
  born, calls,
  reserved,  \* history: how many records were put into the ring
  traced     \* history: pid -> [sure, exec], see Record
kernel == <<owner, call, proc, execArgs, fileStage, freed>>
builder == <<parents, hashes, hashOrder, hashing, out>>
history == <<reserved, traced>>
vars == <<kernel, ring, mode, builder, stop, version, born, calls, history>>

Threads == Pids \cup Tids
Idle == [name |-> "none"]
Without(f, k) == [x \in DOMAIN f \ {k} |-> f[x]]
With(f, k, v) == [x \in DOMAIN f \cup {k} |-> IF x = k THEN v ELSE f[x]]

Init ==
  /\ \E p \in Pids :   \* some process is older than the collector
       /\ owner = [t \in Threads |-> IF t = p THEN p ELSE None]
       /\ proc = [q \in Pids |-> IF q = p THEN CHOOSE f \in Images : TRUE ELSE None]
  /\ call = [t \in Threads |-> Idle] /\ execArgs = <<>> /\ fileStage = <<>> /\ freed = <<>>
  /\ ring = <<>> /\ mode = "start"
  /\ parents = <<>> /\ hashes = <<>> /\ hashOrder = <<>> /\ hashing = None /\ out = None
  /\ stop = FALSE /\ version = [f \in Images |-> 1] /\ born = 1 /\ calls = 0
  /\ reserved = 0 /\ traced = [p \in Pids |-> [sure |-> TRUE, exec |-> 0]]

-----------------------------------------------------------------------------
(* The probes *)

Alive(t) == owner[t] # None
InUser(t) == Alive(t) /\ call[t] = Idle
Calls(t) == InUser(t) /\ calls < MaxCalls /\ mode \in {"sleep", "drain", "hash"} /\ calls' = calls + 1

(* LruHashMap::insert: at the limit some other entry goes *)
Stage(map, k, v) ==
  IF k \in DOMAIN map \/ Cardinality(DOMAIN map) < StageMax THEN {With(map, k, v)}
  ELSE {With(Without(map, old), k, v) : old \in DOMAIN map}

(* reserve and submit: a record that finds no room is dropped, the others    *)
(* are numbered. Three fields are history: the image its process ran, the    *)
(* number of the last exec record that its process has left in the ring, or  *)
(* 0 when it has left none since it has the id, and whether that is sure,    *)
(* because no change of what the id stands for was dropped or misread.       *)
HasRoom == Len(ring) < RingCap
Record(kind, p, what) ==
  [kind |-> kind, pid |-> p, what |-> what, n |-> reserved + 1, ran |-> proc[p],
   sure |-> traced[p].sure, exec |-> traced[p].exec]
Reserve(rec) == IF HasRoom THEN ring' = Append(ring, rec) /\ reserved' = reserved + 1
                ELSE UNCHANGED <<ring, reserved>>

(* sys_enter_execve stages under the id of the thread. The slot that another *)
(* processor has removed and not copied yet may be the one that is taken.    *)
StagedUnder(t) == t
EnterExecve(t, f) ==
  /\ Calls(t)
  /\ call' = [call EXCEPT ![t] = [name |-> "exec", file |-> f]]
  /\ execArgs' \in Stage(execArgs, StagedUnder(t), f)
  /\ \/ UNCHANGED freed
     \/ \E p \in DOMAIN freed : freed' = [freed EXCEPT ![p] = f]
  /\ UNCHANGED <<owner, proc, fileStage, ring, mode, builder, stop, version, born, history>>

(* execveat runs a file too, and has no probe *)
EnterExecveat(t, f) ==
  /\ Calls(t)
  /\ call' = [call EXCEPT ![t] = [name |-> "exec", file |-> f]]
  /\ UNCHANGED <<owner, proc, execArgs, fileStage, freed, ring, mode, builder, stop, version,
                 born, history>>

(* A failed call leaves what was staged for it *)
CallFails(t) ==
  /\ Alive(t) /\ call[t].name \in {"exec", "open"}
  /\ call' = [call EXCEPT ![t] = Idle]
  /\ UNCHANGED <<owner, proc, execArgs, fileStage, freed, ring, mode, builder, stop, version,
                 born, calls, history>>

(* The thread that runs the new image becomes the leader, the others end;    *)
(* sched_process_exec looks for what was staged under the id of the process  *)
Exec(t) ==
  LET p == owner[t]
  IN /\ Alive(t) /\ call[t].name = "exec"
     /\ owner' = [x \in Threads |-> IF x = p THEN p ELSE IF owner[x] = p THEN None ELSE owner[x]]
     /\ proc' = [proc EXCEPT ![p] = call[t].file]
     /\ LET others == [x \in Threads |-> IF owner[x] = p THEN Idle ELSE call[x]]
        IN IF p \in DOMAIN execArgs
           THEN /\ freed' = With(freed, p, execArgs[p])
                /\ execArgs' = Without(execArgs, p)
                /\ call' = [others EXCEPT ![p] = [name |-> "emit"]]
                /\ UNCHANGED traced
           ELSE /\ call' = others
                /\ traced' = [traced EXCEPT ![p] = [sure |-> FALSE, exec |-> 0]]
                /\ UNCHANGED <<freed, execArgs>>
     /\ UNCHANGED <<fileStage, ring, mode, builder, stop, version, born, calls, reserved>>

EmitExec(p) ==
  /\ p \in DOMAIN freed
  /\ LET right == freed[p] = proc[p]
     IN /\ Reserve([Record("exec", p, freed[p]) EXCEPT !.sure = right, !.exec = reserved + 1])
        /\ traced' = [traced EXCEPT ![p] =
                        IF HasRoom /\ right THEN [sure |-> TRUE, exec |-> reserved + 1]
                        ELSE [sure |-> FALSE, exec |-> 0]]
  /\ freed' = Without(freed, p)
  /\ call' = [call EXCEPT ![p] = Idle]
  /\ UNCHANGED <<owner, proc, execArgs, fileStage, mode, builder, stop, version, born, calls>>

(* sys_enter_openat stages a call that may create *)
EnterOpenat(t, f, creat) ==
  /\ Calls(t)
  /\ call' = [call EXCEPT ![t] = [name |-> "open", file |-> f]]
  /\ fileStage' \in IF creat THEN Stage(fileStage, t, f) ELSE {fileStage}
  /\ UNCHANGED <<owner, proc, execArgs, freed, ring, mode, builder, stop, version, born, history>>

(* sys_exit_openat of a call that succeeded *)
ExitOpenat(t) ==
  LET p == owner[t]
  IN /\ Alive(t) /\ call[t].name = "open"
     /\ call' = [call EXCEPT ![t] = Idle]
     /\ IF p \in DOMAIN fileStage
        THEN Reserve(Record("file", p, fileStage[p])) /\ fileStage' = Without(fileStage, p)
        ELSE UNCHANGED <<ring, reserved, fileStage>>
     /\ UNCHANGED <<owner, proc, execArgs, freed, mode, builder, stop, version, born, calls, traced>>

(* sys_enter_connect to an internet address *)
Connect(t) ==
  /\ Calls(t) /\ Reserve(Record("net", owner[t], None))
  /\ UNCHANGED <<kernel, mode, builder, stop, version, born, traced>>

(* sys_enter_sendto and sys_enter_sendmsg, of whatever payload *)
Send(t, q) ==
  /\ Calls(t) /\ Reserve(Record("dns", owner[t], q))
  /\ UNCHANGED <<kernel, mode, builder, stop, version, born, traced>>

(* sched_process_exit: only the exit of a leader is recorded, be there other *)
(* threads left or not                                                       *)
IsLeader(t) == t \in Pids
Exit(t) ==
  LET p == owner[t]
      last == \A x \in Threads \ {t} : owner[x] # p
  IN /\ InUser(t) /\ (IsLeader(t) => p \notin DOMAIN freed)
     /\ owner' = [owner EXCEPT ![t] = None]
     /\ IF IsLeader(t)
        THEN /\ Reserve(Record("exit", p, None))
             /\ traced' = [traced EXCEPT ![p] =
                             [sure |-> HasRoom \/ (@.sure /\ @.exec = 0), exec |-> 0]]
        ELSE UNCHANGED <<ring, history>>
     /\ proc' = IF last THEN [proc EXCEPT ![p] = None] ELSE proc
     /\ UNCHANGED <<call, execArgs, fileStage, freed, mode, builder, stop, version, born, calls>>

(* No probe sees a new process or a new thread *)
Fork(t, p) ==
  /\ Alive(t) /\ proc[p] = None /\ born < MaxBorn /\ born' = born + 1
  /\ mode # "start"
  /\ owner' = [owner EXCEPT ![p] = p]
  /\ proc' = [proc EXCEPT ![p] = proc[owner[t]]]
  /\ UNCHANGED <<call, execArgs, fileStage, freed, ring, mode, builder, stop, version, calls, history>>

Clone(t, new) ==
  /\ Calls(t) /\ owner[new] = None
  /\ owner' = [owner EXCEPT ![new] = owner[t]]
  /\ UNCHANGED <<call, proc, execArgs, fileStage, freed, ring, mode, builder, stop, version, born, history>>

Rewrite(f) ==
  /\ \A g \in Images : version[g] <= MaxRewrites
  /\ version' = [version EXCEPT ![f] = @ + 1]
  /\ UNCHANGED <<kernel, ring, mode, builder, stop, born, calls, history>>

-----------------------------------------------------------------------------
(* The collector *)

(* has_required_privileges and new: any probe that does not load ends it,    *)
(* and the caller goes on without it                                         *)
HasPrivileges(root, caps) ==
  root \/ "SYS_ADMIN" \in caps \/ {"BPF", "PERFMON"} \subseteq caps
New ==
  /\ mode = "start"
  /\ \E root \in BOOLEAN, caps \in SUBSET {"SYS_ADMIN", "BPF", "PERFMON"}, attached \in BOOLEAN :
       mode' = IF HasPrivileges(root, caps) /\ attached THEN "sleep" ELSE "ended"
  /\ UNCHANGED <<kernel, ring, builder, stop, version, born, calls, history>>

(* stop is looked at before a sleep only, so a ring that fills again at once *)
(* is drained on                                                             *)
Wake ==
  /\ mode = "sleep" /\ mode' = "drain"
  /\ UNCHANGED <<kernel, ring, builder, stop, version, born, calls, history>>
Drained ==
  /\ mode = "drain" /\ ring = <<>>
  /\ mode' = IF stop THEN "ended" ELSE "sleep"
  /\ UNCHANGED <<kernel, ring, builder, stop, version, born, calls, history>>
ReceiverGone ==   \* tx.send(..).is_err()
  /\ mode = "drain" /\ ring # <<>> /\ stop /\ mode' = "ended"
  /\ UNCHANGED <<kernel, ring, builder, stop, version, born, calls, history>>
Stop ==
  /\ ~stop /\ stop' = TRUE
  /\ UNCHANGED <<kernel, ring, mode, builder, version, born, calls, history>>

(* An event is rendered to XML and parsed again, and the parser must accept it *)
Renders(texts) == texts \cap Unprintable = {}
Event(rec, id) ==
  [id |-> id, kind |-> rec.kind, n |-> rec.n, ran |-> rec.ran, sure |-> rec.sure,
   exec |-> rec.exec]
SendEvent(rec, id, texts) ==
  IF Renders(texts)
  THEN mode' = "drain" /\ out' = Event(rec, id) /\ ring' = Tail(ring)
  ELSE mode' = "panicked" /\ UNCHANGED <<out, ring>>

(* parse_query_name: a query with at least one label and nothing compressed,  *)
(* all of it in the bytes that were copied                                    *)
QueryName(q) ==
  IF q.response \/ q.questions = 0 \/ q.labels \notin 1 .. 16 \/ q.compressed \/ q.cut
  THEN None ELSE q.name

(* new_guid: unlike any other, so it can be named by the record for which it *)
(* is made. NULL_GUID is that of no record.                                  *)
NewGuid(rec) == rec.n
NullGuid == 0

(* What parents knows of the process, or the given guid and "-" as its image *)
Identity(rec, unknown) ==
  IF rec.pid \in DOMAIN parents THEN parents[rec.pid] ELSE [guid |-> unknown, image |-> None]

Builds(kinds) ==
  /\ mode = "drain" /\ ring # <<>> /\ Head(ring).kind \in kinds
  /\ UNCHANGED <<kernel, hashes, hashOrder, stop, version, born, calls, history>>

(* net_event: all that is not known of a process is null                     *)
BuildNet ==
  LET id == Identity(Head(ring), NullGuid)
  IN /\ Builds({"net"})
     /\ SendEvent(Head(ring), id, {id.image})
     /\ UNCHANGED <<parents, hashing>>

(* file_create_event: an event of an unknown process has a guid of its own   *)
BuildFile ==
  LET rec == Head(ring)
      id == Identity(rec, NewGuid(rec))
  IN /\ Builds({"file"})
     /\ SendEvent(rec, id, {id.image, rec.what})
     /\ UNCHANGED <<parents, hashing>>

(* dns_event: so has that of a query, and what is no query makes no event    *)
BuildDns ==
  LET rec == Head(ring)
      id == Identity(rec, NewGuid(rec))
  IN /\ Builds({"dns"})
     /\ IF QueryName(rec.what) = None
        THEN ring' = Tail(ring) /\ UNCHANGED <<mode, out>>
        ELSE SendEvent(rec, id, {id.image})
     /\ UNCHANGED <<parents, hashing>>

(* exit_event *)
ForgetNothing(p) == parents
Forget(p) == Without(parents, p)
BuildExit ==
  LET rec == Head(ring)
  IN /\ Builds({"exit"})
     /\ IF rec.pid \in DOMAIN parents
        THEN /\ SendEvent(rec, parents[rec.pid], {parents[rec.pid].image})
             /\ parents' = Forget(rec.pid)
        ELSE ring' = Tail(ring) /\ UNCHANGED <<mode, out, parents>>
     /\ UNCHANGED hashing

(* exec_event. The path that is hashed is that of the image the id has now,  *)
(* and the one that was recorded when the process is gone.                   *)
Finish(rec) ==
  LET id == [guid |-> NewGuid(rec), image |-> rec.what]
  IN SendEvent(rec, id, {rec.what}) /\ parents' = With(parents, rec.pid, id)
Resolved(rec) == IF proc[rec.pid] # None THEN proc[rec.pid] ELSE rec.what

(* cached_sha256: what is cached under the mtime of the file is reported, as *)
(* is nothing of a file that is not there, and any other has to be read      *)
Cached(path) == path \in DOMAIN hashes /\ hashes[path].mtime = version[path]
BuildExec ==
  LET rec == Head(ring)
      path == Resolved(rec)
  IN /\ Builds({"exec"})
     /\ \/ Finish(rec) /\ UNCHANGED hashing
        \/ /\ ~Cached(path)
           /\ hashing' = [path |-> path, mtime |-> version[path]]
           /\ mode' = "hash" /\ UNCHANGED <<ring, out, parents>>

(* and the rest: at the limit the path that was pushed first goes, be it     *)
(* pushed again since or gone already                                        *)
Evicts == Cardinality(DOMAIN hashes) >= HashCap /\ hashOrder # <<>>
EvictOrderOnly == [map |-> hashes, order |-> IF Evicts THEN Tail(hashOrder) ELSE hashOrder]
Evict == IF Evicts THEN [map |-> Without(hashes, Head(hashOrder)), order |-> Tail(hashOrder)]
         ELSE [map |-> hashes, order |-> hashOrder]
RememberStatAfterRead(path, mtime, hash) ==
  /\ hashOrder' = Append(Evict.order, path)
  /\ hashes' = With(Evict.map, path, [mtime |-> version[path], hash |-> mtime])
Remember(path, mtime, hash) ==
  /\ hashOrder' = Append(Evict.order, path)
  /\ hashes' = With(Evict.map, path, [mtime |-> mtime, hash |-> hash])
ReadImage ==
  /\ mode = "hash" /\ hashing' = None
  /\ Finish(Head(ring))
  /\ \/ Remember(hashing.path, hashing.mtime, version[hashing.path])
     \/ UNCHANGED <<hashes, hashOrder>>   \* it could not be read
  /\ UNCHANGED <<kernel, stop, version, born, calls, history>>

-----------------------------------------------------------------------------
Kernel == \/ \E t \in Threads : CallFails(t) \/ Exec(t) \/ ExitOpenat(t) \/ Connect(t) \/ Exit(t)
          \/ \E t \in Threads, f \in Images : EnterExecve(t, f) \/ EnterExecveat(t, f)
          \/ \E t \in Threads, f \in Created, creat \in BOOLEAN : EnterOpenat(t, f, creat)
          \/ \E t \in Threads, q \in Queries : Send(t, q)
          \/ \E t \in Threads, p \in Pids : Fork(t, p)
          \/ \E t \in Threads, new \in Tids : Clone(t, new)
          \/ \E p \in Pids : EmitExec(p)
          \/ \E f \in Images : Rewrite(f)
Collector == \/ New \/ Wake \/ Drained \/ ReceiverGone
             \/ BuildNet \/ BuildFile \/ BuildDns \/ BuildExit \/ BuildExec \/ ReadImage
Next == Kernel \/ Collector \/ Stop

Spec == Init /\ [][Next]_vars

-----------------------------------------------------------------------------
(* Properties *)

(* The process guid and the image an event is sent with. Of a process that   *)
(* has left an exec in the ring since it has its id, whatever the id was     *)
(* used for before, however late the record is read, and which threads and   *)
(* processors took part: the guid of the event of that exec, made for the    *)
(* last of them, and the image it runs. Of one that has not: no image, and   *)
(* no guid that another event has, the null one for a connection and a new   *)
(* one for a file or a query. Exempt is a process that runs under an id of   *)
(* which the probes dropped or misread a change, until the next that they    *)
(* record: an id whose exit was dropped keeps the identity it had.           *)
IdentityIsTheCallers ==
  out # None /\ out.sure =>
    out.id = IF out.exec # 0 THEN [guid |-> out.exec, image |-> out.ran]
             ELSE [guid |-> IF out.kind = "net" THEN NullGuid ELSE out.n, image |-> None]

(* A hash that is taken from the cache is that of the content the file has:  *)
(* a file rewritten between its stat and its reading, or again and again, is *)
(* never reported with the hash of another content.                          *)
HashesAreOfTheContent ==
  \A f \in DOMAIN hashes : hashes[f].mtime = version[f] => hashes[f].hash = version[f]

(* Whatever was evicted, replaced or pushed twice, a path whose hash is kept *)
(* is in the order from which paths are evicted, so that none stays for ever *)
EveryHashCanBeEvicted == DOMAIN hashes \subseteq {hashOrder[i] : i \in DOMAIN hashOrder}
=============================================================================
