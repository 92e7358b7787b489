------------------------------ MODULE MCStartup ------------------------------
(* Every way of starting with up to three arguments and any config.yaml, on  *)
(* a machine with all sources; and every build on every machine, started     *)
(* without arguments.                                                        *)
EXTENDS Startup

Tokens == {"-o", "-c", "-n", "-r", "-h", "-x", "--author", "--hir-cache", "--evtx", "bob", "2",
           "list-rules"}

File(state, author, offline, contrib, cache, mode, key) ==
  [state |-> state, author |-> author, offline |-> offline, contrib |-> contrib,
   cache |-> cache, mode |-> mode, key |-> key]

Files == {File("ok", author, offline, contrib, cache, mode, key) :
            author \in {"sigmacatch", "bob"}, offline \in BOOLEAN, contrib \in BOOLEAN,
            cache \in BOOLEAN, mode \in {600, 644}, key \in {"none", "missing"}}
         \cup {DefaultConfig, [DefaultConfig EXCEPT !.state = "broken"]}

World(args, file, build, privileged, kernel, disk) ==
  [args |-> args, file |-> file, build |-> build, privileged |-> privileged,
   kernel |-> kernel, disk |-> disk]

Started == {World(args, file, {"auditd", "builtin", "evtx"}, FALSE, FALSE, {"audit.log"}) :
              args \in UNION {[1 .. n -> Tokens] : n \in 0 .. 3}, file \in Files}

Plain == File("ok", "bob", TRUE, FALSE, FALSE, 600, "none")

Builds == {{"winevt"}, {"auditd"}, {"ebpf"}, {"auditd", "builtin"}, {"builtin", "sysmon"},
           {"auditd", "builtin", "ebpf"}, {"auditd", "builtin", "sysmon", "ebpf"}}

Machines == {World(<<>>, Plain, build, privileged, kernel, disk) :
               build \in Builds, privileged \in BOOLEAN, kernel \in BOOLEAN,
               disk \in SUBSET {"audit.log", "syslog", "secure"}}

MCWorlds == Started \cup Machines
=============================================================================
