------------------------------- MODULE MCEbpf -------------------------------
(* Two process ids and a third thread that take turns, one path that XML     *)
(* refuses, and two payloads: a query and an answer.                         *)
EXTENDS Ebpf, TLC
CONSTANT example
Payload == [response |-> FALSE, questions |-> 1, labels |-> 2, compressed |-> FALSE,
            cut |-> FALSE, name |-> example]
MCSymmetry == Permutations(Pids)
MCQueries == {Payload, [Payload EXCEPT !.response = TRUE]}
=============================================================================
