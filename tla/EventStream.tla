---------------------------- MODULE EventStream ----------------------------
(***************************************************************************)
(* What a run of sigmacatch promises of the events of its source, seen     *)
(* from outside: they are examined in the order in which they were taken,  *)
(* none left out and none twice; a rule that an event captured is uploaded,*)
(* left to a later run, or has failed, and only one of these; and when the *)
(* run ends nothing is on its way.  A run that was cut may lose the events *)
(* that it had taken last, never one of those between.                     *)
(***************************************************************************)
EXTENDS Naturals, Sequences

VARIABLES taken,      \* how many events the source has given
          examined,   \* the events that were examined, by their numbers
          captured,   \* those of them whose rule waits for its upload
          uploaded, deferred, failed,   \* what became of the others
          lost,       \* was the run cut?
          ended

outcomes == <<uploaded, deferred, failed>>
streamVars == <<taken, examined, captured, outcomes, lost, ended>>

Init ==
  /\ taken = 0 /\ examined = <<>>
  /\ captured = {} /\ uploaded = {} /\ deferred = {} /\ failed = {}
  /\ lost = FALSE /\ ended = FALSE

\* A step may be the last if everything taken is examined and settled after it.
MayEnd ==
  /\ ended' \in BOOLEAN
  /\ ended' => captured' = {} /\ (lost' \/ Len(examined') = taken')

\* The collector of a run that was cut may outlive it.
Take ==
  /\ ~ended \/ lost
  /\ taken' = taken + 1
  /\ UNCHANGED <<examined, captured, outcomes, lost, ended>>

\* The next events are examined, and some of them capture their rule.
Examine ==
  /\ ~ended /\ captured = {}
  /\ \E n \in Len(examined) .. taken :
       /\ examined' = [i \in 1 .. n |-> i]
       /\ captured' \in SUBSET ((Len(examined) + 1) .. n)
  /\ MayEnd
  /\ UNCHANGED <<taken, outcomes, lost>>

\* What was captured is uploaded, all or a part; the last upload leaves nothing.
Upload ==
  /\ captured # {}
  /\ \E part \in (SUBSET captured) \ {{}} :
       /\ uploaded' = uploaded \cup part
       /\ deferred' = deferred \cup (captured \ part)
       /\ ended' => part = captured
  /\ captured' = {}
  /\ MayEnd
  /\ UNCHANGED <<taken, examined, failed, lost>>

Fail ==
  /\ captured # {}
  /\ failed' = failed \cup captured
  /\ captured' = {}
  /\ MayEnd
  /\ UNCHANGED <<taken, examined, uploaded, deferred, lost>>

\* A panic or a timeout; it may end the run.
Cut ==
  /\ ~lost /\ ~ended /\ captured = {}
  /\ lost' = TRUE
  /\ MayEnd
  /\ UNCHANGED <<taken, examined, captured, outcomes>>

\* A run that was cut ends.
Finish ==
  /\ lost /\ ~ended /\ captured = {}
  /\ ended' = TRUE
  /\ UNCHANGED <<taken, examined, captured, outcomes, lost>>

Next == Take \/ Examine \/ Upload \/ Fail \/ Cut \/ Finish

Spec == Init /\ [][Next]_streamVars

-----------------------------------------------------------------------------
\* What follows: a captured event was examined, and its rule waits for its upload
\* or has come to one end only.
OneEnd ==
  /\ captured \cup uploaded \cup deferred \cup failed \subseteq 1 .. Len(examined)
  /\ captured \cap (uploaded \cup deferred \cup failed) = {}
  /\ uploaded \cap (deferred \cup failed) = {} /\ deferred \cap failed = {}
=============================================================================
