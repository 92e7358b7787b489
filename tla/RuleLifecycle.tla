--------------------------- MODULE RuleLifecycle ---------------------------
(***************************************************************************)
(* What sigmacatch promises of one rule, seen from outside: a rule is open *)
(* until its regression data is captured or its captures have failed too   *)
(* often.  Captured data is never touched again; a blocked rule is open    *)
(* again only in another process, because blocking is kept in memory.      *)
(***************************************************************************)
CONSTANT Rules

VARIABLES life,   \* [Rules -> {"open", "captured", "blocked"}]
          up      \* is a process running?

lifeVars == <<life, up>>

Init == /\ life \in [Rules -> {"open", "captured"}]
        /\ up = FALSE

Start == /\ ~up
         /\ up' = TRUE
         /\ UNCHANGED life

Capture(r) == /\ up
              /\ life[r] = "open"
              /\ life' = [life EXCEPT ![r] = "captured"]
              /\ UNCHANGED up

Block(r) == /\ up
            /\ life[r] = "open"
            /\ life' = [life EXCEPT ![r] = "blocked"]
            /\ UNCHANGED up

\* The process ends, by itself or killed: what it had blocked is open again.
Stop == /\ up
        /\ up' = FALSE
        /\ life' = [r \in Rules |-> IF life[r] = "blocked" THEN "open" ELSE life[r]]

Next == Start \/ Stop \/ \E r \in Rules : Capture(r) \/ Block(r)

Spec == Init /\ [][Next]_lifeVars
=============================================================================
