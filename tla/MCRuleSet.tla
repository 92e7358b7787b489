----------------------------- MODULE MCRuleSet -----------------------------
(* Five files in four directories, one of which has a second name: an id     *)
(* found twice with different rules, an update that does not compile, a      *)
(* document that does not parse, a rule without status, one without an id,   *)
(* and one whose id is not in canonical form.                                *)
EXTENDS RuleSet, TLC
CONSTANTS f1, f2, f3, f4, f5, u1, u2, A1, A2, Bad, B1, B2, L1, O1

Doc(u, form) ==
  [uuid |-> u, form |-> form, product |-> "windows", status |-> "stable",
   level |-> "high", authors |-> {"ann"}, service |-> "sysmon", category |-> None,
   timeframe |-> FALSE, parse |-> "ok", compiles |-> TRUE]

MCMeta ==
     (A1 :> Doc(u1, "canonical"))
  @@ (A2 :> [Doc(u1, "canonical") EXCEPT !.status = "test", !.timeframe = TRUE])
  @@ (Bad :> [Doc(u1, "canonical") EXCEPT !.compiles = FALSE])
  @@ (B1 :> [Doc(u2, "canonical") EXCEPT !.status = None, !.level = "low", !.service = None,
                                         !.category = "ps_script"])
  @@ (B2 :> [Doc(u2, "canonical") EXCEPT !.parse = "err"])
  @@ (L1 :> [Doc(None, "none") EXCEPT !.product = "linux", !.level = "low", !.authors = {}])
  @@ (O1 :> Doc(u2, "other"))

At(dir, deep, name, ext, docs) ==
  [dir |-> dir, deep |-> deep, name |-> name, ext |-> ext, docs |-> docs]

MCPlace == (f1 :> At("rules", FALSE, "a.yml", "yml", {A1, A2, Bad}))
        @@ (f2 :> At("x", FALSE, "b.yml", "yml", {A1, B1}))
        @@ (f3 :> At("rules", TRUE, "c.yaml", "yaml", {B1, B2, O1}))
        @@ (f4 :> At("y", FALSE, "d.yml", "yml", {L1}))
        @@ (f5 :> At("compliance", FALSE, "e.yml", "yml", {B1}))
MCCalled == [rules |-> {"rules"}, x |-> {"rules-*"}, y |-> {"rules-*", "other"},
             compliance |-> {"rules-compliance"}]
MCFilters == {[product |-> "windows", min_status |-> None, min_level |-> None, author |-> None],
              [product |-> "windows", min_status |-> "stable", min_level |-> "medium",
               author |-> "ann"]}
MCService == [s \in {"sysmon"} |-> {"Sysmon/Operational"}]
MCCategory == [c \in {"ps_script"} |-> {"PowerShell/Operational"}]
=============================================================================
