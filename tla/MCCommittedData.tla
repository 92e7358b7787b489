-------------------------- MODULE MCCommittedData --------------------------
(* A Windows rule and a Linux rule with what a clone may hold of them: whole *)
(* data, and data with one thing wrong at a time.                            *)
EXTENDS CommittedData
CONSTANTS w, x

One == [r \in Rules |-> IF r = w THEN 1 ELSE 0]
Both == [r \in Rules |-> 1]
File(holds, events, hits, ends) == [holds |-> holds, events |-> events, hits |-> hits, ends |-> ends]
Test(type, n, path, pipelines) ==
  [type |-> type, count |-> n, path |-> path, pipelines |-> pipelines, pipelinesFound |-> TRUE]

Dir(tests, files) == [lines |-> Canonical(tests), tests |-> tests, files |-> files]
EvtxFile(hits) == [NoFiles EXCEPT !["evtx"] = File("evtx", 1, hits, 0)]
WithJson(d, f) == [d EXCEPT !.files["json"] = f]
Fix2(lines) == [i \in DOMAIN lines |-> [lines[i] EXCEPT !.col = IF @ = 0 THEN 0 ELSE @ - 2]]
Insert(lines, i, l) == SubSeq(lines, 1, i) \o <<l>> \o SubSeq(lines, i + 1, Len(lines))

Good == Dir(<<Test("evtx", 1, "evtx", <<>>)>>, EvtxFile(One))
Doc(ends) == File("document", 1, One, ends)
TwoTests == WithJson(Dir(<<Test("evtx", 1, "evtx", <<>>), Test("json", 1, "json", <<"p.yml", "q.yml">>)>>,
                         EvtxFile(Both)), Doc(1))
Windowses ==
  { None, Good, [Good EXCEPT !.lines = <<>>],
    WithJson(Good, Doc(1)), WithJson(Good, Doc(2)), WithJson(Good, File("garbage", 0, One, 1)),
    WithJson([Good EXCEPT !.tests[1].count = 2], Doc(1)),
    TwoTests, [TwoTests EXCEPT !.lines = Serde(TwoTests.tests)], [TwoTests EXCEPT !.lines = Fix2(@)],
    [TwoTests EXCEPT !.tests[2].pipelinesFound = FALSE],
    [Good EXCEPT !.lines = Insert(@, 7, Line("note", 6))],     \* an unknown key of the test
    [Good EXCEPT !.lines = Insert(@, 5, Line("note", 0))],     \* and one of the document
    Dir(<<>>, EvtxFile(One)),
    Dir(<<Test("ndjson", 1, "evtx", <<>>)>>, EvtxFile(Both)),
    Dir(<<Test("evtx", 1, "evtx", <<>>)>>, NoFiles),
    Dir(<<Test("evtx", 1, "log", <<>>)>>, [NoFiles EXCEPT !["log"] = File("audit", 1, One, 1)]),
    Dir(<<Test("evtx", 1, "evtx", <<>>)>>, EvtxFile([r \in Rules |-> 0])) }
Linuxes ==
  { None, Dir(<<Test("log", 1, "log", <<>>)>>, [NoFiles EXCEPT !["log"] = File("audit", 1, Both, 1)]),
    Dir(<<Test("log", 1, "log", <<>>)>>, [NoFiles EXCEPT !["log"] = File("audit", 1, One, 1)]),
    Dir(<<Test("raw", 1, "raw", <<>>)>>, [NoFiles EXCEPT !["raw"] = File("garbage", 1, One, 1)]),
    Dir(<<Test("json", 1, "json", <<>>)>>, [NoFiles EXCEPT !["json"] = File("ndjson", 2, Both, 0)]) }
MCCommitted == [r \in Rules |-> IF r = w THEN Windowses ELSE Linuxes]

RuleFile(names) == [there |-> TRUE, parses |-> TRUE, compiles |-> TRUE, names |-> names]
MCRuleFiles == [r \in Rules |->
  IF r = w THEN {RuleFile(w), RuleFile(x), [RuleFile(w) EXCEPT !.parses = FALSE]}
  ELSE {RuleFile(x), RuleFile("nowhere"), [RuleFile(None) EXCEPT !.compiles = FALSE],
        [RuleFile(None) EXCEPT !.there = FALSE]}]
=============================================================================
