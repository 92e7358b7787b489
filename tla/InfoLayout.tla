----------------------------- MODULE InfoLayout -----------------------------
(***************************************************************************)
(* The layout of an info.yml: how InfoYml::save indents what serde_yaml    *)
(* writes, how regressiondata-check compares a committed file with that    *)
(* canonical layout, and how its --fix indents it again.  A document is a  *)
(* sequence of lines; of a line only its key, whether it is the item of a  *)
(* sequence, whether its value follows on the next lines, and its column   *)
(* matter.  Comments and blank lines are left alone and left out.          *)
(***************************************************************************)
EXTENDS Naturals, Sequences, SequencesExt, FiniteSetsExt

Line(key, col) == [key |-> key, item |-> FALSE, bare |-> FALSE, col |-> col]
Item(key, col) == [Line(key, col) EXCEPT !.item = TRUE]
Block(key, col) == [Line(key, col) EXCEPT !.bare = TRUE]

-----------------------------------------------------------------------------
(* What serde_yaml writes: a sequence starts at the column of its key. *)

SerdeTest(t) ==
  <<Item("name", 0), Line("type", 2)>>
  \o (IF t.pipelines = <<>> THEN <<>>
      ELSE <<Block("pipelines", 2)>> \o [i \in DOMAIN t.pipelines |-> Item(t.pipelines[i], 2)])
  \o <<Line("path", 2)>>

Serde(tests) ==
  <<Line("id", 0), Block("rule_metadata", 0), Item("id", 0), Line("title", 2)>>
  \o (IF tests = <<>> THEN <<Line("regression_tests_info", 0)>>
      ELSE <<Block("regression_tests_info", 0)>>
           \o FlattenSeq([i \in DOMAIN tests |-> SerdeTest(tests[i])]))

-----------------------------------------------------------------------------
(* to_sigma_indent: four columns below the key that owns a sequence. *)

NoKey == [src |-> 0, col |-> 0, open |-> FALSE]

\* Mutant: the keys of an item come two columns further in, like everything else.
ColumnTwo(line, key) ==
  IF line.item THEN (IF key.open /\ key.src = line.col THEN key.col + 4 ELSE line.col + 4)
  ELSE IF line.col = 0 THEN 0 ELSE line.col + 2

\* The new column of a line, given the innermost open key with its old and new column.
Column(line, key) ==
  IF line.item THEN (IF key.open /\ key.src = line.col THEN key.col + 4 ELSE line.col + 4)
  ELSE IF line.col = 0 THEN 0 ELSE line.col + 4

\* A sequence leaves its key open; a sibling of the key closes it.
OpenKey(line, col, key) ==
  IF line.item THEN key
  ELSE IF line.bare THEN [src |-> line.col, col |-> col, open |-> TRUE]
  ELSE IF line.col <= key.src THEN NoKey ELSE key

\* The key that is open after the first i lines.
OpenAfter(lines) ==
  LET key[i \in 0 .. Len(lines)] ==
        IF i = 0 THEN NoKey
        ELSE OpenKey(lines[i], Column(lines[i], key[i - 1]), key[i - 1])
  IN key

ToSigmaIndent(lines) ==
  [i \in DOMAIN lines |-> [lines[i] EXCEPT !.col = Column(lines[i], OpenAfter(lines)[i - 1])]]

Canonical(tests) == ToSigmaIndent(Serde(tests))

-----------------------------------------------------------------------------
(* The check and the fix: a line is known by its key and by being an item. *)

Known(line, canonical) ==
  {i \in DOMAIN canonical : canonical[i].key = line.key /\ canonical[i].item = line.item}

\* The first line of the canonical document with this key decides.
CanonicalIndent(line, canonical) == canonical[Min(Known(line, canonical))].col

Misplaced(line, canonical) ==
  Known(line, canonical) # {} => CanonicalIndent(line, canonical) # line.col

NeedsReindent(lines, canonical) == \E i \in DOMAIN lines : Misplaced(lines[i], canonical)

AllKnown(lines, canonical) == \A i \in DOMAIN lines : Known(lines[i], canonical) # {}

\* A line that the canonical document does not have goes to the left margin.
Reindent(lines, canonical) ==
  [i \in DOMAIN lines |->
     [lines[i] EXCEPT !.col = IF Known(lines[i], canonical) = {} THEN 0
                              ELSE CanonicalIndent(lines[i], canonical)]]

-----------------------------------------------------------------------------
(* The YAML reader: to which earlier line a line belongs. *)

ContentColumn(line) == IF line.item THEN line.col + 2 ELSE line.col

\* A key at the margin belongs to the document, any other to an item whose content
\* starts in its column; an item belongs to a key that waits for its value.
Owners(lines, i) ==
  LET line == lines[i]
      between(j) == {lines[k] : k \in (j + 1)..(i - 1)}
  IN IF line.item
     THEN {j \in 1..(i - 1) :
             /\ lines[j].bare /\ ContentColumn(lines[j]) <= line.col
             /\ \A l \in between(j) : l.col > line.col \/ (l.item /\ l.col = line.col)}
     ELSE IF line.col = 0 THEN {0}
     ELSE {j \in 1..(i - 1) :
             /\ lines[j].item /\ ContentColumn(lines[j]) = line.col
             /\ \A l \in between(j) : l.col >= line.col}

\* Does serde_yaml read the document, and as what?  Keys it does not know are ignored.
WellNested(lines) == lines # <<>> /\ \A i \in DOMAIN lines : Owners(lines, i) # {}
Nesting(lines) == [i \in DOMAIN lines |-> Max(Owners(lines, i))]
=============================================================================
