---------------------------------- MODULE Rules ----------------------------------
(***************************************************************************)
(* sigma and yaralite, which run a set of rules over the case: each rule     *)
(* becomes an INSERT ... SELECT whose WHERE is built as text.                *)
(*                                                                           *)
(* A row is [no, table, holds, absent]: the comparisons that hold for it, and *)
(* the columns that are NULL.  A rule of sigma is                            *)
(*   [table, words, selections, starts]                                      *)
(* where table is "" for a source the engine does not know, words are what    *)
(* stands between the condition's blanks, and starts has for each pattern the *)
(* names it is the beginning of.  A selection is [kind |-> "map", conds],      *)
(* [kind |-> "list", maps] or [kind |-> "other"], a cond                       *)
(* [column, nil, all, tests], column "" for an unknown field.  A rule of       *)
(* yaralite is [targets, all, strings].                                      *)
(***************************************************************************)
EXTENDS Integers, Sequences, SequencesExt, FiniteSets

CONSTANTS RuleSets,      \* [file: [engine, rules, rows, before], meant, plain]
          Targets,       \* yaralite's tables
          MaxRowFaults   \* bound: statements that fail

VARIABLES made, stage,
          pos,     \* the rule that is run next
          mem,     \* targets left of a rule of yaralite
          aux,     \* statements that have failed
          out,     \* ioc_indicators, a bag of hits [by, rule, row]
          done
vars == <<made, stage, pos, mem, aux, out, done>>
file == made.file
Rule == file.rules[pos]

\* How often the table has each hit that it has.
IsTable(table) == table \in [DOMAIN table -> Nat \ {0}]
\* Rules come one after another, a row is known by its number, and the table is a bag.
RuleAssumption ==
  /\ MaxRowFaults \in Nat
  /\ \A m \in RuleSets : /\ m.file.rules \in Seq(ToSet(m.file.rules)) /\ IsTable(m.file.before)
                         /\ \A r, q \in m.file.rows : r.no = q.no => r = q

Init == /\ made \in RuleSets /\ stage = "clear" /\ pos = 1 /\ mem = {} /\ aux = 0
        /\ out = made.file.before /\ done = "no"

Fault == aux < MaxRowFaults /\ aux' = aux + 1
-----------------------------------------------------------------------------
(* SQL's logic: 0 is false, 1 is NULL, 2 is true.  A text without brackets     *)
(* around it is a sequence of conjunctions, since AND binds before OR whatever *)
(* the text was put together from.                                           *)

Atom(v) == <<<<v>>>>
True == Atom(2)
ValueOf(text) == Max({Min(ToSet(text[i])) : i \in DOMAIN text})
Bare(text) == text      \* FAULTY: the brackets are forgotten
Bracketed(text) == Atom(ValueOf(text))
Negated(text) == Atom(2 - ValueOf(text))
Or(left, right) == left \o right
And(left, right) == Front(left) \o <<Last(left) \o right[1]>> \o Tail(right)
Joined(op, texts) == FoldLeft(LAMBDA l, r : IF op = "and" THEN And(l, r) ELSE Or(l, r), texts[1], Tail(texts))
JoinedOrTrue(op, texts) == IF texts = <<>> THEN True ELSE Joined(op, texts)

\* buildCondSQL: a regular expression matches nothing.
Test(row, column, t) ==
  CASE t = "null" -> Atom(IF column \in row.absent THEN 2 ELSE 0)
    [] t = "re" -> Atom(0)
    [] OTHER -> Atom(IF column \in row.absent THEN 1 ELSE IF t \in row.holds THEN 2 ELSE 0)
\* buildFieldCond: a field that has no column is left out of the rule.
Cond(row, c) ==
  IF c.column = "" \/ (c.tests = <<>> /\ ~c.nil) THEN True
  ELSE IF c.nil THEN Test(row, c.column, "null")
  ELSE Bracketed(Joined(IF c.all THEN "and" ELSE "or", [i \in DOMAIN c.tests |-> Test(row, c.column, c.tests[i])]))
MapText(row, conds) == JoinedOrTrue("and", [i \in DOMAIN conds |-> Cond(row, conds[i])])
\* buildSelectionSQL: of a list of maps any; no brackets around either.
SelectionText(row, s) ==
  CASE s.kind = "map" -> MapText(row, s.conds)
    [] s.kind = "list" -> JoinedOrTrue("or", [i \in DOMAIN s.maps |-> Bracketed(MapText(row, s.maps[i]))])
    [] OTHER -> True

Word(rule, i) == IF i \in DOMAIN rule.words THEN rule.words[i] ELSE ""
Texts(rule, row, pattern) ==
  LET names == IF pattern \in DOMAIN rule.starts THEN rule.starts[pattern] ELSE <<>>
  IN [i \in DOMAIN names |-> Bracketed(SelectionText(row, rule.selections[names[i]]))]

\* parseCondExpr and parseCondTerm: from left to right, a selection's text for its name, TRUE
\* for whatever is no name (a bracket that touches a word makes it none), up to the first word
\* that is no operator.
Condition(rule, row) ==
  LET parse[what \in {"expr", "rest", "term"}, i \in Nat, left \in Seq(Seq(0..2))] ==
        LET word == Word(rule, i)
        IN CASE what = "expr" -> LET t == parse["term", i, left] IN parse["rest", t.next, t.text]
             [] what = "rest" ->
                  IF word \notin {"and", "or"} THEN [text |-> left, next |-> i]
                  ELSE LET right == parse["term", i + 1, left]
                       IN parse["rest", right.next, Bracketed(Joined(word, <<left, right.text>>))]
             [] word = "not" -> LET t == parse["term", i + 1, left] IN [text |-> Negated(t.text), next |-> t.next]
             [] word = "(" -> LET t == parse["expr", i + 1, left]
                              IN [text |-> Bracketed(t.text),
                                  next |-> t.next + (IF Word(rule, t.next) = ")" THEN 1 ELSE 0)]
             [] word \in {"1", "all"} /\ Word(rule, i + 1) = "of" /\ i + 2 \in DOMAIN rule.words ->
                  [text |-> JoinedOrTrue(IF word = "1" THEN "or" ELSE "and", Texts(rule, row, Word(rule, i + 2))),
                   next |-> i + 3]
             [] word \in DOMAIN rule.selections -> [text |-> SelectionText(row, rule.selections[word]), next |-> i + 1]
             [] OTHER -> [text |-> True, next |-> IF i \in DOMAIN rule.words THEN i + 1 ELSE i]
  IN parse["expr", 1, <<>>].text
-----------------------------------------------------------------------------
(* RunAll and ScanAll: the engine's hits of an earlier run are cleared, then   *)
(* one statement for a rule, or for each of its targets.  One that fails is    *)
(* counted and the next is run.                                              *)

Others(engine, table) == [h \in {x \in DOMAIN table : x.by # engine} |-> table[h]]
ClearFails == /\ stage = "clear" /\ done = "no" /\ Fault
              /\ done' = "err" /\ UNCHANGED <<made, stage, pos, mem, out>>
Clear == /\ stage = "clear" /\ done = "no"
         /\ out' = Others(file.engine, out)
         /\ stage' = "run" /\ UNCHANGED <<made, pos, mem, aux, done>>

Running(engine) == stage = "run" /\ done = "no" /\ file.engine = engine /\ pos <= Len(file.rules)
Hit(row) == [by |-> file.engine, rule |-> pos, row |-> row.no]
Copies(table, h) == IF h \in DOMAIN table THEN table[h] ELSE 0
Added(table, hits) ==
  [h \in DOMAIN table \cup hits |-> Copies(table, h) + IF h \in hits THEN 1 ELSE 0]
Insert(rows) ==
  \/ out' = Added(out, {Hit(row) : row \in rows}) /\ UNCHANGED aux
  \/ Fault /\ UNCHANGED out

NextRule == pos' = pos + 1 /\ mem' = {}
Refused(rule) == rule.table = "" \/ rule.words = <<>>
Meets(rule, row) == row.table = rule.table /\ ValueOf(Condition(rule, row)) = 2
RunRule ==
  /\ Running("sigma")
  /\ IF Refused(Rule) THEN UNCHANGED <<aux, out>> ELSE Insert({row \in file.rows : Meets(Rule, row)})
  /\ NextRule /\ UNCHANGED <<made, stage, done>>

\* resolveTargets: of a rule that names none, all.  Each is scanned once, in an order that the
\* model leaves open (the code's is that of a slice): no statement reads what another has stored.
TargetsOf(rule) ==
  IF rule.targets = <<>> \/ "all" \in ToSet(rule.targets) THEN Targets ELSE ToSet(rule.targets) \cap Targets
Strings(rule) == SelectSeq(rule.strings, LAMBDA s : s # "")
BuildWhere(rule, row) ==
  Bracketed(Joined(IF rule.all THEN "and" ELSE "or",
                   [i \in DOMAIN Strings(rule) |-> Test(row, "text", Strings(rule)[i])]))

HasStrings(rule, row) == ValueOf(BuildWhere(rule, row)) = 2

ResolveTargets ==
  /\ Running("yaralite") /\ mem = {}
  /\ IF Strings(Rule) = <<>> \/ TargetsOf(Rule) = {} THEN NextRule ELSE mem' = TargetsOf(Rule) /\ UNCHANGED pos
  /\ UNCHANGED <<made, stage, aux, out, done>>
ScanTarget ==
  /\ Running("yaralite")
  /\ \E t \in mem :
       /\ Insert({row \in file.rows : row.table = t /\ HasStrings(Rule, row)})
       /\ IF mem = {t} THEN NextRule ELSE mem' = mem \ {t} /\ UNCHANGED pos
  /\ UNCHANGED <<made, stage, done>>

Finish == /\ stage = "run" /\ done = "no" /\ pos > Len(file.rules)
          /\ done' = "eof" /\ UNCHANGED <<made, stage, pos, mem, aux, out>>

Next == ClearFails \/ Clear \/ RunRule \/ ResolveTargets \/ ScanTarget \/ Finish
-----------------------------------------------------------------------------
\* Every variable has its type.
TypeOK == /\ made \in RuleSets /\ stage \in {"clear", "run"} /\ pos \in 1..(Len(file.rules) + 1)
          /\ mem \subseteq Targets /\ IsTable(out)
          /\ aux \in 0..MaxRowFaults /\ done \in {"no", "eof", "err"}

\* meant: for each rule the numbers of the rows it speaks of; plain: the rules whose
\* conditions are written so that the reader above takes them for what they are: no word touches
\* a bracket (convert.go:284), lists and patterns are bracketed (convert.go:115, 365), 1 of them is
\* not among them (convert.go:362), NOT stands over no column that can be NULL, and no string of a
\* yaralite rule is a regular expression, which becomes 1=0 (yaralite.go:224).  Those of a SIGMA
\* rule select nothing, as the comment there says (convert.go:201).
HitsOf(i) == {h.row : h \in {x \in DOMAIN out : x.by = file.engine /\ x.rule = i}}

\* The other engines' hits stay; the engine's own are those of this run alone, each once, and
\* a plain rule has hit the rows it speaks of, whatever became of the rules before it.
HitsAreTheRules ==
  /\ Others(file.engine, out) = Others(file.engine, file.before)
  /\ stage = "run" =>
       /\ \A h \in DOMAIN out : h.by = file.engine => out[h] = 1
       /\ \A i \in made.plain : HitsOf(i) \subseteq made.meant[i]
       /\ done = "eof" /\ aux = 0 => \A i \in made.plain : HitsOf(i) = made.meant[i]

\* "conditionToSQL converts a SIGMA condition string": of no rule a row is hit that the rule
\* does not speak of.
ConditionsAreRead == stage = "run" => \A i \in DOMAIN file.rules : HitsOf(i) \subseteq made.meant[i]
=============================================================================
