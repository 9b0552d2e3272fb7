-------------------------------- MODULE MCRules --------------------------------
(***************************************************************************)
(* Rules over eleven rows.  A condition is built with the rows it speaks of,  *)
(* so that what it means does not come from a parser.                        *)
(***************************************************************************)
EXTENDS Integers, Sequences, SequencesExt, FiniteSets, FiniteSetsExt, Bags, TLC

Row(no, table, holds, absent) == [no |-> no, table |-> table, holds |-> holds, absent |-> absent]
Whole ==
  [i \in 1..8 |-> Row(i, "t", (IF i % 2 = 0 THEN {"p"} ELSE {}) \union (IF (i - 1) \div 2 % 2 = 1 THEN {"q"} ELSE {})
                              \union (IF i > 4 THEN {"r"} ELSE {}), {})]
  \o <<Row(9, "u", {"p", "q", "r"}, {})>>
Holed == Whole \o <<Row(10, "t", {"r"}, {"c"}), Row(11, "t", {"p"}, {"d"})>>
Where(rows, holds(_)) == {row.no : row \in {x \in ToSet(rows) : x.table = "t" /\ holds(x)}}

Cond(column, all, tests) == [column |-> column, nil |-> FALSE, all |-> all, tests |-> tests]
Map(conds) == [kind |-> "map", conds |-> conds]
Selections ==
  [sel1 |-> Map(<<Cond("c", FALSE, <<"p">>), Cond("", FALSE, <<"x">>)>>),
   sel2 |-> [kind |-> "list", maps |-> <<<<Cond("c", FALSE, <<"q", "re">>)>>,
                                         <<Cond("c", TRUE, <<"p">>), Cond("d", FALSE, <<"r">>)>>>>],
   filter |-> Map(<<Cond("c", TRUE, <<"p", "q">>)>>),
   none |-> Map(<<[column |-> "c", nil |-> TRUE, all |-> FALSE, tests |-> <<>>]>>),
   words |-> [kind |-> "other"]]
Starts == ("sel*" :> <<"sel1", "sel2">>) @@ ("filter*" :> <<"filter">>) @@ ("them" :> <<>>)

Phrase(words, rows) == [words |-> words, rows |-> rows]
Sel1(rows) == Phrase(<<"sel1">>, Where(rows, LAMBDA x : "p" \in x.holds))
Sel2(rows) == Phrase(<<"(", "sel2", ")">>, Where(rows, LAMBDA x : "q" \in x.holds \/ {"p", "r"} \subseteq x.holds))
Filter(rows) == Phrase(<<"filter">>, Where(rows, LAMBDA x : {"p", "q"} \subseteq x.holds))
OneOf(rows) == Phrase(<<"(", "1", "of", "sel*", ")">>, Sel1(rows).rows \union Sel2(rows).rows)
AllOf(rows) == Phrase(<<"(", "all", "of", "sel*", ")">>, Sel1(rows).rows \intersect Sel2(rows).rows)
Absent(rows) == Phrase(<<"none">>, Where(rows, LAMBDA x : "c" \in x.absent))
Not(c) == Phrase(<<"not">> \o c.words, (1..8) \ c.rows)
Both(op, l, r) ==
  Phrase(l.words \o <<op>> \o r.words, IF op = "and" THEN l.rows \intersect r.rows ELSE l.rows \union r.rows)
In(c) == [c EXCEPT !.words = <<"(">> \o @ \o <<")">>]
Glued(c) == [c EXCEPT !.words = <<"(" \o @[1]>> \o Front(Tail(@)) \o <<Last(@) \o ")">>]

Ops == <<"and", "or">>
Each(f(_), cs) == [i \in DOMAIN cs |-> f(cs[i])]
Pairs(ls, rs) ==
  [n \in 1..(2 * Len(ls) * Len(rs)) |->
     Both(Ops[(n % 2) + 1], ls[(((n - 1) \div 2) \div Len(rs)) + 1], rs[(((n - 1) \div 2) % Len(rs)) + 1])]
Names(rows) == <<Sel1(rows), Sel2(rows), Filter(rows), OneOf(rows), AllOf(rows)>>
Terms == Names(Whole) \o Each(Not, Names(Whole))
Few == <<Sel1(Whole), Not(Filter(Whole)), OneOf(Whole)>>
Nested == Each(In, Pairs(Few, Few))
Conditions == Terms \o Pairs(Terms, Names(Whole)) \o Pairs(Few, Terms) \o Each(Not, Nested) \o Pairs(Nested, Few) \o Pairs(Few, Nested)
HoledConditions ==
  Names(Holed) \o Pairs(Names(Holed), Names(Holed)) \o <<Absent(Holed), Both("or", Absent(Holed), Sel1(Holed))>>
\* As rules are written: brackets that touch a word, and lists that are not bracketed.
Unbracketed(c) == [c EXCEPT !.words = Front(Tail(@))]
Loose ==
  <<Both("and", Glued(Unbracketed(OneOf(Whole))), Not(Filter(Whole))),
    Both("or", Sel1(Whole), Glued(Both("and", Sel2(Whole), Filter(Whole)))),
    Both("and", Glued(Both("or", Sel1(Whole), Unbracketed(Sel2(Whole)))), Not(Filter(Whole))),
    Both("and", Unbracketed(Sel2(Whole)), Not(Filter(Whole))),
    Both("and", Phrase(<<"1", "of", "them">>, OneOf(Whole).rows), Not(Filter(Whole)))>>

Before == {[by |-> "sigma", rule |-> 1, row |-> 99], [by |-> "yaralite", rule |-> 1, row |-> 99], [by |-> "detect", rule |-> 1, row |-> 1]}
Set(engine, rows, rules, meant, plain) ==
  [file |-> [engine |-> engine, rules |-> rules, rows |-> ToSet(rows), before |-> SetToBag(Before)], meant |-> meant, plain |-> plain]

Sigma(c) == [table |-> "t", words |-> c.words, selections |-> Selections, starts |-> Starts]
Unknown == [table |-> "", words |-> <<"sel1">>, selections |-> Selections, starts |-> Starts]
Unsaid == [table |-> "t", words |-> <<>>, selections |-> Selections, starts |-> Starts]
SigmaSet(rows, cs, plain) ==
  Set("sigma", rows, <<Unknown>> \o [i \in DOMAIN cs |-> Sigma(cs[i])] \o <<Unsaid>>,
      <<{}>> \o [i \in DOMAIN cs |-> cs[i].rows] \o <<{}>>,
      IF plain THEN 1..(Len(cs) + 2) ELSE {1, Len(cs) + 2})
Chunks(rows, conditions, n) ==
  {SigmaSet(rows, SubSeq(conditions, n * k + 1, Min({n * k + n, Len(conditions)})), TRUE) : k \in 0..((Len(conditions) - 1) \div n)}

Line(no, table, holds) == Row(no, table, holds, IF holds = {} THEN {"text"} ELSE {})
Lines ==
  <<Line(1, "cmdline", {}), Line(2, "cmdline", {"p"}), Line(3, "cmdline", {"p", "q"}), Line(4, "paths", {"q"}),
    Line(5, "paths", {"p", "q"}), Line(6, "other", {"p", "q"})>>
Yara(targets, all, strings) == [targets |-> targets, all |-> all, strings |-> strings]
YaraRules ==
  <<Yara(<<>>, FALSE, <<"p", "q">>), Yara(<<"paths", "all", "paths">>, TRUE, <<"p", "", "q">>), Yara(<<"none">>, FALSE, <<"p">>),
    Yara(<<"cmdline", "cmdline">>, FALSE, <<"q">>), Yara(<<>>, FALSE, <<"">>), Yara(<<>>, TRUE, <<"p", "re">>)>>
YaraMeant == <<{2, 3, 4, 5}, {3, 5}, {}, {3}, {}, {2, 3, 5}>>

MCTargets == {"cmdline", "paths"}
MCRuleSets ==
  Chunks(Whole, Conditions, 6) \union Chunks(Holed, HoledConditions, 6)
  \union {SigmaSet(Whole, Loose, FALSE), Set("yaralite", Lines, YaraRules, YaraMeant, 1..5)}
=============================================================================
