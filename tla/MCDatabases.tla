------------------------------- MODULE MCDatabases -------------------------------
(* Databases of one and two levels, with overflow chains, and logs with frames of *)
(* this run and an earlier one, committed and not.                                *)
EXTENDS Integers, Sequences, TLC

Leaf(cells) == [kind |-> "leaf", cells |-> cells]
Interior(children) == [kind |-> "interior", children |-> children]
Over(next) == [kind |-> "overflow", next |-> next]
Junk == [kind |-> "junk"]
Row(cols, row, len, over) == [cols |-> cols, row |-> row, name |-> "", root |-> 0, len |-> len, over |-> over]
Table(name, root) == [cols |-> 5, row |-> 0, name |-> name, root |-> root, len |-> 50, over |-> 0]
R(row) == Row(8, row, 90, 0)
Frame(page, salt, commit, data) == [page |-> page, salt |-> salt, commit |-> commit, data |-> data]

Got(table, row, len) == [table |-> table, row |-> row, len |-> len]
Urls(rows) == [i \in DOMAIN rows |-> Got("urls", rows[i], IF rows[i] = "b" THEN 1100 ELSE IF rows[i] = "long" THEN 300 ELSE 90)]
Db(browser, pages, wal, holds, state) ==
  [file |-> [browser |-> browser, pages |-> pages, wal |-> wal, good |-> TRUE], holds |-> holds, state |-> state]

Schema == Leaf(<<Table("urls", 2), Table("downloads", 3), [Table("urls", 9) EXCEPT !.cols = 4]>>)
Chrome == (1 :> Schema) @@ (2 :> Interior(<<4, 5>>)) @@ (3 :> Leaf(<<R("d"), Row(7, "e", 90, 0)>>))
          @@ (4 :> Leaf(<<R("a"), Row(8, "b", 1100, 6)>>)) @@ (5 :> Leaf(<<R("c"), Row(8, "long", 300, 0)>>)) @@ (6 :> Over(7)) @@ (7 :> Over(0))
Downloads == <<Got("downloads", "d", 90)>>
Whole == Urls(<<"a", "b", "c", "long">>) \o Downloads
Firefox == (1 :> Leaf(<<Table("moz_places", 2)>>)) @@ (2 :> Leaf(<<Row(5, "a", 90, 0), Row(4, "b", 90, 0)>>))
New5 == Leaf(<<R("c"), R("n")>>)

MCDatabaseFiles == {
  [Db("Chrome", Chrome, <<>>, Whole, "damaged") EXCEPT !.file.good = FALSE],
  Db("Chrome", Chrome, <<>>, Whole, "clean"),
  Db("Chrome", Chrome, <<Frame(5, TRUE, FALSE, Leaf(<<>>)), Frame(8, TRUE, FALSE, Leaf(<<R("x")>>)), Frame(5, TRUE, TRUE, New5),
                         Frame(5, FALSE, TRUE, Leaf(<<R("old")>>))>>, Urls(<<"a", "b", "c", "n">>) \o Downloads, "clean"),
  Db("Chrome", Chrome, <<Frame(5, TRUE, TRUE, New5), Frame(4, TRUE, FALSE, Leaf(<<R("open")>>))>>,
     Urls(<<"a", "b", "c", "n">>) \o Downloads, "open"),
  Db("Chrome", [Chrome EXCEPT ![2] = Interior(<<4, 19, 5>>), ![6] = Junk], <<>>, Whole, "damaged"),
  Db("Chrome", [Chrome EXCEPT ![1] = Interior(<<19>>)], <<>>, Whole, "damaged"),
  Db("Chrome", [Chrome EXCEPT ![1] = Interior(<<8, 1>>)] @@ (8 :> Schema), <<>>, Whole, "damaged"),
  Db("Chrome", [Chrome EXCEPT ![2] = Interior(<<4, 8>>)] @@ (8 :> Interior(<<5, 2, 4>>)), <<>>, Whole, "damaged"),
  Db("Chrome", [Chrome EXCEPT ![3] = Interior(<<4, 19, 3>>)], <<>>, Whole, "damaged"),
  Db("Chrome", [Chrome EXCEPT ![3] = Interior(<<3>>)], <<>>, Whole, "damaged"),
  Db("Chrome", [Chrome EXCEPT ![2] = Junk], <<>>, Whole, "damaged"),
  Db("Firefox", Firefox, <<>>, <<Got("moz_places", "a", 90)>>, "clean")}
=============================================================================
