---------------------------------- MODULE MCEse ----------------------------------
(* Databases of the three programs: trees of one to three levels whose leaves are  *)
(* chained, with deleted rows, pages that are lost or lead back, tables that the   *)
(* catalog has under another name or not at all, and freed pages.                   *)
EXTENDS Integers, Sequences, TLC

CONSTANT None
Rec(key) == [type |-> 0, name |-> "", root |-> 0, id |-> 0, idType |-> 0, cols |-> 19,
             key |-> key, app |-> 1, user |-> 1, url |-> ""]
Table(name, root) == [Rec("") EXCEPT !.type = 1, !.name = name, !.root = root]
Id(id, type, name) == [Rec("") EXCEPT !.id = id, !.idType = type, !.name = name]
Account(name) == [Rec("") EXCEPT !.name = name]
File(key) == [Rec(key) EXCEPT !.url = key]

Tag(rec) == [deleted |-> FALSE, child |-> 0, rec |-> rec]
To(child) == [Tag(None) EXCEPT !.child = child]
Gone(rec) == [Tag(rec) EXCEPT !.deleted = TRUE]
Header == Tag(None)
Page(flags, tags, next, account) == [flags |-> flags, tags |-> <<Header>> \o tags, next |-> next, account |-> account]
Leaf(recs, next) == Page({"leaf"}, [i \in DOMAIN recs |-> Tag(recs[i])], next, "")
Only(recs) == Page({"root"}, [i \in DOMAIN recs |-> Tag(recs[i])], 0, "")
Parent(children) == Page({"parent", "root"}, [i \in DOMAIN children |-> To(children[i])], 0, "")
Lost == Page({}, <<>>, 0, "")

Row(table, key, app, user) == [table |-> table, key |-> key, app |-> app, user |-> user]
Usage(table, keys) == {Row(table, k, "cmd", "ann") : k \in keys}
Rows(table, keys) == {Row(table, k, "", "") : k \in keys}
Db(parser, pages, holds, kept) ==
  [file |-> [parser |-> parser, short |-> FALSE, pages |-> pages], holds |-> holds, kept |-> kept]

Srum ==
  (4 :> Leaf(<<Table("NetworkUsage", 9), [Table("x", 9) EXCEPT !.type = 2], Table("SruDbIdMapTable", 5)>>, 3))
  @@ (3 :> Leaf(<<Table("NetworkUsage", 6), Table("AppUsage", 11)>>, 0))
  @@ (5 :> Only(<<Id(1, 0, "old"), Id(1, 0, "cmd"), Id(1, 1, "ann"), [Id(1, 1, "") EXCEPT !.cols = 1]>>))
  @@ (6 :> Parent(<<7, 8>>)) @@ (7 :> Parent(<<9>>)) @@ (8 :> Page({"parent"}, <<To(10), [To(9) EXCEPT !.deleted = TRUE]>>, 0, ""))
  @@ (9 :> Leaf(<<Rec("n1"), [Rec("n2") EXCEPT !.cols = 8]>>, 10))
  @@ (10 :> Page({"leaf"}, <<Tag(Rec("n3")), Gone(Rec("n4")), Tag(None)>>, 9, ""))
  @@ (11 :> [Parent(<<13>>) EXCEPT !.tags[1] = To(12)]) @@ (12 :> Leaf(<<Rec("a1")>>, 13)) @@ (13 :> Leaf(<<Rec("a2")>>, 0))
SrumRows == Usage("network", {"n1", "n3"}) \cup Usage("app", {"a1", "a2"})
SrumWithout(p, keys) ==
  Db("srum", [Srum EXCEPT ![p] = Lost], SrumRows, {r \in SrumRows : r.key \notin keys})

Nameless == Rec("")
Ntds == (4 :> Only(<<Table("datatable", 5)>>)) @@ (5 :> Parent(<<6, 7>>))
        @@ (6 :> Leaf(<<Account("ann"), Nameless, Account("bob")>>, 7)) @@ (7 :> Leaf(<<Account("ann"), Account("eve")>>, 0))
Moved == [Ntds EXCEPT ![6] = Page({"leaf"}, <<Tag(Nameless)>>, 0, "ann"),
                      ![7] = [Lost EXCEPT !.account = "ann"]] @@ (8 :> [Lost EXCEPT !.account = "bob"])
Accounts(names) == Rows("accounts", names)

Bits == (4 :> Only(<<Table("Jobs", 5), Table("BITS_JOB", 6), Table("Files", 7)>>)) @@ (5 :> Only(<<Rec("stale")>>))
        @@ (6 :> Only(<<Rec("j1"), [Rec("j2") EXCEPT !.cols = 0]>>)) @@ (7 :> Leaf(<<File("f1"), File("f2")>>, 0))
        @@ (9 :> Leaf(<<File("f1"), File("f3")>>, 0))
Unnamed == [Bits EXCEPT ![4] = Only(<<Table("Jobs", 6), Table("?", 7)>>)]

MCEseFiles == {
  Db("srum", Srum, SrumRows, SrumRows), SrumWithout(9, {"n1"}), SrumWithout(10, {"n3"}), SrumWithout(8, {}),
  SrumWithout(7, {"n1"}),
  Db("ntds", Ntds, Accounts({"ann", "bob", "eve"}), Accounts({"ann", "bob", "eve"})),
  Db("ntds", Moved, Accounts({"ann", "bob"}), Accounts({"ann", "bob"})),
  Db("ntds", [Ntds EXCEPT ![4] = Only(<<>>)], {}, {}), Db("ntds", [Ntds EXCEPT ![5] = Only(<<>>)], {}, {}),
  Db("bits", Bits, Rows("jobs", {"j1"}) \cup Rows("files", {"f1", "f2", "f3"}), Rows("jobs", {"j1"}) \cup Rows("files", {"f1", "f2"})),
  Db("bits", Unnamed, Rows("jobs", {"j1"}) \cup Rows("files", {"f1", "f2", "f3"}), Rows("jobs", {"j1"}) \cup Rows("files", {"f1", "f2", "f3"})),
  [Db("bits", Bits, {}, {}) EXCEPT !.file.short = TRUE]}
=============================================================================
