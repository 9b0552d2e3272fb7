--------------------------------- MODULE MCHives ---------------------------------
(* Hives of every layout, small: lists of lists, missing and damaged cells, logs *)
(* that add pages or end early, and keys of none, one and two values.            *)
EXTENDS Integers, Sequences, TLC

Key(name, list, values, count) ==
  [kind |-> "nk", alloc |-> TRUE, name |-> name, work |-> "?", list |-> list, values |-> values, count |-> count]
Free(k) == [k EXCEPT !.alloc = FALSE]
Lf(to) == [kind |-> "lf", to |-> to]
Ri(to) == [kind |-> "ri", to |-> to]
Words(to) == [kind |-> "words", to |-> to]
Val(name, data) == [kind |-> "vk", name |-> name, data |-> data]
V(name) == Val(name, [item |-> "", ok |-> TRUE, entries |-> <<>>])
Other == [kind |-> "data"]

Entry(no, size, count, pages) == [no |-> no, size |-> size, count |-> count, pages |-> pages]
Page(at, cell) == [at |-> at, cell |-> cell, ok |-> TRUE]
Cut(at) == [at |-> at, cell |-> Other, ok |-> FALSE]
NoLogs == <<<<>>, <<>>>>

Hive(parser, hive, cells, logs, holds, hurt) ==
  [file |-> [parser |-> parser, hive |-> hive, cells |-> cells, root |-> 1, logs |-> logs],
   holds |-> holds, hurt |-> hurt]
Holds(from, name, read) == [from |-> from, name |-> name, read |-> read, last |-> FALSE]
OfLast(from, name) == [Holds(from, name, <<>>) EXCEPT !.last = TRUE]

\* amcache, Windows 10: two applications, the second in the log.
Apps == (1 :> Key("R", 2, 0, 0)) @@ (2 :> Lf(<<3>>)) @@ (3 :> Key("Root", 4, 0, 0)) @@ (4 :> Lf(<<5, 20>>))
        @@ (5 :> Key("Inventory", 6, 0, 0)) @@ (6 :> Ri(<<7, 8, 20>>)) @@ (7 :> Lf(<<9>>)) @@ (8 :> Lf(<<20, 10>>))
        @@ (9 :> Key("app1", 0, 11, 2)) @@ (10 :> Key("app2", 0, 14, 1)) @@ (11 :> Words(<<12, 13>>))
        @@ (12 :> V("path")) @@ (13 :> V("hash")) @@ (14 :> Words(<<12>>)) @@ (20 :> Other)
App1 == Holds("inventory", "app1", <<"path", "hash">>)
App2 == Holds("inventory", "app2", <<"path">>)
Both == <<App1, App2>>
Old == [Apps EXCEPT ![8] = Lf(<<20>>), ![10] = Other]
ToNew(no) == Entry(no, "ok", "ok", <<Page(8, Lf(<<20, 10>>)), Page(10, Apps[10])>>)
ToOld(no) == Entry(no, "ok", "ok", <<Page(8, Old[8]), Page(10, Other)>>)
Stale == [Apps EXCEPT ![4] = Other, ![5] = [Apps[5] EXCEPT !.alloc = TRUE]]
Legacy == (1 :> Key("R", 2, 0, 0)) @@ (2 :> Lf(<<3>>)) @@ (3 :> Key("File", 4, 0, 0)) @@ (4 :> Lf(<<5, 6>>))
          @@ (5 :> Key("vol", 7, 0, 0)) @@ (6 :> Key("vol2", 20, 0, 0)) @@ (7 :> Lf(<<8>>))
          @@ (8 :> Key("0001", 0, 0, 0)) @@ (20 :> Other)
File1 == <<Holds("legacy", "0001", <<>>)>>
Amcaches == {
  Hive("amcache", "", Apps, NoLogs, Both, "no"),
  Hive("amcache", "", Old, <<<<Entry(1, "ok", "bad", <<>>), ToNew(2), Entry(3, "bad", "ok", <<>>), Entry(4, "ok", "ok", <<Page(5, Other)>>)>>, <<>>>>,
       Both, "no"),
  Hive("amcache", "", Old, <<<<>>, <<Entry(1, "ok", "ok", <<Page(8, Lf(<<20, 10>>)), Page(10, Apps[10]), Cut(5), Page(5, Other)>>)>>>>,
       Both, "no"),
  Hive("amcache", "", Old, <<<<ToNew(1), ToOld(2)>>, <<ToNew(3)>>>>, Both, "no"),
  \* A second log that is older than the first takes back what that one wrote.
  Hive("amcache", "", Old, <<<<ToNew(2)>>, <<ToOld(1)>>>>, Both, "no"),
  Hive("amcache", "", Stale, NoLogs, Both, "above"),
  Hive("amcache", "", [Stale EXCEPT ![5] = Free(Stale[5])], NoLogs, Both, "at"),
  Hive("amcache", "", [Apps EXCEPT ![5].list = 20], NoLogs, Both, "at"),
  Hive("amcache", "", [Apps EXCEPT ![7] = Other], NoLogs, Both, "below"),
  Hive("amcache", "", [Apps EXCEPT ![11] = Words(<<20, 13>>)], NoLogs, Both, "below"),
  \* The layout is found without its list of keys; the key that has it lies in another cell.
  Hive("amcache", "", [Apps EXCEPT ![5].list = 0] @@ (21 :> Key("Inventory", 7, 0, 0)), NoLogs, <<App1>>, "above"),
  Hive("amcache", "", Legacy, NoLogs, File1, "no"),
  Hive("amcache", "", [Legacy EXCEPT ![2] = Lf(<<20>>)], NoLogs, File1, "above"),
  Hive("amcache", "", [Legacy EXCEPT ![1] = Other], NoLogs, File1, "root"),
  \* Lists of lists that lead back to themselves, at once and by way of another.
  Hive("amcache", "", [Apps EXCEPT ![2] = Ri(<<20, 2>>)], NoLogs, Both, "root"),
  Hive("amcache", "", [Apps EXCEPT ![2] = Ri(<<21>>)] @@ (21 :> Ri(<<7, 2>>)), NoLogs, Both, "root")}

\* shimcache: the first control set has no cache, or one, and a list that ends early.
E(tag, whole, path) == [tag |-> tag, whole |-> whole, path |-> path]
Blob(ok, entries) == Val("AppCompatCache", [item |-> "", ok |-> ok, entries |-> entries])
Shim(set, blob) == (1 :> Key("R", 2, 0, 0)) @@ (2 :> Lf(<<3>>)) @@ (3 :> Key(set, 4, 0, 0)) @@ (4 :> Lf(<<5>>))
   @@ (5 :> Key("Control", 6, 0, 0)) @@ (6 :> Lf(<<7>>)) @@ (7 :> Key("AppCompatCache", 0, 8, 2))
   @@ (8 :> Words(<<9, 10>>)) @@ (9 :> blob) @@ (10 :> V("x"))
ShimHolds == <<Holds("shimcache", <<0, "p">>, <<>>), Holds("shimcache", <<1, "q">>, <<>>)>>
TwoEntries == Blob(TRUE, <<E(TRUE, TRUE, "p"), E(TRUE, TRUE, "q")>>)
Shims == {
  Hive("shimcache", "", Shim("ControlSet002", TwoEntries), NoLogs, ShimHolds, "no"),
  \* The cache is the last of its key's values.
  Hive("shimcache", "", [Shim("ControlSet002", TwoEntries) EXCEPT ![8] = Words(<<10, 9>>)], NoLogs,
       <<OfLast("shimcache", <<0, "p">>), OfLast("shimcache", <<1, "q">>)>>, "no"),
  Hive("shimcache", "", Shim("ControlSet001", Blob(TRUE, <<E(TRUE, TRUE, "p"), E(TRUE, FALSE, "q")>>)), NoLogs, ShimHolds, "below"),
  Hive("shimcache", "", Shim("ControlSet001", Blob(TRUE, <<E(TRUE, TRUE, "p"), E(TRUE, TRUE, "q"), E(FALSE, TRUE, "r")>>)), NoLogs, ShimHolds, "no"),
  Hive("shimcache", "", Shim("ControlSet001", Blob(FALSE, <<>>)), NoLogs, ShimHolds, "below"),
  Hive("shimcache", "", Shim("Select", Blob(TRUE, <<>>)), NoLogs, <<>>, "no"),
  Hive("shimcache", "", [Shim("ControlSet001", TwoEntries) EXCEPT ![2] = Ri(<<2>>)], NoLogs, ShimHolds, "root")}

\* registry: programs that start with a session, services of one of two sets, UserAssist, BAM.
Ntuser == (1 :> Key("R", 2, 0, 0)) @@ (2 :> Lf(<<3>>)) @@ (3 :> Key("Software", 4, 0, 0)) @@ (4 :> Lf(<<5, 6>>))
  @@ (5 :> Key("Run", 0, 7, 2)) @@ (6 :> Key("UserAssist", 8, 0, 0)) @@ (7 :> Words(<<11, 12>>))
  @@ (8 :> Lf(<<9>>)) @@ (9 :> Key("guid", 10, 0, 0)) @@ (10 :> Lf(<<13>>)) @@ (13 :> Key("Count", 0, 14, 3))
  @@ (11 :> V("one")) @@ (12 :> V("two")) @@ (14 :> Words(<<15, 16, 17>>))
  @@ (15 :> V("UEME_CTLSESSION")) @@ (16 :> V("prog")) @@ (17 :> V("prog2"))
NtHolds == <<Holds("run", "one", <<>>), OfLast("run", "two"), Holds("userassist", "prog", <<>>), OfLast("userassist", "prog2")>>
Soft == (1 :> Key("R", 2, 0, 0)) @@ (2 :> Lf(<<3>>)) @@ (3 :> Key("RunOnce", 0, 4, 1)) @@ (4 :> Words(<<5>>)) @@ (5 :> V("one"))
System == (1 :> Key("R", 2, 0, 0)) @@ (2 :> Lf(<<3, 4>>)) @@ (3 :> Key("ControlSet001", 5, 0, 0)) @@ (4 :> Key("ControlSet002", 6, 0, 0))
  @@ (5 :> Lf(<<7>>)) @@ (6 :> Lf(<<8>>)) @@ (7 :> Key("Services", 9, 0, 0)) @@ (8 :> Key("Services", 10, 0, 0))
  @@ (9 :> Lf(<<11>>)) @@ (10 :> Lf(<<12>>)) @@ (11 :> Key("bam", 13, 0, 0)) @@ (12 :> Key("svc", 0, 20, 2))
  @@ (13 :> Lf(<<14>>)) @@ (14 :> Key("UserSettings", 15, 0, 0)) @@ (15 :> Lf(<<16>>)) @@ (16 :> Key("S-1", 0, 17, 3))
  @@ (17 :> Words(<<18, 19, 21>>)) @@ (18 :> V("prog")) @@ (19 :> V("Version")) @@ (20 :> Words(<<18, 21>>)) @@ (21 :> V("Start"))
SystemHolds == <<Holds("service", "bam", <<>>), Holds("bam", "prog", <<>>), OfLast("bam", "Start")>>
Registries == {
  Hive("registry", "NTUSER", Ntuser, NoLogs, NtHolds, "no"),
  Hive("registry", "NTUSER", [Ntuser EXCEPT ![2] = Ri(<<2>>)], NoLogs, NtHolds, "root"),
  Hive("registry", "SOFTWARE", Soft, NoLogs, <<OfLast("run", "one")>>, "no"),
  Hive("registry", "SYSTEM", System, NoLogs, SystemHolds, "no"),
  Hive("registry", "SYSTEM", [System EXCEPT ![2] = Ri(<<2>>)], NoLogs, SystemHolds, "root"),
  \* The services of the first control set are lost, and those of the second read in their place.
  Hive("registry", "SYSTEM", [System EXCEPT ![7].list = 30], NoLogs,
       <<Holds("service", "svc", <<"prog", "Start">>), Holds("bam", "prog", <<>>)>>, "below")}

\* shellbags: a hive as Windows writes it, and one whose names stand where the reader looks.
Item(name, item) == Val(name, [item |-> item, ok |-> TRUE, entries |-> <<>>])
Bags == (1 :> Key("R", 2, 0, 0)) @@ (2 :> Ri(<<3, 20>>)) @@ (3 :> Lf(<<4>>)) @@ (4 :> Key("Software", 5, 0, 0)) @@ (5 :> Lf(<<6>>))
  @@ (6 :> Key("BagMRU", 7, 8, 3)) @@ (7 :> Lf(<<9>>)) @@ (8 :> Words(<<10, 11, 12>>)) @@ (10 :> Item("0", "My Computer"))
  @@ (11 :> Item("MRUListEx", "")) @@ (12 :> V("NodeSlot")) @@ (9 :> Key("0", 0, 13, 2)) @@ (13 :> Words(<<14, 12>>))
  @@ (14 :> Item("0", "C:")) @@ (20 :> Other)
Shifted == [c \in DOMAIN Bags |-> IF Bags[c].kind = "nk" THEN [Bags[c] EXCEPT !.work = Bags[c].name] ELSE Bags[c]]
BagHolds == <<Holds("shellbag", <<"My Computer", "C:">>, <<>>), Holds("shellbag", <<"My Computer">>, <<>>)>>
Shellbags == {
  Hive("shellbags", "", Bags, NoLogs, BagHolds, "no"),
  Hive("shellbags", "", Shifted, NoLogs, BagHolds, "no"),
  \* A folder that is the last of its key's values, and one that lies within itself.
  Hive("shellbags", "", [Shifted EXCEPT ![9].count = 1], NoLogs,
       <<OfLast("shellbag", <<"My Computer", "C:">>), Holds("shellbag", <<"My Computer">>, <<>>)>>, "no"),
  Hive("shellbags", "", [Shifted EXCEPT ![9].list = 7], NoLogs, BagHolds, "below")}

MCHiveFiles == Amcaches \cup Shims \cup Registries \cup Shellbags
=============================================================================
