-------------------------------- MODULE MCMemory --------------------------------
(* One machine, of 32 pages, and dumps of it: whole, taken in a user's tables, raw,  *)
(* of another Windows, with holes, cut off, and with lists and trees that lead back. *)
EXTENDS Integers, Sequences, TLC

\* The three Windows; the builds of the last are partly ones of the first as well.
MCProfiles == <<[name |-> "10", min |-> 19041, max |-> 22621, exit |-> FALSE],
                [name |-> "1803", min |-> 17134, max |-> 18363, exit |-> TRUE],
                [name |-> "11", min |-> 22000, max |-> 26100, exit |-> FALSE]>>
MCLimits == [procs |-> 4, scanned |-> 8, conns |-> 6, mods |-> 3, hits |-> 4, depth |-> 3, self |-> 10, brute |-> 15,
             pid |-> 40]

No == [present |-> FALSE, large |-> FALSE, to |-> 0]
To(p) == [present |-> TRUE, large |-> FALSE, to |-> p]
Large(p) == [To(p) EXCEPT !.large = TRUE]
Table(entries) == [kind |-> "table", entries |-> entries]
\* The kernel's objects lie in a 1 GB page, a 2 MB page and single pages.
K(p) == <<3, 0, (p - 16) \div 4, (p - 16) % 4>>
M(p) == <<3, 1, 0, p - 8>>
User(d) == <<0, 0, 0, d>>
Null == <<0, 0, 0, 0>>

\* A page that is not what it is taken for, and one that could pass for it.
Zeros == [pid |-> 0, name |-> "", flink |-> Null, cr3 |-> 0, peb |-> Null, exited |-> FALSE, vad |-> Null,
          sane |-> FALSE, base |-> FALSE, left |-> Null, right |-> Null, start |-> Null, prot |-> ""]
Junk(pid, name, flink) == [Zeros EXCEPT !.pid = pid, !.name = name, !.flink = flink, !.base = TRUE]
Other == [kind |-> "other"]
Passes(page, junk) == page @@ [junk |-> junk]
Filled(pages) == [i \in DOMAIN pages |-> IF "junk" \in DOMAIN pages[i] THEN pages[i] ELSE Passes(pages[i], Zeros)]
List(flink) == [kind |-> "head", flink |-> flink]
EProc(pid, name, flink, cr3) ==
  [kind |-> "eproc", layout |-> "10", pid |-> pid, name |-> name, flink |-> flink, cr3 |-> cr3,
   peb |-> Null, exited |-> FALSE, vad |-> Null, sane |-> TRUE]
Ldr(name, flink) == [kind |-> "ldr", name |-> name, flink |-> flink, cut |-> FALSE]
Vad(left, right, start, prot) == [kind |-> "vad", left |-> left, right |-> right, start |-> start, prot |-> prot]
Sock(class, ip) == [class |-> class, ip |-> ip]
End(tag, socks, state, pid) ==
  [kind |-> "endpoint", tag |-> tag, socks |-> socks, ptrs |-> <<>>, state |-> state, pid |-> pid, owner |-> Null]

Machine == <<
  Other, Table(<<No, No, To(1), To(2)>>), Table(<<Large(16), To(3), No, No>>), Table(<<Large(8), To(4), No, No>>),
  Table(<<To(5), No, No, No>>), Ldr("drv", M(9)), Table(<<To(7), No, No, To(2)>>), Table(<<Large(12), No, No, No>>),
  List(K(16)), List(M(10)), Ldr("ntos", M(11)), [Ldr("cut", <<3, 1, 1, 0>>) EXCEPT !.cut = TRUE],
  [EProc(28, "gone", K(17), 6) EXCEPT !.exited = TRUE], [kind |-> "peb", cmd |-> "app -x"], [kind |-> "code", mz |-> TRUE], Table(<<To(7), No, No, No>>),
  EProc(4, "System", K(17), 1),
  [EProc(8, "app", M(8), 6) EXCEPT !.peb = User(1), !.vad = K(21)],
  [EProc(12, "hid", K(17), 6) EXCEPT !.vad = K(21)],
  EProc(16, "freed", K(17), 12), [EProc(20, "ended", K(17), 12) EXCEPT !.exited = TRUE],
  Vad(K(22), Null, User(3), "rwx"), Vad(K(28), Null, User(2), "rx"),
  [End("TCP", <<Sock("private", "10.0.0.2"), Sock("public", "8.8.4.4")>>, "CLOSED", 8) EXCEPT !.owner = K(18)],
  [End("TCP", <<Sock("junk", "0.1.2.3"), Sock("private", "10.0.0.2"), Sock("public", "8.8.4.4")>>, "ESTABLISHED", 8)
     EXCEPT !.owner = K(17)],
  End("UDP", <<Sock("any6", "::"), Sock("global6", "2a00::1")>>, "", 24),
  [End("TCPL", <<>>, "", 4) EXCEPT !.ptrs = <<K(16), K(27)>>], [kind |-> "sock", sock |-> Sock("any", "0.0.0.0")],
  Vad(Null, Null, User(1), "rx"),
  End("TCPL", <<Sock("public", "8.8.8.8")>>, "", 4), End("TCP", <<Sock("private", "10.0.0.2"), Sock("private", "10.0.0.2")>>, "SYN-SENT", 0),
  [EProc(0, "", K(17), 0) EXCEPT !.sane = FALSE]>>

\* Every number and name that stand together in a page.
Known(pages) == LET filled == Filled(pages)
                    held == {filled[i].junk : i \in DOMAIN filled} \cup {filled[i] : i \in {j \in DOMAIN pages : pages[j].kind = "eproc"}}
                IN {<<h.pid, h.name>> : h \in held}
Regions == {[table |-> "malfind", pid |-> 8, start |-> User(d)] : d \in {2, 3}}
Sound == [sound |-> TRUE, listed |-> {<<4, "System">>, <<8, "app">>}, hidden |-> {<<12, "hid">>}, ended |-> {<<28, "gone">>},
          modules |-> <<"ntos", "drv">>, regions |-> Regions]
Damaged == [Sound EXCEPT !.sound = FALSE]

Dump(cr3, build, pages, truth) ==
  [file |-> [paged |-> TRUE, cr3 |-> cr3, build |-> build, head |-> M(8), mods |-> M(9), good |-> TRUE,
             runs |-> <<[base |-> 0, count |-> 12], [base |-> 12, count |-> 0], [base |-> 12, count |-> 20]>>,
             pages |-> Filled(pages)], truth |-> truth @@ [known |-> Known(pages)]]
Set(p, page) == [Machine EXCEPT ![p + 1] = page]
Layout(l) == [i \in DOMAIN Machine |-> IF Machine[i].kind = "eproc" THEN [Machine[i] EXCEPT !.layout = l] ELSE Machine[i]]
\* Blocks of one Windows that could pass for some of another, too large a number and a good one.
Mistaken == [Layout("11") EXCEPT ![17] = Passes(@, Junk(99, "ab", Null)), ![18] = Passes(@, Junk(7, "", Null))]
Raw(d) == [d EXCEPT !.file.paged = FALSE, !.file.cr3 = 0, !.file.build = 0, !.file.head = Null, !.file.mods = Null]
Hole == [Dump(1, 19045, Machine, Damaged) EXCEPT
           !.file.runs = <<[base |-> 0, count |-> 17], [base |-> 18, count |-> 14]>>,
           !.file.pages = Filled(SubSeq(Machine, 1, 17) \o SubSeq(Machine, 19, 32))]

MCDumps == {
  Dump(1, 19045, Machine, Sound), Dump(15, 19045, Machine, Sound), Dump(6, 19045, Machine, Sound),
  Dump(15, 19045, Set(1, Table(<<No, No, No, To(2)>>)), Sound),
  Dump(1, 17763, Layout("1803"), Sound), Dump(1, 16299, Machine, Sound),
  Dump(1, 22621, Layout("11"), Sound), Dump(1, 22621, Mistaken, Sound), Dump(1, 22621, [Mistaken EXCEPT ![17] = Passes(Other, Zeros)], Damaged),
  Raw(Dump(0, 0, Machine, Damaged)), Hole,
  Dump(1, 19045, Set(17, EProc(8, "app", K(16), 6)), Damaged),
  \* Lists that lead to what is on none: to a block that is sane, and on from it; to a socket.
  Dump(1, 19045, Set(17, Passes(Other, [Junk(7, "x", K(28)) EXCEPT !.vad = K(22), !.sane = TRUE])), Damaged),
  Dump(1, 19045, Set(8, List(K(28))), Damaged), Dump(1, 19045, Set(9, List(K(28))), Damaged),
  Dump(1, 19045, Set(5, Passes(Other, Junk(0, "", K(31)))), Damaged),
  Dump(1, 19045, Set(22, Passes(Other, [Zeros EXCEPT !.left = K(28), !.start = User(2), !.prot = "rwx"])), Damaged),
  Dump(1, 19045, Set(9, List(K(31))), Damaged), Dump(1, 19045, Set(5, Ldr("drv", M(10))), Damaged),
  Dump(1, 19045, SubSeq(Machine, 1, 17), Damaged), Dump(1, 19045, Set(8, Other), Damaged),
  Dump(1, 19045, Set(22, Vad(K(21), K(21), User(2), "rx")), Damaged),
  Dump(1, 19045, [Set(13, End("UDP", <<Sock("any", "0.0.0.0"), Sock("private", "10.0.0.9")>>, "", 0)) EXCEPT
                   ![1] = End("UDP", <<Sock("private", "10.0.0.2")>>, "", 8), ![32] = End("UDP", <<Sock("private", "10.0.0.2")>>, "", 8)], Damaged),
  [Dump(1, 19045, Machine, Damaged) EXCEPT !.file.good = FALSE], Dump(0, 19045, Machine, Damaged)}
=============================================================================
