------------------------------- MODULE MCJournals -------------------------------
(* Journals of three or four pages with damage of every kind to the second, logs, event logs *)
(* and MFTs; a block of a journal has four cells and a page two blocks.               *)
EXTENDS Integers, Sequences

Seen(len, major, usn) == [len |-> len, major |-> major, usn |-> usn]
Sparse(n) == [i \in 1..n |-> Seen(0, 0, "")]
Body == Seen(1, 7, "")
BodyZero == Seen(0, 3, "")
Rec2(usn) == <<Seen(2, 2, usn), Body>>
Rec3(usn) == <<Seen(3, 2, usn), Body, BodyZero>>
Far == Seen(90, 2, "")
Old == Seen(3, 1, "")
Place(page, cell) == [page |-> page, cell |-> cell]
Places == <<Place(1, 0), Place(1, 2), Place(1, 5), Place(2, 8), Place(2, 11), Place(2, 13),
            Place(3, 16), Place(3, 19), Place(3, 22), Place(4, 24), Place(4, 26)>>
Journal(a, b, c, first, holds, hurt) ==
  [file |-> [kind |-> "usn", data |-> a \o b \o c], holds |-> holds, hurt |-> hurt,
   at |-> [i \in DOMAIN holds |-> Places[first + i - 1]]]

Page1 == Rec2("a") \o Rec3("b") \o Rec2("c") \o Sparse(1)
Page3 == Rec3("f") \o Rec3("g") \o Rec2("h")
Page4 == Rec2("j") \o Rec3("k")
Last == {Page3, Rec3("f") \o <<Body>>}
Middle == Rec3("d") \o Rec2("e")
Torn == {<<x>> \o Tail(Middle) \o y : x \in {Seen(0, 0, ""), Far, Old, Body}, y \in {Sparse(3), Rec3("i")}}
\* Lengths that fit the file and end in the record itself, at the next page, within the first
\* record of it, at the second one, within the third, and at the page behind it.
Lying == {<<Seen(n, 2, "d")>> \o Tail(Middle) \o Rec3("i") : n \in {2, 8, 9, 11, 15, 16}}
Holds(last) == <<"a", "b", "c", "d", "e", "i">> \o (IF last = Page3 THEN <<"f", "g", "h">> ELSE <<"f">>)
Journals ==
  {Journal(Page1, Middle \o Rec3("i"), l, 1, Holds(l), {}) : l \in Last}
  \cup {Journal(Page1, t, l, 1, Holds(l), {2}) : t \in Torn, l \in Last}
  \cup {Journal(Page1, t, Page3 \o Page4, 1, Holds(Page3) \o <<"j", "k">>, {2}) : t \in Lying}
  \cup {Journal(Sparse(8), Sparse(8), Page3, 7, <<"f", "g", "h">>, {})}

Cell(op, lsn, redo, near) == [op |-> op, lsn |-> lsn, redo |-> redo, near |-> near]
Bad == Cell("bad", 0, "", "")
Unknown == Cell("unknown", 0, "", "")
LogPage(sig, next, cells) == [sig |-> sig, next |-> next, cells |-> cells]
Restart == LogPage(FALSE, 0, <<Bad, Bad, Bad, Bad, Bad, Bad>>)
Ops(a, b) == <<Bad, Bad, Cell("active", a, "x.txt", "y.txt"), Bad, Cell("active", b, "", "z.txt"), Bad>>
Log(pages, holds, at) == [file |-> [kind |-> "log", pages |-> pages], holds |-> holds, at |-> at, hurt |-> {}]
Made(lsn, name) == [lsn |-> lsn, name |-> name]
Logs == {
  Log(<<Restart, Restart, LogPage(TRUE, 2, Ops(1, 2)), Restart, LogPage(TRUE, 9, Ops(3, 4))>>,
      <<Made(1, "x.txt"), Made(2, "z.txt"), Made(3, "x.txt"), Made(4, "z.txt")>>,
      <<Place(3, 2), Place(3, 4), Place(5, 2), Place(5, 4)>>),
  Log(<<Restart, Restart, LogPage(TRUE, 0, <<Bad, Unknown, Cell("other", 5, "", ""), Bad, Cell("active", 6, "", ""), Bad>>)>>,
      <<Made(6, "")>>, <<Place(3, 4)>>),
  Log(<<Restart, Restart>>, <<>>, <<>>)}

Event(id, no) == [event |-> TRUE, id |-> id, no |-> no]
NoEvent == [event |-> FALSE, id |-> 0, no |-> 0]
Chunk(records) == [ok |-> TRUE, records |-> records]
BadChunk == [ok |-> FALSE, records |-> <<>>]
Evtx(channel, chunks, holds) ==
  [file |-> [kind |-> "evtx", good |-> TRUE, channel |-> channel, chunks |-> chunks], holds |-> holds, at |-> <<>>, hurt |-> {}]
EventLogs == {
  [Evtx({"Security"}, <<>>, <<>>) EXCEPT !.file.good = FALSE],
  Evtx({"Security"}, <<Chunk(<<Event(4624, 1), Event(5, 2), Event(4768, 3), NoEvent>>), BadChunk, Chunk(<<Event(4688, 4), Event(1, 5)>>)>>, <<1, 2, 3, 4, 5>>),
  Evtx({"PowerShell"}, <<Chunk(<<Event(4104, 1), Event(1116, 2)>>)>>, <<1, 2>>),
  Evtx({"Sysmon"}, <<Chunk(<<Event(1, 1), Event(3, 2), Event(7, 3), Event(11, 4), Event(22, 5), Event(4104, 6)>>)>>, <<1, 2, 3, 4, 5, 6>>)}

Mft == [file |-> [kind |-> "mft", rows |-> <<"a", "b", "c">>], holds |-> <<"a", "b", "c">>, at |-> <<>>, hurt |-> {}]
MCJournalFiles == Journals \cup Logs \cup EventLogs \cup {Mft}
=============================================================================
