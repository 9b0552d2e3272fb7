------------------------------- MODULE MCDocuments -------------------------------
(* Jump lists and messages for TLC: compound files whose FAT goes on in the DIFAT *)
(* and whose chains run backwards, cut off, with chains that lead back and tables  *)
(* that are missing; and text messages, alone and in an mbox.                      *)
EXTENDS Integers, Sequences

Free == 0 - 1
End == 0 - 2
Mark == 0 - 3
Table(next) == [kind |-> "table", next |-> next]
Dir(entries) == [kind |-> "dir", entries |-> entries]
Data(a, b) == [kind |-> "data", units |-> <<a, b>>]
Pad == [kind |-> "pad"]
Entry(type, name, start, size) ==
  [type |-> type, name |-> name, enc |-> "", start |-> start, size |-> size, child |-> 0, left |-> 0, right |-> 0]
Compound(kind, sectors, truth) ==
  [file |-> [kind |-> kind, good |-> TRUE, short |-> FALSE, fats |-> <<0, Free>>, numFat |-> 2, difat |-> 2, numDifat |-> 1, dir |-> 3,
             mini |-> 5, numMini |-> 1, cutoff |-> 3, sectors |-> sectors], truth |-> truth]
\* 0 and 1 are the FAT, 2 the DIFAT, 3 and 4 the directory, 5 the mini FAT, 7 and 6 the mini
\* sectors, 8 to 11 two streams.
Fat == <<Mark, Mark, Mark, 4, End, End, End, 6>>
FatBehind == <<9, End, 11, End, Free, Free, Free, Free>>
Difat == <<1, Free, Free, Free, Free, Free, Free, End>>
MiniFat == <<2, 3, End, End, Free, Free, Free, Free>>
File(dir1, dir2, minis, streams) ==
  <<Table(Fat), Table(FatBehind), Table(Difat), Dir(dir1), Dir(dir2), Table(MiniFat),
    Data(minis[3], minis[4]), Data(minis[1], minis[2])>> \o streams
With(c, n, table) == [c EXCEPT !.file.sectors[n + 1] = Table(table)]
Cut(c, n) == [c EXCEPT !.file.sectors = SubSeq(@, 1, n), !.truth.loss = "some"]
Lossy(c) == [c EXCEPT !.truth.loss = "any"]

Lnk == [kind |-> "lnk"]
Path(p) == [kind |-> "path", path |-> p]
Dest(id, p) == [kind |-> "dest", id |-> id, path |-> p]
Row(id, p) == [table |-> "jumplists", id |-> id, path |-> p]
Auto ==
  Compound("auto",
    File(<<Entry("root", "Root Entry", 7, 4), Entry("stream", "DestList", 8, 3), Entry("stream", "1", 0, 2)>>,
         <<Entry("stream", "3", 1, 2), Entry("stream", "1", 0, 2), Entry("stream", "4", 10, 4)>>,
         <<Lnk, Lnk, Path("a"), Path("c")>>,
         <<Data([kind |-> "count", count |-> 2], Dest("1", "a")), Data(Dest("2", "b"), Dest("9", "z")),
           Data(Lnk, Path("d")), Data(Pad, Pad)>>),
    [loss |-> "none", rows |-> {Row("1", "a"), Row("2", "b"), Row("3", "c"), Row("4", "d")},
     later |-> {}, pathless |-> {}])

\* DestList has an entry of stream 1 and no path for it; the last directory entry's link is cut.
Pathless ==
  [Auto EXCEPT !.file.sectors[9] = Data([kind |-> "count", count |-> 2], Dest("1", "")), !.truth.pathless = {Row("1", "a")}]

Custom(units, rows, later) ==
  [file |-> [kind |-> "custom", good |-> TRUE, units |-> units], truth |-> [loss |-> "none", rows |-> rows, later |-> later, pathless |-> {}]]
Marker == [kind |-> "marker"]
Footer == [kind |-> "footer"]

Enc(enc, name, start, size) == [Entry("stream", name, start, size) EXCEPT !.enc = enc]
Mail(subject, text, html, atts) ==
  [subject |-> subject, text |-> text, html |-> html, atts |-> atts, has |-> atts # {}]
Msg ==
  Compound("msg",
    File(<<[Entry("root", "Root Entry", 7, 4) EXCEPT !.child = 2],
           [Enc("unicode", "subject", 0, 2) EXCEPT !.left = 3, !.right = 4], Enc("ansi", "body", 8, 4),
           [Entry("storage", "attach", End, 0) EXCEPT !.child = 6, !.right = 5]>>,
         <<Enc("binary", "html", 1, 1), [Enc("binary", "data", 10, 3) EXCEPT !.left = 7], Enc("ansi", "filename", 3, 1),
           Enc("unicode", "body", End, 0)>>,
         <<"s", "h", "t", "n">>, <<Data("b1", "b2"), Data("b3", "b4"), Data("d1", "d2"), Data("d3", "pad")>>),
    [loss |-> "none", mails |-> <<Mail(<<"s", "t">>, <<"b1", "b2", "b3", "b4">>, <<"h">>,
                                       {[name |-> <<"n">>, data |-> <<"d1", "d2", "d3">>]})>>])

\* Trees whose right pointers lead back: the message's, and its attachment's.
TreeBack(i, to) == Lossy([Msg EXCEPT !.file.sectors[4].entries[i].right = to])
AttachmentBack == Lossy([Msg EXCEPT !.file.sectors[5].entries[2].right = 6])

Part(type, name, data) == [type |-> type, name |-> name, data |-> data]
Parts == <<Part("head", "", <<"s">>), Part("text", "", <<>>), Part("text", "", <<"t">>), Part("text", "", <<"later">>),
           Part("html", "", <<"h">>), Part("text", "x.txt", <<"x">>), Part("other", "empty", <<>>), Part("other", "", <<"y">>)>>
Sent == Mail(<<"s">>, <<"t">>, <<"h">>, {[name |-> "x.txt", data |-> <<"x">>], [name |-> "", data |-> <<"y">>]})
Eml(parts, mails) == [file |-> [kind |-> "eml", good |-> TRUE, parts |-> parts], truth |-> [loss |-> "none", mails |-> mails]]
L(part) == [kind |-> "line", part |-> part]
From == [kind |-> "from"]
Short == <<From, L(Part("head", "", <<"u">>)), L(Part("other", "z", <<"z">>))>>
ShortMail == Mail(<<"u">>, <<>>, <<>>, {[name |-> "z", data |-> <<"z">>]})
Box(lines, loss, mails) ==
  [file |-> [kind |-> "mbox", good |-> TRUE, lines |-> lines], truth |-> [loss |-> loss, mails |-> mails]]
Lines == [i \in DOMAIN Parts |-> L(Parts[i])]

MCDocumentFiles == {
  Auto, [Auto EXCEPT !.file.good = FALSE], Cut(Auto, 9), Cut(Auto, 8), Cut(Auto, 3),
  Lossy([Auto EXCEPT !.file.numDifat = 0]), Lossy(With(Auto, 2, <<99, 1, Free, Free, Free, Free, Free, End>>)),
  [Auto EXCEPT !.file.short = TRUE, !.truth.loss = "some"], Pathless,
  Lossy(With(Auto, 1, <<9, 8, 11, End, Free, Free, Free, Free>>)), Lossy(With(Auto, 5, <<2, 1, End, End, Free, Free, Free, Free>>)),
  Lossy(With(Auto, 0, <<Mark, Mark, Mark, 4, End, 5, End, 6>>)),
  Custom(<<Marker, Lnk, Path("a"), Footer>>, {Row("entry_0", "a")}, {}),
  Custom(<<Marker, Lnk, Path("a"), Marker, Lnk, Path("b"), Footer>>, {Row("entry_0", "a"), Row("entry_1", "b")}, {Row("entry_1", "b")}),
  Custom(<<Footer>>, {}, {}), Custom(<<Marker, Lnk>>, {}, {}),
  Msg, [Msg EXCEPT !.file.good = FALSE], [Msg EXCEPT !.file.short = TRUE], Cut(Msg, 11), Cut(Msg, 9), Cut(Msg, 6), Cut(Msg, 3),
  [Msg EXCEPT !.file.fats = <<Mark, 0, Free>>], Lossy([With(Msg, 2, <<Mark, 1, Free, Free, Free, Free, Free, End>>) EXCEPT !.file.numFat = 3]),
  Lossy(With(Msg, 2, <<Free, 1, Free, Free, Free, Free, Free, 2>>)), TreeBack(4, 2), TreeBack(2, 2), AttachmentBack,
  With(Msg, 1, <<9, 8, 11, 10, Free, Free, Free, Free>>), With(Msg, 5, <<2, 1, 0, 3, Free, Free, Free, Free>>),
  Lossy(With(Msg, 2, <<99, 1, Free, Free, Free, Free, Free, 2>>)), Lossy([Msg EXCEPT !.file.numMini = 0]),
  Eml(Parts, <<Sent>>), Eml(<<Part("broken", "", <<>>)>>, <<>>),
  Box(<<L(Part("text", "", <<"junk">>)), From>> \o Lines \o <<From, L(Part("broken", "", <<>>)), From>> \o Short,
      "none", <<Sent, ShortMail>>),
  Box(<<From>> \o Lines \o Short \o <<[kind |-> "long"]>>, "some", <<Sent, ShortMail>>)}
=============================================================================
