-------------------------------- MODULE MCImages --------------------------------
(* Images of a disk of seven bytes, in chunks and grains of two: with missing     *)
(* segments, truncated and damaged chunks, holes, and tables shared with a mirror. *)
EXTENDS Integers, Sequences

CONSTANTS Zero, None

MCDisk == <<"a", "b", "c", "d", "e", "f", "g">>
Part(k) == SubSeq(MCDisk, 2 * k + 1, IF 2 * k + 2 > 7 THEN 7 ELSE 2 * k + 2)
Raw(k) == [compressed |-> FALSE, bytes |-> Part(k), have |-> Len(Part(k))]
Deflated(k) == [compressed |-> TRUE, bytes |-> Part(k), have |-> Len(Part(k))]
Padded(k) == [compressed |-> TRUE, bytes |-> Part(k) \o <<Zero>>, have |-> Len(Part(k)) + 1]
Short(k) == [compressed |-> TRUE, bytes |-> <<Part(k)[1]>>, have |-> 1]
Hollow == [compressed |-> TRUE, bytes |-> <<>>, have |-> 0]      \* inflates to nothing
CutOff(c, n) == [c EXCEPT !.have = n]

Section(t, n, cs) == [type |-> t, size |-> n, chunks |-> cs]
Vol == Section("volume", 7, <<>>)
NoVol == Section("disk", 0, <<>>)
Tab(cs) == Section("table", 0, cs)
Mirror(cs) == Section("table2", 0, cs)
Last(t) == Section(t, 0, <<>>)

Made(f, cut) == [file |-> [segments |-> f], disk |-> MCDisk, cut |-> cut]
Whole == <<<<Vol, Tab(<<Raw(0), Deflated(1)>>), Mirror(<<Raw(0), Deflated(1)>>), Last("next"), Tab(<<Raw(0)>>)>>,
           <<NoVol, Tab(<<Raw(2)>>), Tab(<<Padded(3)>>), Last("done")>>,
           <<Tab(<<Raw(0)>>), Last("done")>>>>
MCEwfFiles == {
  Made(Whole, {}),
  Made(<<<<Vol, Tab(<<Deflated(0), CutOff(Deflated(1), 1), Raw(2), CutOff(Raw(3), 0)>>)>>>>, {6}),
  Made(<<<<Vol, Tab(<<Raw(0), Raw(1), CutOff(Raw(2), 1), CutOff(Raw(3), 0)>>), Last("done")>>>>, {5, 6}),
  Made(<<<<Vol, Tab(<<Raw(0), Short(1), Raw(2), Hollow>>)>>>>, {3, 6}),
  Made(<<<<Vol, Tab(<<Raw(0), Hollow, Deflated(2), Raw(3)>>)>>>>, {2, 3}),
  Made(<<<<Vol, Tab(<<Raw(0)>>), Last("unreadable")>>>>, {}),
  Made(<<<<Tab(<<Raw(0)>>), Last("done")>>>>, {}), Made(<<<<Vol, Last("done")>>>>, {})}

\* The same disk with bytes 2, 3 (a hole) and 4, 5 (a zeroed grain) zero.
Holed == <<"a", "b", Zero, Zero, Zero, Zero, "g">>
Sparse(gd, gt, at) == [kind |-> "sparse", size |-> 7, gd |-> gd, gt |-> gt, at |-> at, blocks |-> <<>>]
Stream(bs) == [kind |-> "stream", size |-> 7, gd |-> <<>>, gt |-> <<>>, at |-> <<>>, blocks |-> bs]
GrainBlock(g, b) == [type |-> "grain", grain |-> g, bytes |-> b]
Marker(t) == [type |-> t, grain |-> 0, bytes |-> <<>>]
MCVmdkFiles == {
  [file |-> Sparse(<<1, 2>>, <<<<10, 0>>, <<1, 11>>>>,
                   [s \in {10, 11} |-> IF s = 10 THEN <<"a", "b">> ELSE <<"g", Zero>>]),
   disk |-> Holed, cut |-> {}],
  [file |-> Sparse(<<1, 0>>, <<<<10, 11>>>>, [s \in {10, 11} |-> IF s = 10 THEN <<"a", "b">> ELSE <<"c">>]),
   disk |-> <<"a", "b", "c", "d", Zero, Zero, Zero>>, cut |-> {3}],
  [file |-> Stream(<<GrainBlock(0, <<"a", "x">>), Marker("gt"), GrainBlock(3, <<"g">>),
                     GrainBlock(0, <<"a", "b">>), Marker("gd"), Marker("footer"),
                     GrainBlock(1, <<"x", "x">>)>>),
   disk |-> Holed, cut |-> {}],
  [file |-> Stream(<<GrainBlock(0, <<"a", "b">>), GrainBlock(1, <<"c", "d">>),
                     GrainBlock(2, None), GrainBlock(3, <<"g">>)>>),
   disk |-> MCDisk, cut |-> {}],
  [file |-> Stream(<<GrainBlock(0, <<"a">>), GrainBlock(1, <<>>), GrainBlock(3, <<"g">>)>>),
   disk |-> <<"a", Zero, Zero, Zero, Zero, Zero, "g">>, cut |-> {}]}

MCRequests == [off : 0..8, len : 0..5]
MCEwfRequests == MCRequests \cup [off : {-1}, len : {0, 2}]
=============================================================================
