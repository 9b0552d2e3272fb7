------------------------------- MODULE MCStreams -------------------------------
(* Streams on a volume of seven clusters of two bytes: fragmented, sparse, short of *)
(* runs, at the cut end of the image; units of two clusters, plain, compressed,     *)
(* sparse, damaged and short.                                                       *)
EXTENDS Integers, Sequences

CONSTANT Zero

\* "P" begins a compressed unit of four bytes, "S" one of three, "X" one that is damaged
\* after its first byte, "Y" one damaged at once.
Disk == <<"a", "b", "c", "d", "P", "0", "S", "0", "X", "0", "Y", "0", "e", "f">>
MCInflate(s) ==
  IF Len(s) < 2 THEN [bytes |-> <<>>, ok |-> FALSE]
  ELSE CASE s[1] = "P" -> [bytes |-> <<"p", "q", "r", "s">>, ok |-> TRUE]
         [] s[1] = "S" -> [bytes |-> <<"t", "u", "v">>, ok |-> TRUE]
         [] s[1] = "X" -> [bytes |-> <<"x">>, ok |-> FALSE]
         [] s[1] = "Y" -> [bytes |-> <<>>, ok |-> FALSE]
         [] OTHER -> [bytes |-> s, ok |-> TRUE]

R(lcn, n) == [lcn |-> lcn, length |-> n]
File(reader, runs, size, image, content, loss) ==
  [file |-> [reader |-> reader, runs |-> runs, size |-> size, unit |-> 2,
             disk |-> SubSeq(Disk, 1, image)],
   content |-> content, loss |-> loss]

Z == Zero
Plain(reader) == {
  File(reader, <<R(6, 1), R(-1, 1), R(0, 2)>>, 7, 14, <<"e", "f", Z, Z, "a", "b", "c">>, "none"),
  File(reader, <<R(1, 1), R(0, 1), R(-1, 1)>>, 6, 14, <<"c", "d", "a", "b", Z, Z>>, "none"),
  File(reader, <<R(0, 2)>>, 4, 14, <<"a", "b", "c", "d">>, "none"),
  File(reader, <<R(0, 1), R(6, 1), R(1, 1)>>, 6, 13, <<"a", "b", "e", "f", "c", "d">>,
       IF reader = "whole" THEN "any" ELSE "end"),
  File(reader, <<R(0, 1)>>, 4, 14, <<"a", "b", "c", "d">>, IF reader = "whole" THEN "any" ELSE "end")}
Packed == {
  File("compressed", <<R(2, 1), R(-1, 1)>>, 3, 14, <<"p", "q", "r">>, "none"),
  File("compressed", <<R(2, 1), R(-1, 1), R(0, 2), R(-1, 2), R(6, 1)>>, 14, 14,
       <<"p", "q", "r", "s", "a", "b", "c", "d", Z, Z, Z, Z, "e", "f">>, "none"),
  File("compressed", <<R(1, 1), R(0, 1), R(-1, 4), R(3, 1), R(-1, 1)>>, 15, 14,
       <<"c", "d", "a", "b", Z, Z, Z, Z, Z, Z, Z, Z, "t", "u", "v">>, "none"),
  File("compressed", <<R(2, 1), R(-1, 1), R(4, 1), R(-1, 1), R(0, 2)>>, 12, 14,
       <<"p", "q", "r", "s", "x", "y", "z", "w", "a", "b", "c", "d">>, "end"),
  File("compressed", <<R(0, 2), R(5, 1), R(-1, 1)>>, 8, 14, <<"a", "b", "c", "d", "y", "y", "y", "y">>, "end"),
  File("compressed", <<R(6, 1), R(0, 1), R(2, 1), R(-1, 1)>>, 8, 13, <<"e", "f", "a", "b", "p", "q", "r", "s">>, "any")}
MCFiles == Plain("runs") \cup Plain("whole") \cup Packed
=============================================================================
