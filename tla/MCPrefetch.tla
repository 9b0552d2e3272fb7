------------------------------- MODULE MCPrefetch -------------------------------
(***************************************************************************)
(* Compressed files, made from tokens as the format lays them out.  The word  *)
(* that holds the bits from the 6k + 1st to the 6k + 6th is the one begun     *)
(* where bit 6k - 5 is written, two words being begun at the start, and the   *)
(* bytes of a length come between its symbol's bits and its offset's.  Bytes   *)
(* have three bits and words six.                                            *)
(***************************************************************************)
EXTENDS Integers, Sequences, SequencesExt, FiniteSets, TLC

Bits(value, n) == [i \in 1..n |-> (value \div 2^(n - i)) % 2]

\* Of a token its symbol, the bytes of its length, the bits of its offset, and what it says.
Lit(v) == [sym |-> v, bytes |-> <<>>, low |-> <<>>, offset |-> 0, length |-> 1]
Copy(n, low, length, mark) ==
  [sym |-> 2 + 3 * n + (IF mark THEN 2 ELSE length - 3), low |-> Bits(low, n), offset |-> 2^n + low, length |-> length,
   bytes |-> IF ~mark THEN <<>> ELSE IF length < 12 THEN <<length - 5>> ELSE <<7, (length - 3) % 8, (length - 3) \div 8>>]
Says(text, t) ==
  IF t.offset = 0 THEN Append(text, t.sym)
  ELSE text \o [i \in 1..t.length |-> text[Len(text) - t.offset + 1 + ((i - 1) % t.offset)]]
Text(tokens) == FoldLeft(Says, <<>>, tokens)
Length(tokens) == FoldLeft(LAMBDA n, t : n + t.length, 0, tokens)

WrittenAs(codes, tokens) == [i \in DOMAIN tokens |-> codes[tokens[i].sym] \o tokens[i].low]
Compressed(codes, tokens) ==
  LET bits == FlattenSeq(WrittenAs(codes, tokens))
      bit(i) == IF i \in DOMAIN bits THEN bits[i] ELSE 0
      half(i) == 4 * bit(i) + 2 * bit(i + 1) + bit(i + 2)
      word(k) == <<half(6 * k + 4), half(6 * k + 1)>>
      \* the words that are begun while the bits behind m, up to n, are written
      begun(m, n) == FlattenSeq([i \in 1..(n - m) |-> IF (m + i) % 6 = 1 /\ m + i > 1 THEN word((m + i) \div 6 + 1) ELSE <<>>])
      before[i \in 1..(Len(tokens) + 1)] ==
        IF i = 1 THEN 0 ELSE before[i - 1] + Len(codes[tokens[i - 1].sym]) + Len(tokens[i - 1].low)
      written(i) == before[i] + Len(codes[tokens[i].sym])
  IN [sym \in 1..20 |-> IF sym - 1 \in DOMAIN codes THEN Len(codes[sym - 1]) ELSE 0] \o word(0) \o word(1)
     \o FlattenSeq([i \in DOMAIN tokens |->
          begun(before[i], written(i)) \o tokens[i].bytes \o begun(written(i), before[i + 1])])

Skewed == 0 :> <<0>> @@ 1 :> <<1, 0>> @@ 7 :> <<1, 1, 0>> @@ 8 :> <<1, 1, 1, 0>> @@ 4 :> <<1, 1, 1, 1, 0>> @@ 12 :> <<1, 1, 1, 1, 1>>
Flat == 0 :> <<0, 0, 0>> @@ 1 :> <<0, 0, 1>> @@ 2 :> <<0, 1, 0>> @@ 4 :> <<0, 1, 1>> @@ 6 :> <<1, 0, 0>> @@ 7 :> <<1, 0, 1>>
        @@ 10 :> <<1, 1, 0>> @@ 13 :> <<1, 1, 1>>
Of(codes, tokens) == {t \in tokens : t.sym \in DOMAIN codes}
Tokens ==
  {Lit(0), Lit(1), Copy(0, 0, 3, FALSE), Copy(0, 0, 5, TRUE), Copy(1, 1, 4, FALSE), Copy(1, 0, 6, TRUE), Copy(1, 1, 11, TRUE),
   Copy(2, 1, 3, FALSE), Copy(2, 1, 12, TRUE), Copy(3, 2, 4, FALSE), Copy(3, 0, 5, TRUE)}

Limit == 16
Sound(tokens) == Length(tokens) <= Limit /\ \A i \in DOMAIN tokens : tokens[i].offset <= Length(SubSeq(tokens, 1, i - 1))
Texts(codes) ==
  LET ts == Of(codes, Tokens)
      begin == <<Lit(1), Lit(0)>>
  IN {s \in {begin \o <<a>> : a \in ts} \union {begin \o <<a, b>> : a, b \in ts}
            \union {begin \o <<Lit(v), a, b, c>> : v \in {0}, a \in ts, b \in ts, c \in ts} : Sound(s)}
Padded(tokens) == tokens \o [i \in 1..(Limit - Length(tokens)) |-> Lit(i % 2)]

File(data, text, damaged) == [file |-> [mam |-> TRUE, good |-> TRUE, size |-> Len(text), data |-> data], truth |-> text, damaged |-> damaged]
One(codes, tokens) == File(Compressed(codes, tokens), Text(tokens), FALSE)
\* The second chunk copies from the first, and has the other table.
Second == <<Copy(0, 0, 5, TRUE), Lit(1), Copy(1, 0, 6, TRUE)>>
Two(codes, other, tokens) ==
  File(Compressed(codes, Padded(tokens)) \o Compressed(other, Second), Text(Padded(tokens) \o Second), FALSE)
Cut(artifact, n) ==
  [artifact EXCEPT !.damaged = TRUE, !.file.data = SubSeq(@, 1, Len(@) - n)]

Plain == [i \in 1..2 |-> Lit(2 - i)] \o <<Copy(0, 0, 3, FALSE), Copy(1, 1, 4, FALSE), Lit(1), Copy(1, 0, 4, FALSE)>>
Late == [i \in 1..4 |-> Lit(i % 2)] \o <<Copy(1, 0, 12, TRUE)>>
\* Of twelve tokens, the last a long match: cut before its offset's bits, which are waited for.
Waiting == [i \in 1..11 |-> Lit(i % 2)] \o <<Copy(3, 0, 5, TRUE)>>
Zeros == File([i \in 1..20 |-> 0], <<0, 0, 0>>, FALSE)
MCPrefetchFiles ==
  {One(Skewed, s) : s \in Texts(Skewed)} \union {One(Flat, s) : s \in Texts(Flat)}
  \union {Two(Skewed, Flat, s) : s \in Texts(Skewed)} \union {Two(Flat, Skewed, s) : s \in {x \in Texts(Flat) : Len(x) < 5}}
  \union {Cut(One(Flat, Plain), n) : n \in {2, 4, 6, 8, 10, 28}} \union {Cut(One(Flat, Late), n) : n \in {1, 2, 3, 5}}
  \union {Cut(One(Flat, Waiting), n) : n \in 4..7}
  \union {Zeros, [Zeros EXCEPT !.file.good = FALSE], [Zeros EXCEPT !.file.size = 0, !.damaged = TRUE], [Zeros EXCEPT !.file.size = 99, !.damaged = TRUE],
          [Zeros EXCEPT !.file.mam = FALSE, !.truth = [i \in 1..20 |-> 0]],
          [Zeros EXCEPT !.file.mam = FALSE, !.file.data = <<1>>, !.truth = <<1>>]}
=============================================================================
