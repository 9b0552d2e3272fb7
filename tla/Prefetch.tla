-------------------------------- MODULE Prefetch --------------------------------
(***************************************************************************)
(* prefetch: the LZXPRESS Huffman stream of a compressed file.  A chunk is a  *)
(* table of code lengths, then symbols and offsets in words of two bytes     *)
(* whose bits are read from the highest, with single bytes for long matches  *)
(* in between: where those lie depends on how far ahead words were loaded.   *)
(*                                                                           *)
(* The file is [mam, good, size, data].  A byte has ByteBits bits and a table *)
(* a byte for each symbol: a literal, or Literals plus a match's number of    *)
(* offset bits and its length, MatchMark for a length that follows.           *)
(***************************************************************************)
EXTENDS Integers, Sequences, SequencesExt, FiniteSets

CONSTANTS PrefetchFiles,
          ByteBits, Literals, MatchMark, ChunkLimit,   \* 8, 256, 15 and 65536
          MaxInflated, MinHeader                       \* 16 MiB and 84 bytes

VARIABLES made, stage,
          pos,     \* the next byte of data
          mem,     \* [bits: loaded and not consumed, codes: of the chunk's symbols]
          aux,     \* dstBase: what was put out before this chunk
          out,     \* dst and the chunk's bytes
          done
vars == <<made, stage, pos, mem, aux, out, done>>
file == made.file

WordBits == 2 * ByteBits
Symbols == Literals + WordBits * (MatchMark + 1)

Init == /\ made \in PrefetchFiles /\ stage = "begin" /\ pos = 1 /\ aux = 0 /\ out = <<>> /\ done = "no"
        /\ mem = [bits |-> <<>>, codes |-> <<>>]
-----------------------------------------------------------------------------
(* xpressStream: the position and the bits loaded.                            *)

Stream == [pos |-> pos, bits |-> mem.bits]
Left(s) == Len(file.data) - s.pos + 1
BitsOf(value, n) == [i \in 1..n |-> (value \div 2^(n - i)) % 2]
Value(bits) == FoldLeft(LAMBDA v, b : 2 * v + b, 0, bits)
Byte(i) == BitsOf(file.data[i], ByteBits)
Drop(s, n) == [s EXCEPT !.bits = SubSeq(@, n + 1, Len(@))]

LoadWord(s) ==
  IF Left(s) < 2 THEN s ELSE [pos |-> s.pos + 2, bits |-> s.bits \o Byte(s.pos + 1) \o Byte(s.pos)]
LoadAny(s) == IF Left(s) = 1 THEN [pos |-> s.pos + 1, bits |-> s.bits \o Byte(s.pos)] ELSE LoadWord(s)
FillUp(s) == IF Len(s.bits) < WordBits THEN LoadWord(s) ELSE s
LoadedFor(s, n) == IF Len(s.bits) < n THEN LoadAny(s) ELSE s

\* buildHuffTrie: canonical codes; with no lengths at all symbol 0 has the empty code.
Lengths(at) == [sym \in 0..(Symbols - 1) |-> file.data[at + sym] % WordBits]
Codes(lengths) ==
  LET like(l) == {sym \in DOMAIN lengths : lengths[sym] = l}
      first[l \in 1..WordBits] == IF l = 1 THEN 0 ELSE 2 * (first[l - 1] + Cardinality(like(l - 1)))
      used == {sym \in DOMAIN lengths : lengths[sym] > 0}
  IN IF used = {} THEN [sym \in {0} |-> <<>>]
     ELSE [sym \in used |->
             BitsOf(first[lengths[sym]] + Cardinality({t \in like(lengths[sym]) : t < sym}), lengths[sym])]

\* decodeHuff: down the trie to a symbol, or to where it has no branch.
Ends(bits) ==
  LET codes == {mem.codes[sym] : sym \in DOMAIN mem.codes}
  IN {n \in 0..Len(bits) : SubSeq(bits, 1, n) \in codes \/ ~\E c \in codes : IsPrefix(SubSeq(bits, 1, n), c)}
DecodeHuff ==
  LET s == IF Ends(mem.bits) = {} THEN LoadAny(Stream) ELSE Stream
  IN IF Ends(s.bits) = {} THEN [sym |-> -1, s |-> Drop(s, Len(s.bits))]
     ELSE LET n == Min(Ends(s.bits))
          IN [sym |-> Max({-1} \union {t \in DOMAIN mem.codes : mem.codes[t] = SubSeq(s.bits, 1, n)}),
              s |-> Drop(s, n)]
-----------------------------------------------------------------------------
In(st) == stage = st /\ done = "no"
Reads(s) == pos' = s.pos /\ mem' = [mem EXCEPT !.bits = s.bits]
Limit == Min({file.size - aux, ChunkLimit})

\* Parse and decompressMAM.
Begin ==
  /\ In("begin")
  /\ IF ~file.mam THEN out' = file.data /\ stage' = "parse" /\ UNCHANGED done
     ELSE IF ~file.good \/ file.size \notin 1..MaxInflated THEN done' = "err" /\ UNCHANGED <<stage, out>>
     ELSE stage' = "table" /\ UNCHANGED <<out, done>>
  /\ UNCHANGED <<made, pos, mem, aux>>

ReadTable ==
  /\ In("table") /\ Len(out) < file.size /\ Left(Stream) >= Symbols
  /\ mem' = [bits |-> <<>>, codes |-> Codes(Lengths(pos))]
  /\ pos' = pos + Symbols /\ aux' = Len(out) /\ stage' = "symbols"
  /\ UNCHANGED <<made, out, done>>
Inflated ==
  /\ In("table") /\ (Len(out) >= file.size \/ Left(Stream) < Symbols)
  /\ stage' = "parse" /\ UNCHANGED <<made, pos, mem, aux, out, done>>

\* The next chunk begins behind the word that other decoders have loaded by now.
Unmoved(s) == s         \* FAULTY: behind the last word this decoder has needed
ChunkEnd(s) == FillUp(s)
EndChunk(s) == stage' = "table" /\ Reads(ChunkEnd(s))
GiveUp(s) == EndChunk(s) /\ UNCHANGED out
Put(bytes, s) ==
  /\ out' = SubSeq(out \o bytes, 1, Min({aux + Limit, Len(out) + Len(bytes)}))
  /\ IF Len(out') >= aux + Limit THEN EndChunk(s) ELSE Reads(s) /\ UNCHANGED stage

Matched(offset, length) ==
  LET whole == FoldLeft(LAMBDA h, i : Append(h, IF Len(h) < offset THEN 0 ELSE h[Len(h) - offset + 1]),
                        out, [i \in 1..Min({length, aux + Limit - Len(out)}) |-> i])
  IN SubSeq(whole, Len(out) + 1, Len(whole))
Match(n, low, length, s) == Put(Matched(2^n + low, length), s)
OffsetBits(sym) == (sym - Literals) \div (MatchMark + 1)
MatchLength(sym) == (sym - Literals) % (MatchMark + 1)

NoSymbol == /\ In("symbols") /\ DecodeHuff.sym = -1 /\ GiveUp(DecodeHuff.s)
            /\ UNCHANGED <<made, aux, done>>
Literal == /\ In("symbols") /\ DecodeHuff.sym \in 0..(Literals - 1) /\ Put(<<DecodeHuff.sym>>, DecodeHuff.s)
           /\ UNCHANGED <<made, aux, done>>

ShortMatch ==
  LET d == DecodeHuff
      n == OffsetBits(d.sym)
      s == LoadedFor(d.s, n)
  IN /\ In("symbols") /\ d.sym >= Literals /\ MatchLength(d.sym) # MatchMark
     /\ IF Len(s.bits) < n THEN GiveUp(s)
        ELSE Match(n, Value(SubSeq(s.bits, 1, n)), MatchLength(d.sym) + 3, Drop(s, n))
     /\ UNCHANGED <<made, aux, done>>

\* The length's bytes come before the offset's bits are consumed, and the next word after.  A
\* stream that ends before those bits keeps the code waiting for them.
LongMatch ==
  LET d == DecodeHuff
      n == OffsetBits(d.sym)
      s == FillUp(d.s)
      low == Value(SubSeq(s.bits, 1, n))
      after(bytes) == FillUp(Drop([s EXCEPT !.pos = @ + bytes], n))
      byte(i) == file.data[s.pos + i]
  IN /\ In("symbols") /\ d.sym >= Literals /\ MatchLength(d.sym) = MatchMark
     /\ CASE Len(s.bits) < n -> UNCHANGED <<pos, mem, stage, out>>
          [] Len(s.bits) >= n /\ Left(s) = 0 -> GiveUp(s)
          [] Len(s.bits) >= n /\ Left(s) > 0 ->
               IF byte(0) # 2^ByteBits - 1 THEN Match(n, low, byte(0) + MatchMark + 3, after(1))
               ELSE IF Left(s) < 3 THEN GiveUp([s EXCEPT !.pos = @ + 1])
               ELSE Match(n, low, byte(1) + byte(2) * 2^ByteBits + 3, after(3))
     /\ UNCHANGED <<made, aux, done>>

\* Parse refuses what is too short for a header, and makes the one row of the rest.
MakeRow == /\ In("parse") /\ done' = IF Len(out) < MinHeader THEN "err" ELSE "eof"
           /\ UNCHANGED <<made, stage, pos, mem, aux, out>>

\* Where LongMatch waits for ever.
Waits ==
  LET d == DecodeHuff
  IN /\ In("symbols") /\ d.sym >= Literals /\ MatchLength(d.sym) = MatchMark
     /\ Len(FillUp(d.s).bits) < OffsetBits(d.sym)

Next == Begin \/ ReadTable \/ NoSymbol \/ Literal \/ ShortMatch \/ LongMatch \/ Inflated \/ MakeRow
-----------------------------------------------------------------------------
\* Every variable has its type.
TypeOK == /\ stage \in {"begin", "table", "symbols", "parse"}
          /\ pos \in 1..(Len(file.data) + 1) /\ ToSet(mem.bits) \subseteq {0, 1} /\ Len(mem.bits) < 2 * WordBits
          /\ ToSet(out) \subseteq 0..(2^ByteBits - 1) /\ aux \in 0..Len(out) /\ done \in {"no", "eof", "err"}

\* What is put out is the file that was compressed, from its beginning and in its order, across
\* chunks and whatever lies between the words; it is short only where the file is damaged.  The
\* damage is a file cut between words: one cut inside a word ends in bytes that were never there,
\* as readBits takes the one byte left for the half it is not (xpress_huffman.go:266).  One that
\* is cut before the bits of a long match keeps the reader and has no row (xpress_huffman.go:99).
FileIsInflated ==
  /\ IsPrefix(out, made.truth)
  /\ done = "eof" => out = made.truth \/ made.damaged
  /\ done = "err" => made.damaged \/ ~file.good \/ Len(made.truth) < MinHeader
=============================================================================
