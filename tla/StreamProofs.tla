------------------------------ MODULE StreamProofs ------------------------------
(***************************************************************************)
(* The readers of a file's stream, for every file, cluster size and unit,   *)
(* and any sequence of calls: the cached unit is the one it is named after, *)
(* and what a parser is handed is the file's bytes in order.                *)
(***************************************************************************)
EXTENDS Decoders, TLAPS

\* What the steps of a case have to do with a stream.
LEMMA StreamSteps ==
    ASSUME [Next \/ Stopped]_vars
    PROVE  job' = job /\ (job = "stream" => Streams!Next \/ UNCHANGED Streams!vars)
BY DEF Next, Stopped, Reads, vars, shared, Streams!vars

LEMMA DivMod ==
    ASSUME NEW a \in Nat, NEW d \in Nat \ {0}
    PROVE  a \div d \in Nat /\ (a \div d) * d \in Nat /\ (a \div d) * d <= a /\ a < (a \div d) * d + d
OBVIOUS

LEMMA Multiple ==
    ASSUME NEW d \in Nat \ {0}, NEW x \in Nat, NEW y \in Nat, x < y
    PROVE  x * d + d <= y * d
<1>1. y = x + (y - x) /\ y - x \in Nat /\ y - x >= 1
  OBVIOUS
<1>2. y * d = x * d + (y - x) * d /\ (y - x) * d >= d
  BY <1>1
<1> QED BY <1>2

LEMMA DivBelow ==
    ASSUME NEW a \in Nat, NEW d \in Nat \ {0}, NEW q \in Nat, a < q * d + d
    PROVE  a \div d <= q
<1>1. a \div d \in Nat /\ (a \div d) * d \in Nat /\ (a \div d) * d <= a
  BY DivMod
<1>2. q < a \div d => q * d + d <= (a \div d) * d
  BY <1>1, Multiple
<1>3. q * d \in Nat
  OBVIOUS
<1> QED BY <1>1, <1>2, <1>3

LEMMA DivMonotone ==
    ASSUME NEW a \in Nat, NEW b \in Nat, a <= b, NEW d \in Nat \ {0}
    PROVE  a \div d <= b \div d
<1>1. b \div d \in Nat /\ (b \div d) * d \in Nat /\ b < (b \div d) * d + d
  BY DivMod
<1> QED BY <1>1, DivBelow

\* A part of a sequence, as far as the sequence has it.
LEMMA Part ==
    ASSUME NEW S, NEW s \in Seq(S), NEW a \in Nat, NEW m \in Int, a + m <= Len(s)
    PROVE  /\ SubSeq(s, a + 1, a + m) \in Seq(S)
           /\ Len(SubSeq(s, a + 1, a + m)) = IF m > 0 THEN m ELSE 0
           /\ \A i \in 1..Len(SubSeq(s, a + 1, a + m)) : SubSeq(s, a + 1, a + m)[i] = s[a + i]
<1>1. CASE m > 0
  <2>1. m \in Nat
    BY <1>1
  <2>2. /\ SubSeq(s, a + 1, a + m) \in Seq(S) /\ Len(SubSeq(s, a + 1, a + m)) = m
        /\ \A i \in 1..m : SubSeq(s, a + 1, a + m)[i] = s[a + i]
    BY <2>1
  <2> QED BY <1>1, <2>2
<1>2. CASE ~ (m > 0)
  <2>1. SubSeq(s, a + 1, a + m) = <<>>
    BY <1>2
  <2> QED BY <1>2, <2>1
<1> QED BY <1>1, <1>2

LEMMA Appended ==
    ASSUME NEW S, NEW s \in Seq(S), NEW T, NEW t \in Seq(T)
    PROVE  /\ s \o t \in Seq(S \cup T) /\ Len(s \o t) = Len(s) + Len(t)
           /\ \A i \in 1..Len(s) : (s \o t)[i] = s[i]
           /\ \A i \in 1..Len(t) : (s \o t)[Len(s) + i] = t[i]
<1>1. s \in Seq(S \cup T) /\ t \in Seq(S \cup T)
  OBVIOUS
<1> QED BY <1>1

LEMMA EmptyTail ==
    ASSUME NEW S, NEW s \in Seq(S), NEW T, NEW t \in Seq(T), Len(t) = 0
    PROVE  s \o t = s
OBVIOUS

-----------------------------------------------------------------------------
(***************************************************************************)
(* While the stream is read, what was handed out is a beginning of the      *)
(* file, the position is behind it, and the cache holds the unit it names,  *)
(* which is the position's or the one before.                               *)
(***************************************************************************)
Right(s) == made.loss # "any" => \A i \in 1..Len(s) : s[i] = made.content[i]

StreamOK ==
    /\ made \in Files /\ pos \in 0..Len(made.content) /\ \E S : out \in Seq(S)
    /\ Right(out)
    /\ made.file.reader = "whole" => mem = None /\ (done = "no" => out = <<>>)
    /\ made.file.reader # "whole" => Len(out) <= pos /\ (done = "no" => pos = Len(out))
    /\ stage \in Nat /\ (mem # None => made.file.reader = "compressed")
    /\ Streams!CacheIsTheUnit

LEMMA MadeTrue ==
    ASSUME StreamOK
    PROVE  /\ Streams!MadeFrom(made) /\ Len(made.content) \in Nat /\ made.file.size = Len(made.content)
           /\ Len(out) \in Nat /\ ClusterSize \in Nat \ {0} /\ ReadSizes \subseteq Nat \ {0}
<1>1. Streams!MadeFrom(made) /\ ClusterSize \in Nat \ {0} /\ ReadSizes \subseteq Nat \ {0}
  BY DecoderAssumptions DEF StreamOK, Streams!StreamAssumption
<1>2. \E S : made.content \in Seq(S)
  BY <1>1 DEF Streams!MadeFrom
<1>3. \E S : out \in Seq(S)
  BY DEF StreamOK
<1>4. Len(made.content) \in Nat /\ Len(out) \in Nat
  BY <1>2, <1>3
<1> QED BY <1>1, <1>4 DEF Streams!MadeFrom

\* A call that hands out b.
LEMMA Grows ==
    ASSUME StreamOK, made.file.reader # "whole", done = "no", NEW S, NEW b \in Seq(S),
           pos + Len(b) <= Len(made.content),
           made.loss # "any" => \A i \in 1..Len(b) : b[i] = made.content[pos + i],
           out' = out \o b, pos' = pos + Len(b), UNCHANGED made,
           done' = "no" \/ (done' = "eof" /\ made.loss # "none")
    PROVE  /\ pos' \in 0..Len(made.content) /\ Len(out') = pos' /\ \E T : out' \in Seq(T)
           /\ Right(out')
           /\ Streams!Contract!Next \/ UNCHANGED <<made, out, done>>
<1>1. PICK R : out \in Seq(R)
  BY DEF StreamOK
<1>2. /\ out' \in Seq(R \cup S) /\ Len(out') = Len(out) + Len(b)
      /\ \A i \in 1..Len(out) : out'[i] = out[i]
      /\ \A i \in 1..Len(b) : out'[Len(out) + i] = b[i]
  BY <1>1, Appended
<1>3. Len(b) \in Nat /\ Len(out) \in Nat /\ Len(made.content) \in Nat /\ pos = Len(out)
  BY MadeTrue DEF StreamOK
<1>4. ASSUME made.loss # "any", NEW i \in 1..Len(out') PROVE out'[i] = made.content[i]
  <2>1. CASE i <= Len(out)
    BY <1>2, <1>3, <1>4, <2>1 DEF StreamOK, Right
  <2>2. CASE i > Len(out)
    <3>1. i - Len(out) \in 1..Len(b) /\ i = Len(out) + (i - Len(out))
      BY <1>2, <1>3, <2>2
    <3> QED BY <1>2, <1>3, <1>4, <3>1
  <2> QED BY <1>3, <2>1, <2>2
<1>5. out' # out => Streams!Contract!More(out')
  <2>1. Len(out) <= Len(out') /\ Len(out') <= Len(made.content)
    BY <1>2, <1>3
  <2>2. ASSUME made.loss # "any" PROVE out' = SubSeq(made.content, 1, Len(out'))
    <3>1. made.content \in Seq(Streams!Range(made.content))
      BY MadeTrue DEF Streams!MadeFrom
    <3>2. Len(out') = 0 + Len(out') /\ Len(out') \in Int
      BY <1>2, <1>3
    <3>3. /\ SubSeq(made.content, 1, Len(out')) \in Seq(Streams!Range(made.content))
          /\ Len(SubSeq(made.content, 1, Len(out'))) = Len(out')
          /\ \A i \in 1..Len(out') : SubSeq(made.content, 1, Len(out'))[i] = made.content[i]
      BY <2>1, <1>2, <1>3, <3>1
    <3>4. \A i \in 1..Len(out') : out'[i] = SubSeq(made.content, 1, Len(out'))[i]
      BY <1>4, <2>2, <3>3
    <3> QED BY <1>2, <3>3, <3>4
  <2> QED BY <2>1, <2>2 DEF Streams!Contract!More
<1>6. Streams!Contract!Next \/ UNCHANGED <<made, out, done>>
  BY <1>5 DEF Streams!Contract!Next, Streams!Contract!Read, Streams!Contract!End
<1> QED BY <1>2, <1>3, <1>4, <1>6 DEF Right

\* A call that hands out nothing, and the stream's end, where it must be whole.
LEMMA Ends ==
    ASSUME StreamOK, done = "no", UNCHANGED <<made, out>>,
           \/ done' = "err"
           \/ done' = "eof" /\ (made.loss = "none" => made.file.reader # "whole" /\ pos >= Len(made.content))
    PROVE  Streams!Contract!Next
<1>1. ASSUME made.loss = "none", done' = "eof" PROVE out = made.content
  <2>1. /\ \E S : out \in Seq(S)
        /\ \E S : made.content \in Seq(S)
    BY MadeTrue DEF StreamOK, Streams!MadeFrom
  <2>2. Len(out) = Len(made.content)
    BY <1>1, MadeTrue DEF StreamOK
  <2>3. \A i \in 1..Len(out) : out[i] = made.content[i]
    BY <1>1 DEF StreamOK, Right
  <2> QED BY <2>1, <2>2, <2>3
<1> QED BY <1>1 DEF Streams!Contract!Next, Streams!Contract!End

-----------------------------------------------------------------------------
(* runStreamReader. *)

LEMMA RunType ==
    ASSUME StreamOK, made.file.reader # "compressed", NEW p \in Nat, NEW k \in Streams!RunsAt(made.file, p)
    PROVE  LET f == made.file
               at == Streams!OffsetOf(f, k, p)
           IN /\ f.disk \in Seq(Streams!Range(f.disk)) /\ Len(f.disk) \in Nat
              /\ Streams!Bytes(Streams!StartVcn(f, k)) <= p /\ Streams!Bytes(Streams!EndVcn(f, k)) \in Nat
              /\ p < Streams!Bytes(Streams!EndVcn(f, k))
              /\ at \in Int /\ (~Streams!IsHole(f, k) => at \in Nat)
              /\ \A q \in Nat : p <= q /\ q < Streams!Bytes(Streams!EndVcn(f, k)) =>
                   k \in Streams!RunsAt(f, q) /\ Streams!OffsetOf(f, k, q) = at + (q - p)
<1> DEFINE f == made.file
<1>1. /\ k \in DOMAIN f.runs /\ f.runs[k].lcn \in Int /\ f.runs[k].length \in Nat /\ Streams!StartVcn(f, k) \in Nat
      /\ f.disk \in Seq(Streams!Range(f.disk)) /\ ClusterSize \in Nat \ {0}
  BY MadeTrue DEF Streams!MadeFrom, Streams!RunsAt
<1>2. /\ Streams!StartVcn(f, k) * ClusterSize \in Nat
      /\ (Streams!StartVcn(f, k) + f.runs[k].length) * ClusterSize \in Nat
      /\ f.runs[k].lcn * ClusterSize \in Int /\ (f.runs[k].lcn >= 0 => f.runs[k].lcn * ClusterSize \in Nat)
  BY <1>1, SMTT(30)
<1>3. Streams!StartVcn(f, k) * ClusterSize <= p /\ p < (Streams!StartVcn(f, k) + f.runs[k].length) * ClusterSize
  BY DEF Streams!RunsAt, Streams!Bytes, Streams!EndVcn
<1> DEFINE first == Streams!Bytes(Streams!StartVcn(f, k))
           last == Streams!Bytes(Streams!EndVcn(f, k))
           there == Streams!Bytes(f.runs[k].lcn)
<1>4. /\ first \in Nat /\ last \in Nat /\ there \in Int /\ (f.runs[k].lcn >= 0 => there \in Nat)
      /\ first <= p /\ p < last
  BY <1>2, <1>3 DEF Streams!Bytes, Streams!EndVcn
<1>5. \A q : Streams!OffsetOf(f, k, q) = there + q - first
  BY DEF Streams!OffsetOf
<1>6. \A q : first <= q /\ q < last => k \in Streams!RunsAt(f, q)
  BY <1>1 DEF Streams!RunsAt
<1>7. ~Streams!IsHole(f, k) => there \in Nat
  BY <1>1, <1>4 DEF Streams!IsHole
<1> HIDE DEF f, first, last, there
<1>8. /\ Streams!OffsetOf(f, k, p) \in Int /\ (~Streams!IsHole(f, k) => Streams!OffsetOf(f, k, p) \in Nat)
      /\ \A q \in Nat : Streams!OffsetOf(f, k, q) = Streams!OffsetOf(f, k, p) + (q - p)
  BY <1>4, <1>5, <1>7
<1>9. Len(f.disk) \in Nat
  BY <1>1
<1> QED BY <1>1, <1>4, <1>6, <1>8, <1>9 DEF f, first, last

\* The bytes of a run, as far as the image has them, are the file's.
LEMMA RunIsTrue ==
    ASSUME StreamOK, made.file.reader # "compressed", pos < Len(made.content),
           NEW k \in Streams!RunsAt(made.file, pos), NEW want \in Nat \ {0},
           pos + want <= Len(made.content), pos + want <= Streams!Bytes(Streams!EndVcn(made.file, k)),
           ~Streams!IsHole(made.file, k),
           NEW got, got = Streams!Got(made.file, Streams!OffsetOf(made.file, k, pos), want)
    PROVE  /\ \E S : got \in Seq(S)
           /\ Len(got) \in 0..want
           /\ made.loss = "none" => Len(got) = want
           /\ made.loss # "any" => \A i \in 1..Len(got) : got[i] = made.content[pos + i]
<1> DEFINE f == made.file
           at == Streams!OffsetOf(f, k, pos)
           end == Len(f.disk)
           m == Streams!Smaller(at + want, end) - at
<1>1. /\ f.disk \in Seq(Streams!Range(f.disk)) /\ at \in Nat /\ end \in Nat /\ pos \in Nat
      /\ \A q \in Nat : pos <= q /\ q < pos + want =>
                          k \in Streams!RunsAt(f, q) /\ Streams!OffsetOf(f, k, q) = at + (q - pos)
  BY RunType DEF StreamOK
<1>2. made.loss # "any" => Streams!RunsMadeFrom(made)
  BY MadeTrue DEF Streams!MadeFrom
<1>3. /\ m = (IF at + want < end THEN at + want ELSE end) - at
      /\ got = SubSeq(f.disk, at + 1, IF at + want < end THEN at + want ELSE end)
  BY DEF Streams!Smaller, Streams!Got
<1>4. ASSUME made.loss # "any", NEW q \in Nat, pos <= q, q < pos + want
      PROVE  /\ at + (q - pos) < end => made.content[q + 1] = f.disk[at + (q - pos) + 1]
             /\ at + (q - pos) >= end => made.loss # "none"
  <2>1. q \in 0..(Len(made.content) - 1)
    BY <1>1, <1>4, MadeTrue
  <2>2. k \in Streams!RunsAt(f, q) /\ Streams!OffsetOf(f, k, q) = at + (q - pos)
    BY <1>1, <1>4
  <2> HIDE DEF at
  <2>3. at + (q - pos) \in Int
    BY <1>1
  <2> QED BY <1>1, <1>2, <1>4, <2>1, <2>2, <2>3 DEF Streams!RunsMadeFrom
<1> HIDE DEF f, at, end, m
<1>5. m \in Int /\ at + m <= end /\ m <= want /\ (m < want => at + m = end)
  BY <1>1, <1>3
<1>6. got = SubSeq(f.disk, at + 1, at + m)
  BY <1>1, <1>3
<1>7. /\ got \in Seq(Streams!Range(f.disk)) /\ Len(got) = IF m > 0 THEN m ELSE 0
      /\ \A i \in 1..Len(got) : got[i] = f.disk[at + i]
  BY <1>1, <1>5, <1>6, Part DEF end
<1>8. Len(got) \in 0..want
  BY <1>5, <1>7
<1>9. ASSUME made.loss = "none" PROVE Len(got) = want
  <2>1. CASE m < want
    <3>1. CASE m > 0
      <4>1. pos + m \in Nat /\ pos + m < pos + want /\ pos <= pos + m /\ at + ((pos + m) - pos) >= end
        BY <1>1, <1>5, <2>1, <3>1
      <4> QED BY <1>4, <1>9, <4>1
    <3>2. CASE ~ (m > 0)
      <4>1. pos < pos + want /\ at + (pos - pos) >= end
        BY <1>1, <1>5, <2>1, <3>2
      <4> QED BY <1>1, <1>4, <1>9, <4>1
    <3> QED BY <3>1, <3>2
  <2> QED BY <1>5, <1>7, <2>1
<1>10. ASSUME made.loss # "any", NEW i \in 1..Len(got) PROVE got[i] = made.content[pos + i]
  <2>1. /\ pos + i - 1 \in Nat /\ pos <= pos + i - 1 /\ pos + i - 1 < pos + want
        /\ at + ((pos + i - 1) - pos) < end
        /\ (pos + i - 1) + 1 = pos + i /\ at + ((pos + i - 1) - pos) + 1 = at + i
    BY <1>1, <1>5, <1>7
  <2>2. made.content[(pos + i - 1) + 1] = f.disk[at + ((pos + i - 1) - pos) + 1]
    BY <1>4, <1>10, <2>1
  <2> QED BY <1>7, <2>1, <2>2
<1> QED BY <1>7, <1>8, <1>9, <1>10

Kept == StreamOK' /\ (Streams!Contract!Next \/ UNCHANGED <<made, out, done>>)

LEMMA ReadRunKeeps == StreamOK /\ Streams!ReadRun => Kept
<1> SUFFICES ASSUME StreamOK, Streams!ReadRun PROVE Kept
  OBVIOUS
<1>1. /\ made.file.reader = "runs" /\ done = "no" /\ pos < Len(made.content) /\ pos \in Nat
      /\ UNCHANGED <<made, stage, mem>> /\ mem = None /\ stage \in Nat
  BY MadeTrue DEF StreamOK, Streams!ReadRun, Streams!file
<1>2. ASSUME NEW S, NEW b \in Seq(S), pos + Len(b) <= Len(made.content),
             made.loss # "any" => \A i \in 1..Len(b) : b[i] = made.content[pos + i],
             Streams!Give(b), done' = "no" \/ (done' = "eof" /\ made.loss # "none")
      PROVE  Kept
  <2>1. /\ pos' \in 0..Len(made.content) /\ Len(out') = pos' /\ \E T : out' \in Seq(T) /\ Right(out')
        /\ Streams!Contract!Next \/ UNCHANGED <<made, out, done>>
    BY <1>1, <1>2, Grows DEF Streams!Give
  <2> QED BY <1>1, <2>1 DEF Kept, StreamOK, Right, Streams!CacheIsTheUnit
<1>3. CASE Streams!RunsAt(made.file, pos) = {} /\ done' = "eof" /\ Streams!GiveNothing
  <2>1. made.loss # "none"
    <3>1. made.loss = "none" => Streams!RunsMadeFrom(made)
      BY <1>1, MadeTrue DEF Streams!MadeFrom
    <3>2. pos \in 0..(Len(made.content) - 1)
      BY <1>1, MadeTrue
    <3> QED BY <1>3, <3>1, <3>2 DEF Streams!RunsMadeFrom
  <2>2. Streams!Contract!Next
    BY <1>1, <1>3, <2>1, Ends DEF Streams!GiveNothing
  <2> QED BY <1>1, <1>3, <2>2 DEF Kept, StreamOK, Right, Streams!CacheIsTheUnit, Streams!GiveNothing
<1>4. ASSUME NEW n \in ReadSizes, NEW k \in Streams!RunsAt(made.file, pos),
             Streams!FromRun(k, Streams!Smaller(n, made.file.size - pos))
      PROVE  Kept
  <2> DEFINE want == Streams!InRun(k, Streams!Smaller(n, made.file.size - pos))
             got == Streams!Got(made.file, Streams!OffsetOf(made.file, k, pos), want)
  <2>1. /\ want \in Nat \ {0} /\ pos + want <= Len(made.content)
        /\ pos + want <= Streams!Bytes(Streams!EndVcn(made.file, k))
    <3>1. n \in Nat \ {0} /\ made.file.size = Len(made.content) /\ Len(made.content) \in Nat
      BY MadeTrue
    <3>2. Streams!Bytes(Streams!EndVcn(made.file, k)) \in Nat /\ pos < Streams!Bytes(Streams!EndVcn(made.file, k))
      BY <1>1, RunType
    <3> QED BY <1>1, <3>1, <3>2 DEF Streams!InRun, Streams!Smaller, Streams!file
  <2> HIDE DEF want
  <2>2. CASE Streams!IsHole(made.file, k)
    <3>1. Streams!Give(Streams!Zeros(want)) /\ UNCHANGED done
      BY <1>4, <2>2 DEF Streams!FromRun, Streams!file, want
    <3>2. Streams!Zeros(want) \in Seq({Zero}) /\ Len(Streams!Zeros(want)) = want
      BY <2>1 DEF Streams!Zeros
    <3>3. ASSUME made.loss # "any", NEW i \in 1..want PROVE Streams!Zeros(want)[i] = made.content[pos + i]
      <4>1. Streams!RunsMadeFrom(made)
        BY <1>1, <3>3, MadeTrue DEF Streams!MadeFrom
      <4> DEFINE end == Streams!Bytes(Streams!EndVcn(made.file, k))
      <4>a. end \in Nat /\ Len(made.content) \in Nat
        BY <1>1, RunType, MadeTrue
      <4> HIDE DEF end
      <4>2. pos + i - 1 \in 0..(Len(made.content) - 1) /\ pos + i - 1 \in Nat /\ pos <= pos + i - 1
            /\ pos + i - 1 < end
        BY <1>1, <2>1, <4>a DEF end
      <4>3. k \in Streams!RunsAt(made.file, pos + i - 1)
        BY <1>1, <4>2, RunType DEF end
      <4>4. made.content[(pos + i - 1) + 1] = Zero
        BY <2>2, <4>1, <4>2, <4>3 DEF Streams!RunsMadeFrom
      <4>5. (pos + i - 1) + 1 = pos + i
        BY <1>1, <2>1
      <4> QED BY <4>4, <4>5, <2>1 DEF Streams!Zeros
    <3> QED BY <1>1, <1>2, <2>1, <3>1, <3>2, <3>3
  <2>3. CASE ~Streams!IsHole(made.file, k)
    <3>1. /\ \E S : got \in Seq(S)
          /\ Len(got) \in 0..want /\ (made.loss = "none" => Len(got) = want)
          /\ made.loss # "any" => \A i \in 1..Len(got) : got[i] = made.content[pos + i]
      BY <1>1, <2>1, <2>3, RunIsTrue
    <3>2. \/ /\ Streams!Give(got)
             /\ done' \in IF Len(got) = want THEN {"no"} ELSE IF got = <<>> THEN {"eof"} ELSE {"no", "eof"}
          \/ (\E m \in 0..Len(got) : Streams!Give(SubSeq(got, 1, m))) /\ UNCHANGED done
      BY <1>4, <2>3 DEF Streams!FromRun, Streams!file, want
    <3> HIDE DEF got
    <3>3. PICK S : got \in Seq(S)
      BY <3>1
    <3>4. CASE /\ Streams!Give(got)
               /\ done' \in IF Len(got) = want THEN {"no"} ELSE IF got = <<>> THEN {"eof"} ELSE {"no", "eof"}
      <4>1. done' = "no" \/ (done' = "eof" /\ made.loss # "none")
        BY <3>1, <3>4
      <4>2. pos + Len(got) <= Len(made.content)
        BY <1>1, <2>1, <3>1, MadeTrue
      <4> QED BY <1>2, <3>1, <3>3, <3>4, <4>1, <4>2
    <3>5. ASSUME NEW m \in 0..Len(got), Streams!Give(SubSeq(got, 1, m)), UNCHANGED done PROVE Kept
      <4>1. /\ SubSeq(got, 1, m) \in Seq(S) /\ Len(SubSeq(got, 1, m)) = m
            /\ \A i \in 1..m : SubSeq(got, 1, m)[i] = got[i]
        BY <3>3
      <4>2. pos + m <= Len(made.content) /\ \A i \in 1..m : i \in 1..Len(got)
        BY <1>1, <2>1, <3>1, MadeTrue
      <4>3. made.loss # "any" => \A i \in 1..m : SubSeq(got, 1, m)[i] = made.content[pos + i]
        BY <3>1, <4>1, <4>2
      <4> QED BY <1>1, <1>2, <3>5, <4>1, <4>2, <4>3
    <3> QED BY <3>2, <3>4, <3>5
  <2> QED BY <2>2, <2>3
<1> QED BY <1>3, <1>4 DEF Streams!ReadRun, Streams!file

-----------------------------------------------------------------------------
(* readRuns. *)

LEMMA ReadRunsKeeps == StreamOK /\ Streams!ReadRuns => Kept
<1> SUFFICES ASSUME StreamOK, Streams!ReadRuns PROVE Kept
  OBVIOUS
<1> DEFINE all == Streams!Assembled(made.file)
<1>1. /\ made.file.reader = "whole" /\ done = "no" /\ out = <<>> /\ mem = None /\ stage \in Nat
      /\ UNCHANGED <<made, pos, stage, mem>>
      /\ pos \in 0..Len(made.content) /\ made.file.size = Len(made.content) /\ Len(made.content) \in Nat
      /\ made.loss # "any" => made.loss = "none" /\ Streams!RunsMadeFrom(made)
  BY MadeTrue DEF StreamOK, Streams!ReadRuns, Streams!file, Streams!MadeFrom
<1>2. Len(all) = Len(made.content) /\ \E S : all \in Seq(S)
  <2> DEFINE g(i) == all[i]
  <2>1. all \in [1..Len(made.content) -> {g(i) : i \in 1..Len(made.content)}]
    BY <1>1 DEF Streams!Assembled
  <2> HIDE DEF all
  <2>2. all \in Seq({g(i) : i \in 1..Len(made.content)}) /\ Len(all) = Len(made.content)
    BY <1>1, <2>1
  <2> QED BY <2>2
<1>3. ASSUME made.loss # "any", NEW i \in 1..Len(made.content) PROVE all[i] = made.content[i]
  <2> DEFINE K == Streams!RunsAt(made.file, i - 1)
             k == CHOOSE x \in K : TRUE
             at == Streams!OffsetOf(made.file, k, i - 1)
  <2>1. i - 1 \in 0..(Len(made.content) - 1) /\ (i - 1) + 1 = i /\ i \in 1..made.file.size
    BY <1>1
  <2>2. K # {} /\ k \in K
    BY <1>1, <1>3, <2>1 DEF Streams!RunsMadeFrom
  <2>3. IF Streams!IsHole(made.file, k) THEN made.content[i] = Zero
        ELSE at < Len(made.file.disk) /\ made.content[i] = made.file.disk[at + 1]
    BY <1>1, <1>3, <2>1, <2>2 DEF Streams!RunsMadeFrom
  <2>4. at \in Int /\ Len(made.file.disk) \in Nat
    BY <1>1, <2>1, <2>2, RunType
  <2>5. all[i] = IF K = {} \/ Streams!IsHole(made.file, k) \/ at >= Len(made.file.disk) THEN Zero
                 ELSE made.file.disk[at + 1]
    BY <2>1 DEF Streams!Assembled
  <2> HIDE DEF K, k, at, all
  <2> QED BY <2>2, <2>3, <2>4, <2>5
<1> HIDE DEF all
<1>4. PICK n \in 0..Len(made.content) :
        out' = SubSeq(all, 1, n) /\ ((done' = "eof" /\ n = Len(made.content)) \/ done' = "err")
  <2>1. CASE out' = all /\ done' = "eof"
    <3>1. out' = SubSeq(all, 1, Len(made.content))
      BY <1>1, <1>2, <2>1
    <3> QED BY <1>1, <2>1, <3>1
  <2>2. ASSUME NEW k \in DOMAIN made.file.runs, Streams!Bytes(Streams!StartVcn(made.file, k)) < made.file.size,
               out' = SubSeq(all, 1, Streams!Bytes(Streams!StartVcn(made.file, k))), done' = "err"
        PROVE  \E n \in 0..Len(made.content) :
                  out' = SubSeq(all, 1, n) /\ ((done' = "eof" /\ n = Len(made.content)) \/ done' = "err")
    <3>1. Streams!StartVcn(made.file, k) \in Nat /\ ClusterSize \in Nat \ {0}
      BY MadeTrue DEF Streams!MadeFrom
    <3>2. Streams!StartVcn(made.file, k) * ClusterSize \in Nat
      BY <3>1
    <3>3. Streams!Bytes(Streams!StartVcn(made.file, k)) \in 0..Len(made.content)
      BY <1>1, <2>2, <3>2 DEF Streams!Bytes
    <3> QED BY <2>2, <3>3
  <2> QED BY <2>1, <2>2 DEF Streams!ReadRuns, Streams!file, all
<1>5. /\ \E S : out' \in Seq(S)
      /\ Len(out') = n /\ \A i \in 1..n : out'[i] = all[i]
  BY <1>1, <1>2, <1>4
<1>6. made.loss # "any" => \A i \in 1..n : out'[i] = made.content[i]
  BY <1>1, <1>3, <1>5
<1>7. Streams!Contract!More(out')
  <2>1. ASSUME made.loss # "any" PROVE out' = SubSeq(made.content, 1, Len(out'))
    <3>1. made.content \in Seq(Streams!Range(made.content))
      BY MadeTrue DEF Streams!MadeFrom
    <3>2. /\ SubSeq(made.content, 1, n) \in Seq(Streams!Range(made.content))
          /\ Len(SubSeq(made.content, 1, n)) = n
          /\ \A i \in 1..n : SubSeq(made.content, 1, n)[i] = made.content[i]
      BY <1>1, <3>1
    <3>3. \A i \in 1..n : out'[i] = SubSeq(made.content, 1, n)[i]
      BY <1>6, <2>1, <3>2
    <3> QED BY <1>1, <1>5, <3>2, <3>3
  <2> QED BY <1>1, <1>5, <2>1 DEF Streams!Contract!More
<1>8. ASSUME made.loss = "none", done' = "eof" PROVE out' = made.content
  <2>1. made.content \in Seq(Streams!Range(made.content))
    BY MadeTrue DEF Streams!MadeFrom
  <2>2. n = Len(made.content)
    BY <1>4, <1>8
  <2>3. \A i \in 1..n : out'[i] = made.content[i]
    BY <1>6, <1>8
  <2> QED BY <1>5, <2>1, <2>2, <2>3
<1>9. Streams!Contract!Next
  BY <1>1, <1>4, <1>7, <1>8 DEF Streams!Contract!Next, Streams!Contract!End
<1>10. done' # "no"
  BY <1>4
<1> QED BY <1>1, <1>5, <1>6, <1>9, <1>10 DEF Kept, StreamOK, Right, Streams!CacheIsTheUnit

-----------------------------------------------------------------------------
(* compressedRunStreamReader. *)

\* What a unit still has from the position lies in the unit, is the file's, and is nothing
\* only where the unit was damaged.
LEMMA RestIsTrue ==
    ASSUME StreamOK, made.file.reader = "compressed", pos < Len(made.content), NEW n \in ReadSizes,
           NEW u, u = Streams!UnitOf(pos), NEW s, s = Streams!Rest(Streams!Loaded(made.file, u).bytes, n)
    PROVE  /\ u \in Nat /\ \E S : s \in Seq(S)
           /\ pos + Len(s) <= Len(made.content)
           /\ s # <<>> => Streams!UnitOf(pos + Len(s) - 1) <= u
           /\ made.loss = "none" => s # <<>>
           /\ made.loss # "any" => \A i \in 1..Len(s) : s[i] = made.content[pos + i]
<1> DEFINE UB == Streams!UnitBytes(made.file)
           d == Streams!Loaded(made.file, u).bytes
           first == u * UB
           at == pos - first
           m == Streams!Smaller(Streams!Smaller(n, Len(made.content) - pos), Len(d) - at)
<1>1. pos \in Nat /\ n \in Nat \ {0} /\ Len(made.content) \in Nat /\ made.file.size = Len(made.content)
  BY MadeTrue DEF StreamOK
<1>2. UB \in Nat \ {0}
  <2>1. made.file.unit \in Nat \ {0} /\ ClusterSize \in Nat \ {0}
    BY MadeTrue DEF Streams!MadeFrom
  <2> QED BY <2>1 DEF Streams!UnitBytes, Streams!Bytes
<1>3. u = pos \div UB
  BY DEF Streams!UnitOf, Streams!file
<1>4. s = SubSeq(d, at + 1, at + m)
  BY <1>1 DEF Streams!Rest, Streams!UnitOf, Streams!file
<1>5. Streams!UnitsMadeFrom(made)
  BY MadeTrue DEF Streams!MadeFrom
<1>6. \A x \in Nat : Streams!UnitOf(x) = x \div UB
  BY DEF Streams!UnitOf, Streams!file
<1> HIDE DEF UB
<1>7. u \in Nat /\ first \in Nat /\ first <= pos /\ pos < first + UB
  BY <1>1, <1>2, <1>3, DivMod
<1>8. u \in 0..Len(made.content)
  <2>1. u * UB = u + u * (UB - 1) /\ u * (UB - 1) \in Nat
    BY <1>2, <1>7
  <2> QED BY <1>1, <1>7, <2>1
<1>9. /\ d \in Seq(Streams!Range(d)) /\ Len(d) <= UB
      /\ made.loss # "any" =>
           \A i \in DOMAIN d : first + i <= Len(made.content) => made.content[first + i] = d[i]
      /\ made.loss = "none" => first + Len(d) >= Streams!Smaller(first + UB, Len(made.content))
  BY <1>5, <1>8 DEF Streams!UnitsMadeFrom, UB
<1> HIDE DEF d, first
<1>10. Len(d) \in Nat /\ at \in Nat /\ at < UB /\ first + at = pos
  BY <1>1, <1>2, <1>7, <1>9
<1> HIDE DEF at
<1>11. /\ m \in Int /\ at + m <= Len(d) /\ m <= Len(made.content) - pos
       /\ at < Len(d) => m > 0
  BY <1>1, <1>10 DEF Streams!Smaller
<1> HIDE DEF m
<1>12. /\ s \in Seq(Streams!Range(d)) /\ Len(s) = (IF m > 0 THEN m ELSE 0)
       /\ \A i \in 1..Len(s) : s[i] = d[at + i]
  BY <1>4, <1>9, <1>10, <1>11, Part
<1>13. Len(s) \in Nat /\ pos + Len(s) <= Len(made.content) /\ (s # <<>> => m > 0)
  BY <1>1, <1>11, <1>12
<1>14. ASSUME s # <<>> PROVE Streams!UnitOf(pos + Len(s) - 1) <= u
  <2>1. pos + Len(s) - 1 \in Nat /\ pos + Len(s) - 1 < first + UB
    BY <1>1, <1>2, <1>7, <1>9, <1>10, <1>11, <1>12, <1>13, <1>14
  <2> QED BY <1>2, <1>6, <1>7, <2>1, DivBelow DEF first
<1>15. ASSUME made.loss = "none" PROVE s # <<>>
  <2>1. at < Len(d)
    <3>1. first + Len(d) >= Streams!Smaller(first + UB, Len(made.content))
      BY <1>9, <1>15
    <3>2. first + Len(d) > pos
      BY <1>1, <1>2, <1>7, <1>10, <3>1 DEF Streams!Smaller
    <3> QED BY <1>7, <1>10, <3>2
  <2>2. Len(s) > 0
    BY <1>11, <1>12, <2>1
  <2> QED BY <2>2
<1>16. ASSUME made.loss # "any", NEW i \in 1..Len(s) PROVE s[i] = made.content[pos + i]
  <2>1. at + i \in 1..Len(d) /\ first + (at + i) = pos + i /\ first + (at + i) <= Len(made.content)
    BY <1>1, <1>7, <1>10, <1>11, <1>12, <1>13
  <2>2. DOMAIN d = 1..Len(d)
    BY <1>9
  <2>3. made.content[first + (at + i)] = d[at + i]
    BY <1>9, <1>16, <2>1, <2>2
  <2> QED BY <1>12, <2>1, <2>3
<1> QED BY <1>7, <1>12, <1>13, <1>14, <1>15, <1>16

\* A call that gives what the cached unit has.
LEMMA GiveUnitKeeps ==
    ASSUME StreamOK, made.file.reader = "compressed", done = "no", pos < Len(made.content), NEW n \in ReadSizes,
           Streams!GiveUnit(Streams!Loaded(made.file, Streams!UnitOf(pos)).bytes, n),
           UNCHANGED made, stage' = Streams!UnitOf(pos),
           mem' = Streams!Loaded(made.file, Streams!UnitOf(pos)).bytes
    PROVE  Kept
<1> DEFINE u == Streams!UnitOf(pos)
           s == Streams!Rest(Streams!Loaded(made.file, u).bytes, n)
<1>1. /\ u \in Nat /\ \E S : s \in Seq(S)
      /\ pos + Len(s) <= Len(made.content)
      /\ s # <<>> => Streams!UnitOf(pos + Len(s) - 1) <= u
      /\ made.loss = "none" => s # <<>>
      /\ made.loss # "any" => \A i \in 1..Len(s) : s[i] = made.content[pos + i]
  BY RestIsTrue
<1>2. /\ pos \in Nat /\ pos = Len(out) /\ Len(out) \in Nat /\ Len(made.content) \in Nat
      /\ made.file.size = Len(made.content) /\ Streams!UnitBytes(made.file) \in Nat \ {0}
  <2>1. made.file.unit \in Nat \ {0} /\ ClusterSize \in Nat \ {0}
    BY MadeTrue DEF Streams!MadeFrom
  <2>2. made.file.unit * ClusterSize \in Nat \ {0}
    BY <2>1
  <2> QED BY <2>2, MadeTrue DEF StreamOK, Streams!UnitBytes, Streams!Bytes
<1>3. \A x, y \in Nat : x <= y => Streams!UnitOf(x) <= Streams!UnitOf(y)
  BY <1>2, DivMonotone DEF Streams!UnitOf, Streams!file
<1>4. \A x : Streams!UnitOf(x)' = Streams!UnitOf(x) /\ Streams!Loaded(made.file, x)' = Streams!Loaded(made.file, x)
  BY DEF Streams!UnitOf, Streams!file
<1>5. Streams!CacheIsTheUnit' <=>
        (mem' # None => /\ mem' = Streams!Loaded(made.file, stage').bytes
                        /\ stage' <= Streams!UnitOf(pos') /\ (out' # <<>> => stage' >= Streams!UnitOf(Len(out') - 1)))
  BY DEF Streams!CacheIsTheUnit, Streams!UnitOf, Streams!file
<1> HIDE DEF u, s
<1>6. CASE s # <<>> /\ Streams!Give(s) /\ UNCHANGED done
  <2>1. PICK S : s \in Seq(S)
    BY <1>1
  <2>2. /\ pos' \in 0..Len(made.content) /\ Len(out') = pos' /\ \E T : out' \in Seq(T) /\ Right(out')
        /\ Streams!Contract!Next \/ UNCHANGED <<made, out, done>>
    BY <1>1, <1>6, <2>1, Grows DEF Streams!Give
  <2>3. u <= Streams!UnitOf(pos') /\ Streams!UnitOf(Len(out') - 1) <= u
    <3>1. pos' = pos + Len(s) /\ Len(s) \in Nat
      BY <1>6, <2>1 DEF Streams!Give
    <3> QED BY <1>1, <1>2, <1>3, <1>6, <2>2, <3>1 DEF u
  <2> QED BY <1>1, <1>2, <1>5, <1>6, <2>2, <2>3 DEF Kept, StreamOK, Right, u
<1>7. CASE s = <<>> /\ pos' = made.file.size /\ done' = "eof" /\ UNCHANGED out
  <2>1. Streams!Contract!Next
    BY <1>1, <1>7, Ends
  <2>2. u <= Streams!UnitOf(pos') /\ (out # <<>> => Streams!UnitOf(Len(out) - 1) <= u)
    <3>1. out # <<>> => Len(out) - 1 \in Nat
      BY <1>2 DEF StreamOK
    <3> QED BY <1>2, <1>3, <1>7, <3>1 DEF u
  <2> QED BY <1>1, <1>2, <1>5, <1>7, <2>1, <2>2 DEF Kept, StreamOK, Right, u
<1> QED BY <1>6, <1>7 DEF Streams!GiveUnit, Streams!file, u, s

LEMMA CompressedKeeps ==
    ASSUME StreamOK, Streams!FromCache \/ Streams!LoadUnit \/ Streams!LoadFails \/ Streams!UnitIsLost
    PROVE  Kept
<1>1. /\ made.file.reader = "compressed" /\ done = "no" /\ pos < Len(made.content) /\ UNCHANGED made
  BY MadeTrue DEF Streams!FromCache, Streams!LoadUnit, Streams!LoadFails, Streams!UnitIsLost, Streams!file
<1>2. CASE Streams!FromCache
  <2>1. /\ stage = Streams!UnitOf(pos) /\ mem = Streams!Loaded(made.file, Streams!UnitOf(pos)).bytes
        /\ UNCHANGED <<stage, mem>>
    BY <1>2 DEF StreamOK, Streams!FromCache, Streams!IsCached, Streams!CacheIsTheUnit, Streams!file
  <2>2. PICK n \in ReadSizes : Streams!GiveUnit(mem, n)
    BY <1>2 DEF Streams!FromCache
  <2> QED BY <1>1, <2>1, <2>2, GiveUnitKeeps
<1>3. CASE Streams!LoadUnit
  <2>1. PICK n \in ReadSizes : Streams!GiveUnit(Streams!Loaded(made.file, Streams!UnitOf(pos)).bytes, n)
    BY <1>3 DEF Streams!LoadUnit, Streams!file
  <2>2. stage' = Streams!UnitOf(pos) /\ mem' = Streams!Loaded(made.file, Streams!UnitOf(pos)).bytes
    BY <1>3 DEF Streams!LoadUnit, Streams!Keep, Streams!file
  <2> QED BY <1>1, <2>1, <2>2, GiveUnitKeeps
<1>4. CASE Streams!LoadFails \/ Streams!UnitIsLost
  <2>1. UNCHANGED <<made, pos, out, stage, mem>> /\ (UNCHANGED done \/ done' = "err")
    BY <1>4 DEF Streams!LoadFails, Streams!UnitIsLost, Streams!GiveNothing
  <2>2. StreamOK'
    BY <1>1, <2>1 DEF StreamOK, Right, Streams!CacheIsTheUnit, Streams!UnitOf, Streams!file
  <2>3. Streams!Contract!Next \/ UNCHANGED <<made, out, done>>
    BY <1>1, <2>1, Ends
  <2> QED BY <2>2, <2>3 DEF Kept
<1> QED BY <1>2, <1>3, <1>4

LEMMA AtEndKeeps == StreamOK /\ Streams!AtEnd => Kept
<1> SUFFICES ASSUME StreamOK, Streams!AtEnd PROVE Kept
  OBVIOUS
<1>1. /\ made.file.reader # "whole" /\ done = "no" /\ pos >= Len(made.content) /\ done' = "eof"
      /\ UNCHANGED <<made, pos, out, stage, mem>>
  BY MadeTrue DEF Streams!AtEnd, Streams!file
<1>2. Streams!Contract!Next
  BY <1>1, Ends
<1>3. StreamOK'
  BY <1>1 DEF StreamOK, Right, Streams!CacheIsTheUnit, Streams!UnitOf, Streams!file
<1> QED BY <1>2, <1>3 DEF Kept

StreamInv == job = "stream" => StreamOK

LEMMA StreamInit == ASSUME Init, job = "stream" PROVE StreamOK /\ Streams!Contract!Init
<1>1. /\ made \in Files /\ pos = 0 /\ stage = 0 /\ mem = None /\ out = <<>> /\ done = "no"
  BY DEF Init, Streams!Init
<1>2. Streams!MadeFrom(made)
  BY <1>1, DecoderAssumptions DEF Streams!StreamAssumption
<1>3. Len(made.content) \in Nat
  BY <1>2 DEF Streams!MadeFrom
<1> QED BY <1>1, <1>3 DEF StreamOK, Right, Streams!CacheIsTheUnit, Streams!Contract!Init

LEMMA StreamStep ==
    ASSUME StreamInv, [Next \/ Stopped]_vars
    PROVE  StreamInv' /\ (job = "stream" => Streams!Contract!Next \/ UNCHANGED <<made, out, done>>)
<1>1. job' = job
  BY StreamSteps
<1> SUFFICES ASSUME job = "stream" PROVE Kept
  BY <1>1 DEF StreamInv, Kept
<1>2. StreamOK /\ (Streams!Next \/ UNCHANGED Streams!vars)
  BY StreamSteps DEF StreamInv
<1>3. CASE UNCHANGED Streams!vars
  BY <1>2, <1>3 DEF Streams!vars, Kept, StreamOK, Right, Streams!CacheIsTheUnit, Streams!UnitOf, Streams!file
<1> QED BY <1>2, <1>3, ReadRunKeeps, ReadRunsKeeps, CompressedKeeps, AtEndKeeps DEF Streams!Next

LEMMA StreamInvHolds == Spec => []StreamInv
<1>1. Init => StreamInv
  BY StreamInit DEF StreamInv
<1>2. StreamInv /\ [Next \/ Stopped]_vars => StreamInv'
  BY StreamStep
<1> QED BY <1>1, <1>2, PTL DEF Spec

\* The unit in a decompressing reader's cache is what the volume has for the index it is
\* kept under, and the one last read from, though the index 0 also stands for none and a
\* load that fails leaves the old unit in place.
THEOREM StreamCache == Spec => []CacheIsTheUnit
<1>1. StreamInv => CacheIsTheUnit
  BY DEF StreamInv, StreamOK, CacheIsTheUnit
<1> QED BY <1>1, StreamInvHolds, PTL

\* Each of the three ways to read a stream implements StreamContract: whatever the runs,
\* holes, units and sizes of the calls, a parser gets the file's bytes in order, none twice
\* and none left out, and EOF only after the last of a file that is all there.
THEOREM StreamAnswers == Spec => StreamIsTheFile
<1>1. Init => (job = "stream" => Streams!Contract!Init)
  BY StreamInit
<1>2. StreamInv /\ [Next \/ Stopped]_vars =>
        [job = "stream" => Streams!Contract!Next \/ UNCHANGED <<made, out, done>>]_vars
  BY StreamStep
<1> QED BY <1>1, <1>2, StreamInvHolds, PTL DEF Spec, StreamIsTheFile
=============================================================================
