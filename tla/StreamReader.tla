------------------------------ MODULE StreamReader ------------------------------
(***************************************************************************)
(* The three ways the NTFS walker reads a non-resident stream: piecemeal    *)
(* through runStreamReader or, decompressing a unit at a time,              *)
(* compressedRunStreamReader, and at once through readRuns (named streams,  *)
(* attribute lists).  Below is an io.ReaderAt over an image that may be cut *)
(* off, cut short without saying so (VMDK), or fail.                        *)
(*                                                                          *)
(* A file has reader ("runs", "compressed" or "whole"), runs of [lcn,       *)
(* length], size, unit (in clusters) and disk (the volume's bytes).  The    *)
(* contract alone looks at the content and loss that come with it.          *)
(***************************************************************************)
EXTENDS Integers, Sequences, SequencesExt

CONSTANTS Files,         \* [file, content, loss]
          ClusterSize, Zero, None,
          Inflate(_),    \* LZNT1Decompress: [bytes, ok]
          ReadSizes,     \* bound: len(p) of a Read
          MaxFaults      \* bound: failures of ReadAt

VARIABLES made,         \* a member of Files
          pos,          \* position in the stream
          cachedUnit, cachedData,
          out,          \* what the calls of Read returned
          done,         \* EOF was returned, or the only call has failed
          faults

vars == <<made, pos, cachedUnit, cachedData, out, done, faults>>
file == made.file

Init == /\ made \in Files /\ pos = 0 /\ cachedUnit = 0 /\ cachedData = None
        /\ out = <<>> /\ done = "no" /\ faults = 0

-----------------------------------------------------------------------------
Smaller(a, b) == IF a < b THEN a ELSE b
Larger(a, b) == IF a > b THEN a ELSE b
Zeros(n) == [i \in 1..n |-> Zero]

\* What ReadAt returns for n bytes at an offset; fewer at the end of the image.
Got(f, off, n) == SubSeq(f.disk, off + 1, Smaller(off + n, Len(f.disk)))

StartVcn(f, k) == FoldLeft(LAMBDA sum, run : sum + run.length, 0, SubSeq(f.runs, 1, k - 1))
EndVcn(f, k) == StartVcn(f, k) + f.runs[k].length
Bytes(clusters) == clusters * ClusterSize
IsHole(f, k) == f.runs[k].lcn < 0

\* The run that has byte p of the stream, and where on the volume it has it.
RunsAt(f, p) == {k \in DOMAIN f.runs : Bytes(StartVcn(f, k)) <= p /\ p < Bytes(EndVcn(f, k))}
OffsetOf(f, k, p) == Bytes(f.runs[k].lcn) + p - Bytes(StartVcn(f, k))

Fault == faults < MaxFaults /\ faults' = faults + 1

Give(bytes) == out' = out \o bytes /\ pos' = pos + Len(bytes)
GiveNothing == UNCHANGED <<out, pos>>

-----------------------------------------------------------------------------
(* runStreamReader.Read: one run, one ReadAt. *)

\* The reply is cut to the run it starts in.
AcrossRuns(k, n) == n      \* FAULTY: the read goes on behind the run's end
InRun(k, n) == Smaller(n, Bytes(EndVcn(file, k)) - pos)

\* ReadAt's EOF is passed on; an image that is short without saying so goes on.
FromRun(k, n) ==
  LET want == InRun(k, n)
  IN IF IsHole(file, k) THEN Give(Zeros(want)) /\ UNCHANGED <<done, faults>>
     ELSE LET got == Got(file, OffsetOf(file, k, pos), want)
          IN \/ /\ Give(got) /\ UNCHANGED faults
                /\ done' \in IF Len(got) = want THEN {"no"}
                             ELSE IF got = <<>> THEN {"eof"} ELSE {"no", "eof"}
             \/ Fault /\ (\E m \in 0..Len(got) : Give(SubSeq(got, 1, m))) /\ UNCHANGED done

ReadRun ==
  /\ file.reader = "runs" /\ done = "no" /\ pos < file.size
  /\ \E n \in ReadSizes :
       \/ \E k \in RunsAt(file, pos) : FromRun(k, Smaller(n, file.size - pos))
       \/ RunsAt(file, pos) = {} /\ done' = "eof" /\ GiveNothing /\ UNCHANGED faults
  /\ UNCHANGED <<made, cachedUnit, cachedData>>

-----------------------------------------------------------------------------
(* compressedRunStreamReader. *)

UnitBytes(f) == Bytes(f.unit)
UnitOf(p) == p \div UnitBytes(file)

\* The clusters of run k that lie in unit u.
From(f, k, u) == Larger(StartVcn(f, k), u * f.unit)
To(f, k, u) == Smaller(EndVcn(f, k), (u + 1) * f.unit)
In(f, u) == SelectSeq([k \in DOMAIN f.runs |-> k], LAMBDA k : From(f, k, u) < To(f, k, u))

Stored(f, u) ==
  FlattenSeq([i \in DOMAIN In(f, u) |->
    LET k == In(f, u)[i]
    IN IF IsHole(f, k) THEN <<>>
       ELSE Got(f, Bytes(f.runs[k].lcn + From(f, k, u) - StartVcn(f, k)), Bytes(To(f, k, u) - From(f, k, u)))])
HasSparse(f, u) == \E i \in DOMAIN In(f, u) : IsHole(f, In(f, u)[i])

\* loadUnit: nothing stored is zeros, without a hole the bytes are as they are, else they
\* are compressed.
Loaded(f, u) ==
  IF Stored(f, u) = <<>> THEN [bytes |-> Zeros(UnitBytes(f)), ok |-> TRUE]
  ELSE IF HasSparse(f, u) THEN Inflate(Stored(f, u)) ELSE [bytes |-> Stored(f, u), ok |-> TRUE]

AnyCached == cachedData # None      \* FAULTY: whichever unit it is
IsCached == cachedUnit = UnitOf(pos) /\ cachedData # None

\* What a unit still has from the position; a unit that is too short ends the stream.
RestOfUnit(data, n) ==      \* FAULTY: the size is forgotten
  LET at == pos - UnitOf(pos) * UnitBytes(file) IN SubSeq(data, at + 1, at + Smaller(n, Len(data) - at))
Rest(data, n) ==
  LET at == pos - UnitOf(pos) * UnitBytes(file)
  IN SubSeq(data, at + 1, at + Smaller(Smaller(n, file.size - pos), Len(data) - at))

GiveOn(data, n) == Give(Rest(data, n)) /\ UNCHANGED done      \* FAULTY: it does not end
GiveUnit(data, n) ==
  IF Rest(data, n) = <<>> THEN pos' = file.size /\ done' = "eof" /\ UNCHANGED out
  ELSE Give(Rest(data, n)) /\ UNCHANGED done

FromCache ==
  /\ file.reader = "compressed" /\ done = "no" /\ pos < file.size /\ IsCached
  /\ \E n \in ReadSizes : GiveUnit(cachedData, n)
  /\ UNCHANGED <<made, cachedUnit, cachedData, faults>>

\* What a damaged unit yields before the damage is kept; its error is not.
Keep(u, data) == cachedUnit' = u /\ cachedData' = data

LoadUnit ==
  /\ file.reader = "compressed" /\ done = "no" /\ pos < file.size /\ ~IsCached
  /\ LET u == UnitOf(pos)
         l == Loaded(file, u)
     IN /\ l.ok \/ l.bytes # <<>>
        /\ Keep(u, l.bytes)
        /\ \E n \in ReadSizes : GiveUnit(l.bytes, n)
  /\ UNCHANGED <<made, faults>>

LoadFails ==
  /\ file.reader = "compressed" /\ done = "no" /\ pos < file.size /\ ~IsCached
  /\ Fault /\ GiveNothing
  /\ UNCHANGED <<made, cachedUnit, cachedData, done>>

\* The unit can never be inflated: a reader that does not stop here gets the same again.
UnitIsLost ==
  /\ file.reader = "compressed" /\ done = "no" /\ pos < file.size /\ ~IsCached
  /\ LET l == Loaded(file, UnitOf(pos)) IN ~l.ok /\ l.bytes = <<>>
  /\ done' = "err" /\ GiveNothing
  /\ UNCHANGED <<made, cachedUnit, cachedData, faults>>

-----------------------------------------------------------------------------
\* Either reader, once the position is at the size.
AtEnd ==
  /\ file.reader # "whole" /\ done = "no" /\ pos >= file.size
  /\ done' = "eof" /\ UNCHANGED <<made, pos, cachedUnit, cachedData, out, faults>>

\* readRuns: what a run or the image does not have stays zero.
Assembled(f) ==
  [i \in 1..f.size |->
     LET K == RunsAt(f, i - 1)
         k == CHOOSE x \in K : TRUE
         at == OffsetOf(f, k, i - 1)
     IN IF K = {} \/ IsHole(f, k) \/ at >= Len(f.disk) THEN Zero ELSE f.disk[at + 1]]

ReadRuns ==
  /\ file.reader = "whole" /\ done = "no"
  /\ \/ out' = Assembled(file) /\ done' = "eof" /\ UNCHANGED faults
     \/ /\ Fault /\ done' = "err"
        /\ \E k \in DOMAIN file.runs :
             /\ ~IsHole(file, k) /\ Bytes(StartVcn(file, k)) < file.size
             /\ out' = SubSeq(Assembled(file), 1, Bytes(StartVcn(file, k)))
  /\ UNCHANGED <<made, pos, cachedUnit, cachedData>>

Next == ReadRun \/ FromCache \/ LoadUnit \/ LoadFails \/ UnitIsLost \/ AtEnd \/ ReadRuns
Spec == Init /\ [][Next]_vars
-----------------------------------------------------------------------------
(* What it is for a file to hold its content. *)

\* Of a stream that is not compressed: a run, or a hole, has each byte, unless the image
\* ends before it.
RunsMadeFrom(m) ==
  \A p \in 0..(Len(m.content) - 1) :
    /\ m.loss = "none" => RunsAt(m.file, p) # {}
    /\ \A k \in RunsAt(m.file, p) :
         LET at == OffsetOf(m.file, k, p)
         IN IF IsHole(m.file, k) THEN m.content[p + 1] = Zero
            ELSE IF at < Len(m.file.disk) THEN m.content[p + 1] = m.file.disk[at + 1]
            ELSE m.loss # "none"

\* Of a compressed one: what its units inflate to, as far as they are whole.
UnitsMadeFrom(m) ==
  \A u \in 0..Len(m.content) :
    LET data == Loaded(m.file, u).bytes
        first == u * UnitBytes(m.file)
    IN /\ data \in Seq(Range(data)) /\ Len(data) <= UnitBytes(m.file)
       /\ m.loss # "any" =>
            \A i \in DOMAIN data : first + i <= Len(m.content) => m.content[first + i] = data[i]
       /\ m.loss = "none" => first + Len(data) >= Smaller(first + UnitBytes(m.file), Len(m.content))

MadeFrom(m) ==
  /\ m.content \in Seq(Range(m.content)) /\ m.file.disk \in Seq(Range(m.file.disk))
  /\ m.file.size = Len(m.content) /\ m.loss \in {"none", "end", "any"}
  /\ \A k \in DOMAIN m.file.runs : /\ m.file.runs[k].lcn \in Int /\ m.file.runs[k].length \in Nat
                                   /\ StartVcn(m.file, k) \in Nat
  /\ m.file.reader \in {"runs", "compressed", "whole"}
  /\ m.file.reader # "compressed" /\ m.loss # "any" => RunsMadeFrom(m)
  /\ m.file.reader = "compressed" => m.file.unit \in Nat \ {0} /\ UnitsMadeFrom(m)
  /\ m.file.reader = "whole" => m.loss # "end"

StreamAssumption ==
  /\ ClusterSize \in Nat \ {0} /\ ReadSizes \subseteq Nat \ {0} /\ MaxFaults \in Nat
  /\ \A m \in Files : MadeFrom(m)
-----------------------------------------------------------------------------
\* Every variable has its type; no more than the file is handed out.
TypeOK ==
  /\ pos \in 0..file.size /\ cachedUnit \in Nat
  /\ done \in {"no", "eof", "err"} /\ faults \in 0..MaxFaults
  /\ Len(out) <= file.size

\* The unit in the cache is what the volume has for its index, and the one just read
\* from, though 0 stands for none and a failed load leaves the old one in place.
CacheIsTheUnit ==
  cachedData # None => /\ cachedData = Loaded(file, cachedUnit).bytes
                       /\ cachedUnit <= UnitOf(pos) /\ (out # <<>> => cachedUnit >= UnitOf(Len(out) - 1))

Contract == INSTANCE StreamContract WITH content <- made.content, loss <- made.loss

\* Whatever the runs, holes, units and sizes of the calls, and though calls in between
\* fail, a parser gets the file's bytes in order, none twice and none left out, and EOF
\* only after the last of a file that is all there.
StreamIsTheFile == Contract!Spec
=============================================================================
