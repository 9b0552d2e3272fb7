-------------------------------- MODULE MftWalk --------------------------------
(***************************************************************************)
(* Volume.WalkTargetFiles (internal/parsers/ntfs): the first pass indexes   *)
(* every MFT record and collects where the wanted files' content lies, the  *)
(* second rebuilds each file's path and hands its $DATA to the callback.    *)
(*                                                                          *)
(* A record has state ("ok", "badfixup" or "unreadable"), base (0, or the   *)
(* record it extends), used, std (the compressed flag of                    *)
(* $STANDARD_INFORMATION), names ($FILE_NAME: name, parent, rank), data     *)
(* (unnamed $DATA: resident, vcn, runs, real, init, unit) and list          *)
(* ($ATTRIBUTE_LIST: type, ref), each in the order of the record.           *)
(***************************************************************************)
EXTENDS Integers, Sequences, SequencesExt

CONSTANTS Mfts,          \* the MFTs explored: sequences of records, record n at n + 1
          RootRef,       \* rootRef
          MaxDepth,      \* directories that buildPath follows (64)
          Wanted,        \* names that match a target pattern
          DollarI,       \* names that begin with "$I"
          RecycleNames,  \* names that contain "recycle"
          DefaultUnit,   \* clusters of a compression unit when only $STANDARD_INFORMATION tells (16)
          ClusterSize

WalkAssumption ==
  /\ {RootRef, MaxDepth, DefaultUnit, ClusterSize} \subseteq Nat \ {0}
  /\ \A v \in Mfts : v \in Seq(Range(v))

VARIABLES mft,       \* the volume's MFT
          recNo,     \* the record the first pass is at
          index,     \* v.index
          last,      \* lastCompUnit, 0 when lastCompressed is false
          pendings,  \* wanted files that the second pass has yet to read
          delivered  \* the calls of fn

vars == <<mft, recNo, index, last, pendings, delivered>>

\* Record n of a volume's MFT v.
Rec(v, n) == v[n + 1]
IsRecord(v, n) == n + 1 \in DOMAIN v
NoName == [name |-> "", parent |-> 0]

Init == /\ mft \in Mfts /\ recNo = 0 /\ index = <<>> /\ last = 0
        /\ pendings = <<>> /\ delivered = <<>>

-----------------------------------------------------------------------------
(* What a record tells. *)

\* primaryFileName: of the names the first of the best rank.
PrimaryName(names) ==
  LET k == CHOOSE k \in DOMAIN names :
             \A j \in DOMAIN names : names[k].rank < names[j].rank \/
                                     (names[k].rank = names[j].rank /\ k <= j)
  IN [name |-> names[k].name, parent |-> names[k].parent]

\* The records an attribute list leads to; their fixup is not insisted on.
Extensions(v, n, type) ==
  SelectSeq(Rec(v, n).list, LAMBDA e : /\ e.type = type /\ e.ref # n /\ IsRecord(v, e.ref)
                                       /\ Rec(v, e.ref).state # "unreadable")

NameInExtensions(v, n) ==
  LET named == SelectSeq(Extensions(v, n, "name"), LAMBDA e : Rec(v, e.ref).names # <<>>)
  IN IF named = <<>> THEN NoName ELSE PrimaryName(Rec(v, named[1].ref).names)

FileName(v, n) ==
  IF Rec(v, n).names # <<>> THEN PrimaryName(Rec(v, n).names) ELSE NameInExtensions(v, n)

ByVcn(s) == SortSeq(s, LAMBDA a, b : a.vcn < b.vcn)
RunsOf(segments) == FlattenSeq([k \in DOMAIN segments |-> segments[k].runs])
Allocated(runs) ==
  FoldLeft(LAMBDA sum, run : IF run.lcn >= 0 THEN sum + run.length * ClusterSize ELSE sum, 0, runs)

\* collectExtDataRuns: the non-resident segments of the extension records in VCN order;
\* the size is the first segment's, or that of the allocated clusters.
Segments(v, n) ==
  LET found == Extensions(v, n, "data")
      first == SetToSortSeq({k \in DOMAIN found : \A j \in 1..(k - 1) : found[j].ref # found[k].ref}, <)
  IN SelectSeq(FlattenSeq([k \in DOMAIN first |-> Rec(v, found[first[k]].ref).data]),
               LAMBDA a : ~a.resident)

CollectExt(v, n) ==
  LET s == ByVcn(Segments(v, n))
      sized == SelectSeq(s, LAMBDA a : a.vcn = 0 /\ a.init > 0)
  IN [runs |-> RunsOf(s),
      size |-> IF sized # <<>> THEN sized[Len(sized)].init ELSE Allocated(RunsOf(s))]

-----------------------------------------------------------------------------
(* The first pass. *)

IsBase(v, n) == Rec(v, n).state = "ok" /\ Rec(v, n).base = 0
UsedOnly(v, n) == Rec(v, n).used      \* FAULTY: any name will do
HasName(v, n) == FileName(v, n).name # ""
Matches(v, n) == Rec(v, n).used /\ HasName(v, n) /\ FileName(v, n).name \in Wanted

Skip ==
  /\ IsRecord(mft, recNo) /\ ~IsBase(mft, recNo) /\ recNo' = recNo + 1
  /\ UNCHANGED <<mft, index, last, pendings, delivered>>

\* Deleted records are indexed too: a live file's parent may be one.
Enter(n) ==
  index' = IF HasName(mft, n)
           THEN [m \in DOMAIN index \cup {n} |-> IF m = n THEN FileName(mft, n) ELSE index[m]]
           ELSE index

IndexOnly ==
  /\ IsRecord(mft, recNo) /\ IsBase(mft, recNo) /\ ~Matches(mft, recNo) /\ recNo' = recNo + 1
  /\ Enter(recNo) /\ UNCHANGED <<mft, last, pendings, delivered>>

\* extractDataRef takes the record's first unnamed $DATA.  It leaves the compression
\* it found for the walk to read; a resident one leaves what was there.
KeepUnit(v, n) ==      \* FAULTY: the reset before the attribute list is forgotten
  IF Rec(v, n).data # <<>> THEN IF Rec(v, n).data[1].resident THEN last ELSE Rec(v, n).data[1].unit
  ELSE IF Rec(v, n).list # <<>> /\ Rec(v, n).std THEN DefaultUnit ELSE last

UnitAfter(v, n) ==
  IF Rec(v, n).data # <<>> THEN IF Rec(v, n).data[1].resident THEN last ELSE Rec(v, n).data[1].unit
  ELSE IF Rec(v, n).list # <<>> /\ Rec(v, n).std THEN DefaultUnit ELSE 0

Pending(n) ==
  LET r == Rec(mft, n)
      place == IF r.data # <<>> THEN [runs |-> r.data[1].runs, size |-> r.data[1].real]
               ELSE IF r.list # <<>> THEN CollectExt(mft, n) ELSE [runs |-> <<>>, size |-> 0]
  IN [rec |-> n, name |-> FileName(mft, n).name, resident |-> r.data # <<>> /\ r.data[1].resident,
      runs |-> place.runs, size |-> place.size, unit |-> UnitAfter(mft, n)]

Collect ==
  /\ IsRecord(mft, recNo) /\ IsBase(mft, recNo) /\ Matches(mft, recNo) /\ recNo' = recNo + 1
  /\ Enter(recNo) /\ last' = UnitAfter(mft, recNo)
  /\ pendings' = Append(pendings, Pending(recNo))
  /\ UNCHANGED <<mft, delivered>>

-----------------------------------------------------------------------------
(* The second pass. *)

\* The record n, the one that next names after it, and so on; -1 where there is none.
Chain(next, n) ==
  LET c[i \in 0..MaxDepth] ==
        IF i = 0 THEN n ELSE IF c[i - 1] \in DOMAIN next THEN next[c[i - 1]] ELSE -1
  IN c

\* buildPath climbs in the index from a record to its parent, up to the root, an unknown
\* record or the limit; the names it meets are put before those it has.
Top(idx, n) == idx[n].parent \in {RootRef, n, 0}
ParentIn(idx) == [m \in {k \in DOMAIN idx : ~Top(idx, k)} |-> idx[m].parent]
Climb(idx, n) == Chain(ParentIn(idx), n)
Height(idx, n) ==
  LET c == Climb(idx, n)
  IN CHOOSE h \in 0..MaxDepth : /\ \A i \in 0..(h - 1) : c[i] \in DOMAIN idx
                                /\ h < MaxDepth => c[h] \notin DOMAIN idx
UpsideDown(idx, n) ==      \* FAULTY: the parents are put after, not before
  LET c == Climb(idx, n) IN [i \in 1..Height(idx, n) |-> idx[c[i - 1]].name]
BuildPath(idx, n) ==
  LET c == Climb(idx, n)
      h == Height(idx, n)
  IN [i \in 1..h |-> idx[c[h - i]].name]

\* The readers that WalkTargetFiles chooses from.
Reader(p) == IF p.resident THEN "resident"
             ELSE IF p.runs = <<>> THEN "empty"
             ELSE IF p.unit > 0 THEN "compressed" ELSE "runs"

Call(p) == [rec |-> p.rec, path |-> BuildPath(index, p.rec), reader |-> Reader(p),
            runs |-> p.runs, size |-> p.size, unit |-> IF Reader(p) = "compressed" THEN p.unit ELSE 0]

\* "$I" is a recycle-bin file only below $Recycle.Bin.
AnyDollarI(p) == p.name \in DollarI      \* FAULTY: its path is not looked at
Unrelated(p) == p.name \in DollarI /\ Range(BuildPath(index, p.rec)) \cap RecycleNames = {}

LeaveOut ==
  /\ ~IsRecord(mft, recNo) /\ pendings # <<>> /\ Unrelated(Head(pendings))
  /\ pendings' = Tail(pendings) /\ UNCHANGED <<mft, recNo, index, last, delivered>>

CallFn ==
  /\ ~IsRecord(mft, recNo) /\ pendings # <<>> /\ ~Unrelated(Head(pendings))
  /\ delivered' = Append(delivered, Call(Head(pendings)))
  /\ pendings' = Tail(pendings) /\ UNCHANGED <<mft, recNo, index, last>>

Next == Skip \/ IndexOnly \/ Collect \/ LeaveOut \/ CallFn
Spec == Init /\ [][Next]_vars
-----------------------------------------------------------------------------
(* Properties. *)

Calls == [rec : Nat, path : Seq(STRING), reader : {"resident", "empty", "compressed", "runs"},
          size : Nat, unit : Nat, runs : Seq([lcn : Int, length : Nat])]

\* Every variable has its type.
TypeOK ==
  /\ recNo \in 0..Len(mft) /\ last \in Nat
  /\ DOMAIN index \subseteq 0..(Len(mft) - 1)
  /\ \A p \in Range(pendings) : p.rec < recNo /\ p.name \in Wanted /\ p.size \in Nat
  /\ \A c \in Range(delivered) : c \in Calls

\* The volume as NTFS means it.  A file's records are its base record and those that
\* extend it; its stream is in the segments of them all.
Members(v, n) == {n} \cup {m \in 0..(Len(v) - 1) : Rec(v, m).base = n /\ n # 0}
Lost(v, n) == \E m \in Members(v, n) : Rec(v, m).state = "unreadable"
TrueSegments(v, n) ==
  ByVcn(FlattenSeq([k \in 1..Len(v) |-> IF k - 1 \in Members(v, n) THEN v[k].data ELSE <<>>]))
Live(v, n) == IsRecord(v, n) /\ IsBase(v, n) /\ Rec(v, n).used

\* The first segments are in the base record and others in extension records.
Split(v, n) == Rec(v, n).data # <<>> /\ Len(TrueSegments(v, n)) > 1
Initialized(v, n) == \A a \in Range(TrueSegments(v, n)) : a.vcn = 0 => a.init = a.real

HasTrueStream(c) ==
  LET s == TrueSegments(mft, c.rec)
  IN IF s = <<>> THEN c.reader = "empty"
     ELSE IF s[1].resident THEN c.reader = "resident" /\ c.size = s[1].real
     ELSE c.runs = RunsOf(s) /\ c.size = s[1].real /\ c.unit = s[1].unit

\* A file gets its own stream: all its runs in VCN order, its size and its own
\* compression, whatever the record before it left behind, if none of its records is
\* lost, its segments are not split between the base record and others, and the
\* stream is initialized to its end.
StreamsAreTrue ==
  \A c \in Range(delivered) :
    ~Lost(mft, c.rec) /\ ~Split(mft, c.rec) /\ Initialized(mft, c.rec) => HasTrueStream(c)

\* "an io.Reader over the file's primary $DATA stream": the same of every such file,
\* wherever the segments of its stream are.
PrimaryStreamsAreWhole ==
  \A c \in Range(delivered) : ~Lost(mft, c.rec) /\ Initialized(mft, c.rec) => HasTrueStream(c)

\* The directories from a file up to the root, for a file all of whose parents live.
\* No directory is its own parent but the root, and none is $MFT, which is record 0.
Parent(v, n) == FileName(v, n).parent
DirectoryOf(v) ==
  [m \in {k \in 0..(Len(v) - 1) : k # RootRef /\ Live(v, k) /\ Parent(v, k) \notin {k, 0}} |-> Parent(v, m)]
Ancestors(v, n) == Range(Chain(DirectoryOf(v), n)) \ {-1}
Rooted(v, n) == /\ n # RootRef /\ RootRef \in Ancestors(v, n)
                /\ \A m \in Ancestors(v, n) : Live(v, m) /\ HasName(v, m)
IsPathOf(v, p, n) ==
  /\ p # <<>>
  /\ \E f \in [1..Len(p) -> Ancestors(v, n) \ {RootRef}] :
       /\ f[Len(p)] = n /\ Parent(v, f[1]) = RootRef
       /\ \A i \in 1..Len(p) : FileName(v, f[i]).name = p[i]
       /\ \A i \in 2..Len(p) : Parent(v, f[i]) = f[i - 1]

\* A file whose directories all live gets its path from the root, though its parents'
\* records may come after it, and deleted ones next to them.
PathsAreTrue == \A c \in Range(delivered) : Rooted(mft, c.rec) => IsPathOf(mft, c.path, c.rec)

Over == ~IsRecord(mft, recNo) /\ pendings = <<>>
Due(v, n) ==
  /\ Live(v, n) /\ HasName(v, n) /\ FileName(v, n).name \in Wanted
  /\ FileName(v, n).name \in DollarI /\ Rooted(v, n) =>
       \E m \in Ancestors(v, n) \ {RootRef} : FileName(v, m).name \in RecycleNames

\* When the walk is over fn was called for every wanted file that lives, once and in the
\* order of the MFT; a file whose directories are gone may be left out when only its
\* path would tell that it is a recycle-bin file.
WalkIsComplete ==
  Over =>
    LET called == [i \in DOMAIN delivered |-> delivered[i].rec]
    IN /\ \A i, j \in DOMAIN called : i < j => called[i] < called[j]
       /\ \A n \in Range(called) : Due(mft, n)
       /\ \A n \in 0..(Len(mft) - 1) :
            Due(mft, n) /\ (FileName(mft, n).name \in DollarI => Rooted(mft, n)) => n \in Range(called)
=============================================================================
