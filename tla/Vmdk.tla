---------------------------------- MODULE Vmdk ----------------------------------
(***************************************************************************)
(* The VMDK reader (internal/parsers/vmdk): Open reads the grain directory  *)
(* of a sparse image or scans a stream-optimized one for its grains; ReadAt *)
(* goes grain by grain, through a cache of grain tables or of grains.       *)
(***************************************************************************)
EXTENDS Integers, Sequences, FiniteSets

CONSTANTS GrainSize,   \* bytes of a grain
          NumGTEs,     \* entries of a grain table
          GtCacheMax,  \* gtCacheMax
          GrainMax,    \* grains cached before the cache is dropped (256)
          Requests,    \* bound: the calls of ReadAt, [off, len]
          Zero, None

VARIABLES image,    \* the file: see Sparse and Stream
          phase,    \* "opening", then "ready" or "refused"; "panicked": the process died
          scan,     \* of a stream: blocks scanned so far
          index,    \* streamIndex: grain number |-> block
          tables,   \* gtCache: the cached tables' directory entries
          grains,   \* grainCache: grain number |-> its bytes
          ask, ans, out

caches == <<tables, grains>>
vars == <<image, phase, scan, index, caches, ask, ans, out>>

\* A sparse image: size, gd (directory: 0 or a table's name), gt (a table's name |-> its
\* entries, 0 or 1 or a sector), at (a sector |-> the grain's bytes the file has).
\* A stream: size, blocks, each a grain with its number and inflated bytes (None
\* when they cannot be inflated) or a marker.
IsStream == image.kind = "stream"

InitReader ==
  /\ phase = "opening" /\ scan = 0 /\ index = <<>>
  /\ tables = {} /\ grains = <<>> /\ out = <<>>

-----------------------------------------------------------------------------
(* Open. *)

OpenSparse ==
  /\ phase = "opening" /\ ~IsStream /\ phase' \in {"ready", "refused"}   \* unreadable directory
  /\ UNCHANGED <<image, scan, index, caches, ask, ans, out>>

Block == image.blocks[scan + 1]
Scanned == scan < Len(image.blocks) => Block.type \in {"eos", "footer"}

\* One turn of buildStreamIndex: a grain is recorded, metadata is stepped over.
ScanBlock ==
  /\ phase = "opening" /\ IsStream /\ ~Scanned
  /\ scan' = scan + 1
  /\ index' = IF Block.type = "grain"
              THEN [g \in DOMAIN index \cup {Block.grain} |->
                      IF g = Block.grain THEN scan + 1 ELSE index[g]]
              ELSE index
  /\ UNCHANGED <<image, phase, caches, ask, ans, out>>

OpenStream ==
  /\ phase = "opening" /\ IsStream /\ Scanned /\ phase' = "ready"
  /\ UNCHANGED <<image, scan, index, caches, ask, ans, out>>

-----------------------------------------------------------------------------
(* ReadAt. *)

Smaller(a, b) == IF a < b THEN a ELSE b
Zeros(n) == [i \in 1..n |-> Zero]
Reply(bytes, err) == ans' = [bytes |-> bytes, err |-> err]

ReadAt(r) ==
  /\ phase = "ready" /\ ask = None /\ ask' = r /\ out' = <<>>
  /\ UNCHANGED <<image, phase, scan, index, caches, ans>>

\* The request is clamped to the disk, and the caller is not told.
Outside ==
  /\ ask # None /\ ans = None /\ ask.off >= image.size /\ Reply(<<>>, "eof")
  /\ UNCHANGED <<image, phase, scan, index, caches, ask, out>>

End == Smaller(ask.off + ask.len, image.size)
Cur == ask.off + Len(out)
Grain == Cur \div GrainSize
InGrain == Cur % GrainSize
Want == Smaller(GrainSize - InGrain, End - Cur)
Reading == phase = "ready" /\ ask # None /\ ans = None /\ ask.off < image.size
Turn == Reading /\ Cur < End

\* The grain of a sparse image: its table, as far as the directory goes, and its sector.
Gd == Grain \div NumGTEs
HasTable == Gd + 1 \in DOMAIN image.gd /\ image.gd[Gd + 1] # 0
Table == image.gd[Gd + 1]
EntryOf(t) == image.gt[t][(Grain % NumGTEs) + 1]
HasGrain == EntryOf(Table) > 1

Room == IF Cardinality(tables) > GtCacheMax THEN {} ELSE tables
KeepTable == tables' = Room \cup {Table}
LoadTable == IF Table \in tables THEN UNCHANGED tables ELSE KeepTable

SparseHole ==
  /\ Turn /\ ~IsStream
  /\ \/ ~HasTable /\ UNCHANGED tables
     \/ HasTable /\ ~HasGrain /\ LoadTable
  /\ out' = out \o Zeros(Want)
  /\ UNCHANGED <<image, phase, scan, index, grains, ask, ans>>

OnDisk == image.at[EntryOf(Table)]

SparseGrain ==
  /\ Turn /\ ~IsStream /\ HasTable /\ HasGrain /\ LoadTable
  /\ Len(OnDisk) >= InGrain + Want
  /\ out' = out \o SubSeq(OnDisk, InGrain + 1, InGrain + Want)
  /\ UNCHANGED <<image, phase, scan, index, grains, ask, ans>>

\* The file ends inside the grain.
SparseCut ==
  /\ Turn /\ ~IsStream /\ HasTable /\ HasGrain /\ LoadTable
  /\ Len(OnDisk) < InGrain + Want
  /\ Reply(out \o SubSeq(OnDisk, InGrain + 1, Len(OnDisk)), "eof")
  /\ UNCHANGED <<image, phase, scan, index, grains, ask, out>>

\* The table or the grain cannot be read.
SparseFails ==
  /\ Turn /\ ~IsStream /\ HasTable
  /\ \/ Table \notin tables /\ tables' = Room
     \/ HasGrain /\ LoadTable
  /\ Reply(out, "err")
  /\ UNCHANGED <<image, phase, scan, index, grains, ask, out>>

\* The grain of a stream.
InIndex == Grain \in DOMAIN index
Inflated == image.blocks[index[Grain]].bytes
Cached == Grain \in DOMAIN grains
KeepGrain ==
  LET kept == IF Cardinality(DOMAIN grains) > GrainMax THEN {} ELSE DOMAIN grains
  IN grains' = [g \in kept \cup {Grain} |-> IF g = Grain THEN Inflated ELSE grains[g]]

\* A grain that inflates to less than a grain is filled up with zeros, but sliced behind
\* its end when it inflates to less than lies before the offset.
Filled(bytes) ==
  LET n == Smaller(InGrain + Want, Len(bytes))
  IN SubSeq(bytes, InGrain + 1, n) \o Zeros(Want - (n - InGrain))

DeliverGrain(bytes) ==
  \/ InGrain <= Len(bytes) /\ out' = out \o Filled(bytes) /\ UNCHANGED phase
  \/ InGrain > Len(bytes) /\ phase' = "panicked" /\ UNCHANGED out

StreamHole ==
  /\ Turn /\ IsStream /\ ~Cached /\ ~InIndex /\ out' = out \o Zeros(Want)
  /\ UNCHANGED <<image, phase, scan, index, caches, ask, ans>>

StreamHit ==
  /\ Turn /\ IsStream /\ Cached /\ DeliverGrain(grains[Grain])
  /\ UNCHANGED <<image, scan, index, caches, ask, ans>>

StreamGrain ==
  /\ Turn /\ IsStream /\ ~Cached /\ InIndex /\ Inflated # None
  /\ KeepGrain /\ DeliverGrain(Inflated)
  /\ UNCHANGED <<image, scan, index, tables, ask, ans>>

\* It cannot be read or inflated; nothing is cached.
StreamFails ==
  /\ Turn /\ IsStream /\ ~Cached /\ InIndex /\ Reply(out, "err")
  /\ UNCHANGED <<image, phase, scan, index, caches, ask, out>>

Return ==
  /\ Reading /\ Cur >= End /\ Reply(out, "nil")
  /\ UNCHANGED <<image, phase, scan, index, caches, ask, out>>

Taken == /\ ans # None /\ ask' = None /\ ans' = None /\ out' = <<>>
         /\ UNCHANGED <<image, phase, scan, index, caches>>

Next == \/ OpenSparse \/ ScanBlock \/ OpenStream
        \/ \E r \in Requests : ReadAt(r)
        \/ Outside \/ SparseHole \/ SparseGrain \/ SparseCut \/ SparseFails
        \/ StreamHole \/ StreamHit \/ StreamGrain \/ StreamFails \/ Return \/ Taken

-----------------------------------------------------------------------------
\* The caches hold what the file holds and stay bounded, one past their limits.
CachesAreTrue ==
  /\ \A g \in DOMAIN grains : g \in DOMAIN index /\ grains[g] = image.blocks[index[g]].bytes
  /\ Cardinality(tables) <= GtCacheMax + 1 /\ Cardinality(DOMAIN grains) <= GrainMax + 1
=============================================================================
