------------------------------- MODULE DiskImage -------------------------------
(***************************************************************************)
(* openImage (internal/parsers/disk): the extension decides which reader    *)
(* stands behind the io.ReaderAt that the NTFS walker gets.  Each file comes *)
(* with the disk it was made from, which only the contract looks at.        *)
(***************************************************************************)
EXTENDS Integers, Sequences

CONSTANTS EwfFiles,    \* .E01 files: [file, disk, cut]
          VmdkFiles,   \* .vmdk files: [file, disk, cut]
          EwfRequests, VmdkRequests,    \* bound: the calls of ReadAt
          ChunkSize, CacheSize, GrainSize, NumGTEs, GtCacheMax, GrainMax, Zero, None

VARIABLES made,                                  \* the image and what it was made from
          image, phase, ask, ans, out,           \* of the reader that is open
          seg, total, chunkMap, keys, data, next,    \* Ewf
          scan, index, tables, grains                \* Vmdk

ewfVars == <<seg, total, chunkMap, keys, data, next>>
vmdkVars == <<scan, index, tables, grains>>
vars == <<made, image, phase, ask, ans, out, ewfVars, vmdkVars>>

Ewf == INSTANCE Ewf WITH Requests <- EwfRequests
Vmdk == INSTANCE Vmdk WITH Requests <- VmdkRequests

-----------------------------------------------------------------------------
(* What it is for a file to be made from a disk. *)

Bytes(d) == {d[i] : i \in DOMAIN d}
Offsets(m) == 0 .. Len(m.disk) - 1

\* Of an EnCase image: every table that Open reads has the disk's next chunks, and a byte
\* that neither a chunk nor the truncated file has is cut.
Chunks(m, s) ==
  LET c[i \in 0..Len(m.file.segments)] ==
        IF i = 0 THEN <<>> ELSE c[i - 1] \o Ewf!ChunksUpTo(m.file.segments[i])
  IN c[s]
ChunkOf(m, c, k) ==
  /\ c.bytes \in Seq(Bytes(c.bytes)) /\ Len(c.bytes) <= ChunkSize /\ c.have \in 0..Len(c.bytes) /\ c.compressed \in BOOLEAN
  /\ \A i \in 0..(ChunkSize - 1) :
       k * ChunkSize + i \in Offsets(m) =>
         IF i < Len(c.bytes) /\ (c.compressed \/ i < c.have)
         THEN c.bytes[i + 1] = m.disk[k * ChunkSize + i + 1] ELSE k * ChunkSize + i \in m.cut
EwfMadeFrom(m) ==
  /\ m.file.segments \in Seq(Bytes(m.file.segments))
  /\ \A s \in DOMAIN m.file.segments :
       /\ m.file.segments[s] \in Seq(Bytes(m.file.segments[s]))
       /\ \A i \in DOMAIN m.file.segments[s] :
            LET sec == m.file.segments[s][i]
            IN /\ sec.size \in Nat /\ (sec.type \in {"volume", "disk"} => sec.size \in {0, Len(m.disk)})
               /\ sec.type = "table" => sec.chunks \in Seq(Bytes(sec.chunks))
  /\ \A s \in 0..Len(m.file.segments) :
       \A k \in DOMAIN Chunks(m, s) : ChunkOf(m, Chunks(m, s)[k], k - 1)

\* Of a sparse VMDK: the grains that the directory reaches have the disk's bytes, as far as
\* the file goes, and the rest of the disk is zero.
SparseMadeFrom(m) ==
  \A p \in Offsets(m) :
    LET f == m.file
        g == p \div GrainSize
        gd == (g \div NumGTEs) + 1
        entry == f.gt[f.gd[gd]][(g % NumGTEs) + 1]
    IN IF gd \in DOMAIN f.gd /\ f.gd[gd] # 0 /\ entry > 1
       THEN /\ f.at[entry] \in Seq(Bytes(f.at[entry]))
            /\ IF p % GrainSize < Len(f.at[entry])
               THEN m.disk[p + 1] = f.at[entry][(p % GrainSize) + 1] ELSE p \in m.cut
       ELSE m.disk[p + 1] = Zero

\* Of a stream-optimized one: of the blocks before the end the last one of a grain counts,
\* filled up with zeros; a damaged one has no bytes (None).
GrainBlocks(m, g) ==
  {k \in DOMAIN m.file.blocks : /\ m.file.blocks[k].type = "grain" /\ m.file.blocks[k].grain = g
                                /\ \A j \in 1..k : m.file.blocks[j].type \notin {"eos", "footer"}}
StreamMadeFrom(m) ==
  /\ m.file.blocks \in Seq(Bytes(m.file.blocks))
  /\ \A k \in DOMAIN m.file.blocks :
       m.file.blocks[k].bytes = None \/ m.file.blocks[k].bytes \in Seq(Bytes(m.file.blocks[k].bytes))
  /\ \A p \in Offsets(m) :
       LET B == GrainBlocks(m, p \div GrainSize)
       IN /\ B = {} => m.disk[p + 1] = Zero
          /\ \A k \in B : LET b == m.file.blocks[k].bytes
                         IN (\A j \in B : j <= k) /\ b # None =>
                              m.disk[p + 1] = IF p % GrainSize < Len(b) THEN b[(p % GrainSize) + 1] ELSE Zero
VmdkMadeFrom(m) == /\ m.file.size = Len(m.disk)
                   /\ IF m.file.kind = "stream" THEN StreamMadeFrom(m) ELSE SparseMadeFrom(m)

ImageAssumption ==
  /\ {ChunkSize, CacheSize, GrainSize, NumGTEs} \subseteq Nat \ {0}
  /\ {GtCacheMax, GrainMax} \subseteq Nat
  /\ EwfRequests \subseteq [off : Int, len : Nat] /\ VmdkRequests \subseteq [off : Nat, len : Nat]
  /\ \A m \in EwfFiles \cup VmdkFiles : m.disk \in Seq(Bytes(m.disk))
  /\ (\A m \in EwfFiles : EwfMadeFrom(m)) /\ (\A m \in VmdkFiles : VmdkMadeFrom(m))

-----------------------------------------------------------------------------
NoEwf == seg = 0 /\ total = 0 /\ chunkMap = <<>> /\ keys = <<>> /\ data = <<>> /\ next = 0
NoVmdk == scan = 0 /\ index = <<>> /\ tables = {} /\ grains = <<>>
IsEwf == made \in EwfFiles

Init ==
  /\ made \in EwfFiles \cup VmdkFiles /\ image = made.file
  /\ ask = None /\ ans = None
  /\ IF IsEwf THEN Ewf!InitReader /\ NoVmdk ELSE Vmdk!InitReader /\ NoEwf

EwfStep == IsEwf /\ Ewf!Next /\ UNCHANGED <<made, vmdkVars>>
VmdkStep == ~IsEwf /\ Vmdk!Next /\ UNCHANGED <<made, ewfVars>>
Next == EwfStep \/ VmdkStep
Spec == Init /\ [][Next]_vars
-----------------------------------------------------------------------------
TypeOK ==
  /\ made \in EwfFiles \cup VmdkFiles /\ image = made.file
  /\ phase \in {"segments", "opening", "ready", "refused", "panicked"}
  /\ ask \in {None} \cup EwfRequests \cup VmdkRequests
  /\ IsEwf => next \in 0..(CacheSize - 1) /\ DOMAIN keys = 0..(CacheSize - 1)
  /\ ~IsEwf => scan \in Nat /\ DOMAIN index \subseteq Nat

\* A cached chunk or grain is what the file holds under its key, and the caches stay
\* within their limits: a hit answers as a read would.
CachesAreTrue == IF IsEwf THEN Ewf!CacheIsTrue ELSE Vmdk!CachesAreTrue

Contract == INSTANCE ImageContract WITH
  disk <- made.disk, cut <- made.cut, reported <- IsEwf,
  Requests <- EwfRequests \cup VmdkRequests

\* Whatever the caches, holes, chunk boundaries and truncations, every answer is a prefix
\* of what the disk holds at the offset.  A VMDK does not report a request that the end
\* of the disk cuts short.
AnswersAreTheDisk == Contract!Spec
=============================================================================
