---------------------------------- MODULE Ewf ----------------------------------
(***************************************************************************)
(* The EnCase image reader (internal/parsers/ewf): Open walks the segment  *)
(* files and collects the chunk map, ReadAt loads one chunk after another   *)
(* through a ring cache.                                                    *)
(***************************************************************************)
EXTENDS Integers, Sequences

CONSTANTS ChunkSize,  \* bytes of a chunk
          CacheSize,  \* chunkCacheSize
          Requests,   \* bound: the calls of ReadAt, [off, len]
          Zero, None

VARIABLES image,     \* image.segments: the segment files, each a sequence of sections
          phase,     \* of Open: "segments", then "ready" or "refused"; "panicked": the process died
          seg,       \* segments opened so far
          total,     \* totalSize
          chunkMap,  \* the chunks' locations, in order
          keys, data, next,   \* cacheKeys, cacheData, cacheNext (its remainder)
          ask, ans,  \* the call of ReadAt and its answer
          out        \* the bytes copied so far

open == <<phase, seg, total, chunkMap>>
cache == <<keys, data, next>>
vars == <<image, open, cache, ask, ans, out>>

Slot == 0..(CacheSize - 1)

InitReader ==
  /\ phase = "segments" /\ seg = 0 /\ total = 0 /\ chunkMap = <<>>
  /\ keys = [s \in Slot |-> -1] /\ data = [s \in Slot |-> <<>>] /\ next = 0
  /\ out = <<>>

-----------------------------------------------------------------------------
(* Open. *)

\* parseSegment reads the sections up to "done" or "next".  A table's chunks go to the
\* map; of the volume sections the first one that gives a size counts.
Ends(sections) == {k \in DOMAIN sections : sections[k].type \in {"done", "next"}}
Read(sections) == {k \in DOMAIN sections : \A e \in Ends(sections) : k < e}
Unreadable(sections) == \E k \in Read(sections) : sections[k].type = "unreadable"

ChunksUpTo(sections) ==
  LET f[k \in 0..Len(sections)] ==
        IF k = 0 THEN <<>>
        ELSE f[k - 1] \o IF k \in Read(sections) /\ sections[k].type = "table"
                         THEN sections[k].chunks ELSE <<>>
  IN f[Len(sections)]

SizeFrom(sections) ==
  LET V == {k \in Read(sections) : sections[k].type \in {"volume", "disk"} /\ sections[k].size > 0}
  IN IF total # 0 \/ V = {} THEN total
     ELSE sections[CHOOSE k \in V : \A j \in V : k <= j].size

Satisfied == total > 0 /\ Len(chunkMap) * ChunkSize >= total

ParseSegment ==
  /\ phase = "segments" /\ ~Satisfied /\ seg < Len(image.segments)
  /\ seg' = seg + 1
  /\ LET s == image.segments[seg + 1] IN
       \/ Unreadable(s) /\ phase' = "refused" /\ UNCHANGED <<total, chunkMap>>
       \/ /\ ~Unreadable(s) /\ UNCHANGED phase
          /\ total' = SizeFrom(s) /\ chunkMap' = chunkMap \o ChunksUpTo(s)
  /\ UNCHANGED <<image, cache, ask, ans, out>>

\* All chunks are there, there is no further segment, or it cannot be opened.
Opened ==
  /\ phase = "segments"
  /\ phase' = IF total = 0 \/ chunkMap = <<>> THEN "refused" ELSE "ready"
  /\ UNCHANGED <<image, seg, total, chunkMap, cache, ask, ans, out>>

-----------------------------------------------------------------------------
(* ReadAt. *)

Smaller(a, b) == IF a < b THEN a ELSE b
Reply(bytes, err) == ans' = [bytes |-> bytes, err |-> err]

ReadAt(r) ==
  /\ phase = "ready" /\ ask = None /\ ask' = r /\ out' = <<>>
  /\ UNCHANGED <<image, open, cache, ans>>

Outside ==
  /\ ask # None /\ ans = None /\ out = <<>>
  /\ \/ ask.off < 0 /\ Reply(<<>>, "err")
     \/ ask.off >= total /\ Reply(<<>>, "eof")
  /\ UNCHANGED <<image, open, cache, ask, out>>

End == Smaller(ask.off + ask.len, total)
Cur == ask.off + Len(out)
Idx == Cur \div ChunkSize
Within == Cur - Idx * ChunkSize
Reading == phase = "ready" /\ ask # None /\ ans = None /\ ask.off >= 0 /\ ask.off < total

\* What loadChunk gets from the segment file: a raw chunk is read up to the disk's end
\* and what a truncated file no longer has stays zero; a compressed one is inflated, and
\* a truncated or damaged one cannot be.
Loaded(k) ==
  LET c == chunkMap[k + 1]
      n == Smaller(ChunkSize, total - k * ChunkSize)
  IN IF c.compressed THEN c.bytes
     ELSE [i \in 1..n |-> IF i <= c.have THEN c.bytes[i] ELSE Zero]

Loads(k) == LET c == chunkMap[k + 1] IN c.compressed => c.have = Len(c.bytes)

Hits == {s \in Slot : keys[s] = Idx}

CopiedFromStart(chunk) == SubSeq(chunk, 1, Smaller(Len(chunk), End - Cur))      \* FAULTY
\* copy(p[written:end-off], chunkBytes[within:])
Copied(chunk) == SubSeq(chunk, Within + 1, Within + Smaller(Len(chunk) - Within, End - Cur))

\* A chunk that inflates to what lies before the offset ends the loop; one that inflates
\* to less yet is sliced behind its end.
DeliverOn(chunk) == out' = out \o Copied(chunk) /\ UNCHANGED <<ans, phase>>      \* FAULTY: it does not
Deliver(chunk) ==
  \/ Within < Len(chunk) /\ out' = out \o Copied(chunk) /\ UNCHANGED <<ans, phase>>
  \/ Within = Len(chunk) /\ Reply(out, "eof") /\ UNCHANGED <<out, phase>>
  \/ Within > Len(chunk) /\ phase' = "panicked" /\ UNCHANGED <<out, ans>>

FromCache ==
  /\ Reading /\ Cur < End
  /\ \E s \in Hits : Deliver(data[s])
  /\ UNCHANGED <<image, seg, total, chunkMap, cache, ask>>

StoreAfter(k, chunk) ==      \* FAULTY: the position moves between key and data
  /\ keys' = [keys EXCEPT ![(next + 1) % CacheSize] = k]
  /\ data' = [data EXCEPT ![next] = chunk] /\ next' = (next + 1) % CacheSize
StoreUnwrapped(k, chunk) ==      \* FAULTY: cacheNext is not wrapped
  /\ keys' = [keys EXCEPT ![next] = k]
  /\ data' = [data EXCEPT ![next] = chunk] /\ next' = next + 1
Store(k, chunk) ==
  /\ keys' = [keys EXCEPT ![next] = k]
  /\ data' = [data EXCEPT ![next] = chunk] /\ next' = (next + 1) % CacheSize

FromSegment ==
  /\ Reading /\ Cur < End /\ Hits = {} /\ Idx < Len(chunkMap) /\ Loads(Idx)
  /\ Store(Idx, Loaded(Idx)) /\ Deliver(Loaded(Idx))
  /\ UNCHANGED <<image, seg, total, chunkMap, ask>>

\* The chunk is in a segment that is not there, cannot be inflated, or the file cannot
\* be read; nothing is cached.
ChunkFails ==
  /\ Reading /\ Cur < End /\ Hits = {}
  /\ Reply(out, "err") /\ UNCHANGED <<image, open, cache, ask, out>>

Return ==
  /\ Reading /\ Cur >= End
  /\ Reply(out, IF Cur < ask.off + ask.len THEN "eof" ELSE "nil")
  /\ UNCHANGED <<image, open, cache, ask, out>>

Taken == /\ ans # None /\ ask' = None /\ ans' = None /\ out' = <<>>
         /\ UNCHANGED <<image, open, cache>>

Next == \/ ParseSegment \/ Opened
        \/ \E r \in Requests : ReadAt(r)
        \/ Outside \/ FromCache \/ FromSegment \/ ChunkFails \/ Return \/ Taken

-----------------------------------------------------------------------------
\* A cached chunk is what its segment holds, and is cached once: a hit answers as a
\* read would, however the ring has turned.
CacheIsTrue ==
  \A s \in Slot : keys[s] # -1 =>
    /\ data[s] = Loaded(keys[s])
    /\ \A t \in Slot : keys[t] = keys[s] => s = t
=============================================================================
