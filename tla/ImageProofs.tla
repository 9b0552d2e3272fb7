------------------------------ MODULE ImageProofs ------------------------------
(***************************************************************************)
(* The readers of disk images, for every image, every size of chunk, grain, *)
(* table and cache, and any sequence of calls: their caches are true, and   *)
(* what ReadAt answers is what the disk holds.                              *)
(***************************************************************************)
EXTENDS Decoders, FiniteSetTheorems, WellFoundedInduction, TLAPS

LEMMA Sizes ==
    /\ ChunkSize \in Nat \ {0} /\ CacheSize \in Nat \ {0} /\ GrainSize \in Nat \ {0} /\ NumGTEs \in Nat \ {0}
    /\ GtCacheMax \in Nat /\ GrainMax \in Nat
    /\ EwfRequests \subseteq [off : Int, len : Nat] /\ VmdkRequests \subseteq [off : Nat, len : Nat]
BY DecoderAssumptions DEF Images!ImageAssumption

\* What the steps of a case have to do with an image.
LEMMA ImageSteps ==
    ASSUME [Next \/ Stopped]_vars
    PROVE  job' = job /\ (job = "image" => [Images!Next]_(Images!vars))
BY DEF Next, Stopped, Reads, vars, shared, imageVars, Images!vars, Images!ewfVars, Images!vmdkVars

-----------------------------------------------------------------------------
(* The caches. *)

\* Nothing is asked, and so nothing is cached, before the image is open; the ring's
\* position stays inside the ring.
EwfCache ==
    /\ stage \notin {"ready", "panicked"} => ask = None
    /\ DOMAIN keys = Images!Ewf!Slot /\ DOMAIN data = Images!Ewf!Slot /\ next \in Images!Ewf!Slot
    /\ stage = "segments" => \A s \in Images!Ewf!Slot : keys[s] = -1
    /\ Images!Ewf!CacheIsTrue

VmdkCache ==
    /\ stage \notin {"ready", "panicked"} => ask = None
    /\ stage = "opening" => DOMAIN grains = {}
    /\ IsFiniteSet(tables) /\ IsFiniteSet(DOMAIN grains)
    /\ Images!Vmdk!CachesAreTrue

LEMMA StoreKeeps ==
    ASSUME EwfCache, Images!Ewf!Hits = {}, NEW chunk, chunk = Images!Ewf!Loaded(Images!Ewf!Idx),
           Images!Ewf!Store(Images!Ewf!Idx, chunk), UNCHANGED <<ask, total, chunkMap>>,
           stage = "ready", stage' \in {"ready", "panicked"}
    PROVE  EwfCache'
<1> DEFINE k == Images!Ewf!Idx
<1>1. /\ keys' = [keys EXCEPT ![next] = k] /\ data' = [data EXCEPT ![next] = chunk]
      /\ next' = (next + 1) % CacheSize
  BY DEF Images!Ewf!Store
<1>2. \A s \in Images!Ewf!Slot : keys[s] # k
  BY DEF Images!Ewf!Hits
<1>3. next' \in Images!Ewf!Slot
  BY <1>1, Sizes DEF EwfCache, Images!Ewf!Slot
<1>4. \A x : Images!Ewf!Loaded(x)' = Images!Ewf!Loaded(x)
  BY DEF Images!Ewf!Loaded, Images!Ewf!Smaller
<1>5. chunk = Images!Ewf!Loaded(k)
  OBVIOUS
<1> HIDE DEF k
<1>6. Images!Ewf!CacheIsTrue'
  <2> SUFFICES ASSUME NEW s \in Images!Ewf!Slot, keys'[s] # -1
               PROVE  /\ data'[s] = Images!Ewf!Loaded(keys'[s])
                      /\ \A t \in Images!Ewf!Slot : keys'[t] = keys'[s] => s = t
    BY <1>4 DEF Images!Ewf!CacheIsTrue, Images!Ewf!Slot
  <2>1. CASE s = next
    BY <1>1, <1>2, <1>5, <2>1 DEF EwfCache
  <2>2. CASE s # next
    BY <1>1, <1>2, <2>2 DEF EwfCache, Images!Ewf!CacheIsTrue
  <2> QED BY <2>1, <2>2
<1> QED BY <1>1, <1>3, <1>6 DEF EwfCache, Images!Ewf!Slot

LEMMA EwfCacheStep ==
    ASSUME EwfCache, Images!Ewf!Next
    PROVE  EwfCache'
<1>0. ASSUME UNCHANGED <<keys, data, next, total, chunkMap>>, stage' \notin {"ready", "panicked"} => ask' = None,
             stage' = "segments" => stage = "segments"
      PROVE  EwfCache'
  BY <1>0 DEF EwfCache, Images!Ewf!CacheIsTrue, Images!Ewf!Loaded, Images!Ewf!Smaller, Images!Ewf!Slot
<1>1. CASE Images!Ewf!ParseSegment
  <2>1. stage = "segments" /\ ask' = ask /\ UNCHANGED <<keys, data, next>> /\ stage' \in {"segments", "refused"}
    BY <1>1 DEF Images!Ewf!ParseSegment, Images!Ewf!cache
  <2> QED BY <2>1 DEF EwfCache, Images!Ewf!CacheIsTrue, Images!Ewf!Slot
<1>2. CASE Images!Ewf!Opened
  BY <1>0, <1>2 DEF EwfCache, Images!Ewf!Opened, Images!Ewf!cache
<1>3. CASE Images!Ewf!FromSegment
  <2>1. UNCHANGED <<ask, total, chunkMap>> /\ stage = "ready" /\ stage' \in {"ready", "panicked"}
    BY <1>3 DEF Images!Ewf!FromSegment, Images!Ewf!Reading, Images!Ewf!Deliver
  <2> QED BY <1>3, <2>1, StoreKeeps DEF Images!Ewf!FromSegment
<1>4. CASE \E r \in EwfRequests : Images!Ewf!ReadAt(r)
  BY <1>0, <1>4 DEF EwfCache, Images!Ewf!ReadAt, Images!Ewf!open, Images!Ewf!cache
<1>5. CASE \/ Images!Ewf!Outside \/ Images!Ewf!FromCache \/ Images!Ewf!ChunkFails \/ Images!Ewf!Return
           \/ Images!Ewf!Taken
  <2>1. /\ UNCHANGED <<keys, data, next, total, chunkMap>> /\ (ask' = ask \/ ask' = None)
        /\ stage' = stage \/ stage' = "panicked"
    BY <1>5 DEF Images!Ewf!Outside, Images!Ewf!FromCache, Images!Ewf!Deliver, Images!Ewf!ChunkFails, Images!Ewf!Return,
       Images!Ewf!Taken, Images!Ewf!open, Images!Ewf!cache
  <2> QED BY <1>0, <2>1 DEF EwfCache
<1> QED BY <1>1, <1>2, <1>3, <1>4, <1>5 DEF Images!Ewf!Next

\* A cache that is emptied when it is past its limit, and takes one more.
LEMMA OneMore ==
    ASSUME NEW S, IsFiniteSet(S), NEW m \in Nat, NEW T, T = (IF Cardinality(S) > m THEN {} ELSE S), NEW x
    PROVE  /\ IsFiniteSet(T) /\ Cardinality(T) <= m
           /\ IsFiniteSet(T \cup {x}) /\ Cardinality(T \cup {x}) <= m + 1
<1>1. IsFiniteSet(T) /\ Cardinality(T) <= m
  BY FS_EmptySet, FS_CardinalityType
<1>2. Cardinality(T) \in Nat
  BY <1>1, FS_CardinalityType
<1>3. /\ IsFiniteSet(T \cup {x})
      /\ Cardinality(T \cup {x}) = IF x \in T THEN Cardinality(T) ELSE Cardinality(T) + 1
  BY <1>1, FS_AddElement
<1> QED BY <1>1, <1>2, <1>3

\* The cardinality that Vmdk takes from its own instance of FiniteSets.
LEMMA VmdkCardinality == \A S : Images!Vmdk!Cardinality(S) = Cardinality(S)
BY DEF Images!Vmdk!Cardinality, Cardinality, Images!Vmdk!IsFiniteSet, IsFiniteSet

LEMMA TablesKeep ==
    ASSUME VmdkCache, Images!Vmdk!LoadTable \/ tables' = Images!Vmdk!Room,
           UNCHANGED <<stage, image, index, grains>>, stage = "ready"
    PROVE  VmdkCache'
<1>1. IsFiniteSet(tables') /\ Cardinality(tables') <= GtCacheMax + 1
  <2>1. IsFiniteSet(tables) /\ Cardinality(tables) <= GtCacheMax + 1
    BY VmdkCardinality DEF VmdkCache, Images!Vmdk!CachesAreTrue
  <2>2. CASE UNCHANGED tables
    BY <2>1, <2>2
  <2>3. CASE tables' = Images!Vmdk!Room
    <3>1. Cardinality(Images!Vmdk!Room) <= GtCacheMax /\ IsFiniteSet(Images!Vmdk!Room)
      BY <2>1, OneMore, Sizes, VmdkCardinality DEF Images!Vmdk!Room
    <3> QED BY <2>3, <3>1, Sizes, FS_CardinalityType
  <2>4. CASE tables' = Images!Vmdk!Room \cup {Images!Vmdk!Table}
    BY <2>1, <2>4, OneMore, Sizes, VmdkCardinality DEF Images!Vmdk!Room
  <2> QED BY <2>2, <2>3, <2>4 DEF Images!Vmdk!LoadTable, Images!Vmdk!KeepTable
<1> QED BY <1>1, VmdkCardinality DEF VmdkCache, Images!Vmdk!CachesAreTrue

LEMMA GrainsKeep ==
    ASSUME VmdkCache, Images!Vmdk!InIndex, Images!Vmdk!KeepGrain, UNCHANGED <<image, index, tables>>,
           stage' \in {"ready", "panicked"}
    PROVE  VmdkCache'
<1> DEFINE g == Images!Vmdk!Grain
           kept == IF Cardinality(DOMAIN grains) > GrainMax THEN {} ELSE DOMAIN grains
<1>1. grains' = [x \in kept \cup {g} |-> IF x = g THEN image.blocks[index[g]].bytes ELSE grains[x]]
  BY VmdkCardinality DEF Images!Vmdk!KeepGrain, Images!Vmdk!Inflated
<1>2. IsFiniteSet(kept \cup {g}) /\ Cardinality(kept \cup {g}) <= GrainMax + 1
  BY OneMore, Sizes DEF VmdkCache
<1>3. g \in DOMAIN index /\ kept \subseteq DOMAIN grains
  BY DEF Images!Vmdk!InIndex
<1> HIDE DEF g, kept
<1>4. DOMAIN grains' = kept \cup {g}
  BY <1>1
<1>5. \A x \in DOMAIN grains' : x \in DOMAIN index' /\ grains'[x] = image'.blocks[index'[x]].bytes
  BY <1>1, <1>3 DEF VmdkCache, Images!Vmdk!CachesAreTrue
<1> QED BY <1>2, <1>4, <1>5, VmdkCardinality DEF VmdkCache, Images!Vmdk!CachesAreTrue

LEMMA VmdkCacheStep ==
    ASSUME VmdkCache, Images!Vmdk!Next
    PROVE  VmdkCache'
<1>0. ASSUME UNCHANGED <<image, index, tables, grains>>, stage' \notin {"ready", "panicked"} => ask' = None,
             stage' = "opening" => stage = "opening"
      PROVE  VmdkCache'
  BY <1>0 DEF VmdkCache, Images!Vmdk!CachesAreTrue
<1>1. CASE Images!Vmdk!ScanBlock
  BY <1>1 DEF VmdkCache, Images!Vmdk!ScanBlock, Images!Vmdk!CachesAreTrue, Images!Vmdk!caches
<1>2. CASE Images!Vmdk!OpenSparse \/ Images!Vmdk!OpenStream
  BY <1>0, <1>2 DEF VmdkCache, Images!Vmdk!OpenSparse, Images!Vmdk!OpenStream, Images!Vmdk!caches
<1>3. CASE \E r \in VmdkRequests : Images!Vmdk!ReadAt(r)
  BY <1>0, <1>3 DEF Images!Vmdk!ReadAt, Images!Vmdk!caches
<1>4. CASE \/ Images!Vmdk!Outside \/ Images!Vmdk!StreamHole \/ Images!Vmdk!StreamHit \/ Images!Vmdk!StreamFails
           \/ Images!Vmdk!Return \/ Images!Vmdk!Taken
  <2>1. /\ UNCHANGED <<image, index, tables, grains>> /\ (ask' = ask \/ ask' = None)
        /\ stage' = stage \/ stage' = "panicked"
    BY <1>4 DEF Images!Vmdk!Outside, Images!Vmdk!DeliverGrain, Images!Vmdk!StreamHole, Images!Vmdk!StreamHit, Images!Vmdk!StreamFails,
       Images!Vmdk!Return, Images!Vmdk!Taken, Images!Vmdk!caches
  <2> QED BY <1>0, <2>1 DEF VmdkCache
<1>5. CASE Images!Vmdk!SparseHole \/ Images!Vmdk!SparseGrain \/ Images!Vmdk!SparseCut \/ Images!Vmdk!SparseFails
  <2>1. /\ UNCHANGED <<image, stage, index, grains, ask>> /\ stage = "ready"
        /\ UNCHANGED tables \/ Images!Vmdk!LoadTable \/ tables' = Images!Vmdk!Room
    BY <1>5 DEF Images!Vmdk!SparseHole, Images!Vmdk!SparseGrain, Images!Vmdk!SparseCut, Images!Vmdk!SparseFails,
       Images!Vmdk!Turn, Images!Vmdk!Reading
  <2> QED BY <1>0, <2>1, TablesKeep
<1>6. CASE Images!Vmdk!StreamGrain
  <2>1. UNCHANGED <<image, index, tables>> /\ stage' \in {"ready", "panicked"}
    BY <1>6 DEF Images!Vmdk!StreamGrain, Images!Vmdk!Turn, Images!Vmdk!Reading, Images!Vmdk!DeliverGrain
  <2> QED BY <1>6, <2>1, GrainsKeep DEF Images!Vmdk!StreamGrain
<1> QED BY <1>1, <1>2, <1>3, <1>4, <1>5, <1>6 DEF Images!Vmdk!Next

CacheInv == job = "image" => IF Images!IsEwf THEN EwfCache ELSE VmdkCache

LEMMA CacheInvHolds == Spec => []CacheInv
<1>1. Init => CacheInv
  <2> SUFFICES ASSUME Images!Init PROVE IF Images!IsEwf THEN EwfCache ELSE VmdkCache
    BY DEF Init, CacheInv
  <2>1. CASE Images!IsEwf
    BY <2>1, Sizes DEF Images!Init, Images!Ewf!InitReader, EwfCache, Images!Ewf!CacheIsTrue, Images!Ewf!Slot
  <2>2. CASE ~Images!IsEwf
    <3>1. ask = None /\ tables = {} /\ DOMAIN grains = {}
      BY <2>2 DEF Images!Init, Images!Vmdk!InitReader
    <3>2. IsFiniteSet(tables) /\ Cardinality(tables) = 0 /\ IsFiniteSet(DOMAIN grains) /\ Cardinality(DOMAIN grains) = 0
      BY <3>1, FS_EmptySet
    <3> QED BY <2>2, <3>1, <3>2, Sizes, VmdkCardinality DEF VmdkCache, Images!Vmdk!CachesAreTrue
  <2> QED BY <2>1, <2>2
<1>2. CacheInv /\ [Next \/ Stopped]_vars => CacheInv'
  <2> SUFFICES ASSUME CacheInv, [Next \/ Stopped]_vars, job = "image" PROVE CacheInv'
    BY ImageSteps DEF CacheInv
  <2>1. job' = job /\ [Images!Next]_(Images!vars)
    BY ImageSteps
  <2>2. CASE Images!EwfStep
    BY <2>1, <2>2, EwfCacheStep DEF CacheInv, Images!EwfStep, Images!IsEwf
  <2>3. CASE Images!VmdkStep
    BY <2>1, <2>3, VmdkCacheStep DEF CacheInv, Images!VmdkStep, Images!IsEwf
  <2>4. CASE UNCHANGED Images!vars
    BY <2>1, <2>4 DEF CacheInv, Images!vars, Images!ewfVars, Images!vmdkVars, Images!IsEwf, EwfCache, VmdkCache,
       Images!Ewf!CacheIsTrue, Images!Ewf!Loaded, Images!Ewf!Smaller, Images!Ewf!Slot, Images!Vmdk!CachesAreTrue
  <2> QED BY <2>1, <2>2, <2>3, <2>4 DEF Images!Next
<1> QED BY <1>1, <1>2, PTL DEF Spec

\* A chunk, grain or table that a reader's cache answers with is what the file holds under
\* its key, and the caches keep to their limits.
THEOREM ImageCaches == Spec => []CachesAreTrue
<1>1. CacheInv => CachesAreTrue
  BY DEF CacheInv, EwfCache, VmdkCache, CachesAreTrue, Images!CachesAreTrue
<1> QED BY <1>1, CacheInvHolds, PTL

-----------------------------------------------------------------------------
(***************************************************************************)
(* The answers.  While a call runs, what it has copied is the disk's: the   *)
(* caches are true, the chunk map is the one the segments make, and the     *)
(* index of a stream names the last block of each grain.                    *)
(***************************************************************************)
LEMMA DivMod ==
    ASSUME NEW a \in Nat, NEW d \in Nat \ {0}
    PROVE  a \div d \in Nat /\ a % d \in 0..(d - 1) /\ a = (a \div d) * d + (a % d)
OBVIOUS

LEMMA DivUnique ==
    ASSUME NEW d \in Nat \ {0}, NEW q \in Nat, NEW p \in Nat, NEW r \in 0..(d - 1), NEW t \in 0..(d - 1),
           q * d + r = p * d + t
    PROVE  q = p /\ r = t
<1>1. ASSUME NEW x \in Nat, NEW y \in Nat, x < y PROVE x * d + d <= y * d
  <2>1. y = x + (y - x) /\ y - x \in Nat /\ y - x >= 1
    BY <1>1
  <2>2. y * d = x * d + (y - x) * d /\ (y - x) * d >= d
    BY <2>1
  <2> QED BY <2>2
<1>2. q * d \in Nat /\ p * d \in Nat
  OBVIOUS
<1>3. ~ (q < p) /\ ~ (p < q)
  BY <1>1, <1>2
<1> QED BY <1>3

LEMMA Retype ==
    ASSUME NEW S, NEW s \in Seq(S), NEW T, \A i \in 1..Len(s) : s[i] \in T
    PROVE  s \in Seq(T)
OBVIOUS

LEMMA Slice ==
    ASSUME NEW S, NEW s \in Seq(S), NEW a \in Nat, NEW n \in Nat, a + n <= Len(s)
    PROVE  /\ SubSeq(s, a + 1, a + n) \in Seq(S) /\ Len(SubSeq(s, a + 1, a + n)) = n
           /\ \A i \in 1..n : SubSeq(s, a + 1, a + n)[i] = s[a + i]
OBVIOUS

Byte == Images!Bytes(made.disk) \cup {Zero}
TrueByte(p, x) == x = made.disk[p + 1] \/ (x = Zero /\ p \in made.cut)
TrueBytes(off, s) ==
    /\ s \in Seq(Byte) /\ (s # <<>> => off \in Nat /\ off + Len(s) <= Len(made.disk))
    /\ \A i \in 1..Len(s) : TrueByte(off + i - 1, s[i])

CallOK ==
    /\ made \in EwfFiles \cup VmdkFiles /\ image = made.file
    /\ ask # None => /\ ask \in IF Images!IsEwf THEN EwfRequests ELSE VmdkRequests
                     /\ TrueBytes(ask.off, out) /\ Len(out) <= ask.len

LEMMA DiskType == CallOK => made.disk \in Seq(Images!Bytes(made.disk)) /\ Len(made.disk) \in Nat
BY DecoderAssumptions DEF CallOK, Images!ImageAssumption

LEMMA AskType == CallOK /\ ask # None => ask.off \in Int /\ ask.len \in Nat /\ Len(out) \in Nat
BY Sizes DEF CallOK, TrueBytes

\* True bytes that follow what is copied.
LEMMA BytesGrow ==
    ASSUME CallOK, ask # None, ask.off \in Nat, NEW S, NEW b \in Seq(S),
           ask.off + Len(out) + Len(b) <= Len(made.disk),
           \A i \in 1..Len(b) : TrueByte(ask.off + Len(out) + i - 1, b[i])
    PROVE  TrueBytes(ask.off, out \o b) /\ Len(out \o b) = Len(out) + Len(b)
<1>1. made.disk \in Seq(Images!Bytes(made.disk)) /\ Len(made.disk) \in Nat /\ Len(out) \in Nat /\ out \in Seq(Byte)
  BY DiskType, AskType DEF CallOK, TrueBytes
<1>2. \A i \in 1..Len(b) : b[i] \in Byte
  <2> SUFFICES ASSUME NEW i \in 1..Len(b) PROVE b[i] \in Byte
    OBVIOUS
  <2> DEFINE p == ask.off + Len(out) + i - 1
  <2>0. Len(b) \in Nat
    OBVIOUS
  <2>1. p + 1 \in 1..Len(made.disk)
    BY <1>1, <2>0
  <2>2. TrueByte(p, b[i])
    OBVIOUS
  <2> HIDE DEF p
  <2>3. made.disk[p + 1] \in Images!Bytes(made.disk)
    BY <1>1, <2>1
  <2> QED BY <2>2, <2>3 DEF TrueByte, Byte
<1>3. b \in Seq(Byte)
  BY <1>2, Retype
<1>4. /\ out \o b \in Seq(Byte) /\ Len(out \o b) = Len(out) + Len(b)
      /\ \A i \in 1..Len(out) : (out \o b)[i] = out[i]
      /\ \A i \in 1..Len(b) : (out \o b)[Len(out) + i] = b[i]
  BY <1>1, <1>3
<1>5. \A i \in 1..Len(out \o b) : TrueByte(ask.off + i - 1, (out \o b)[i])
  <2> SUFFICES ASSUME NEW i \in 1..Len(out \o b) PROVE TrueByte(ask.off + i - 1, (out \o b)[i])
    OBVIOUS
  <2>1. CASE i <= Len(out)
    <3>1. i \in 1..Len(out) /\ (out \o b)[i] = out[i]
      BY <1>1, <1>4, <2>1
    <3>2. \A j \in 1..Len(out) : TrueByte(ask.off + j - 1, out[j])
      BY DEF CallOK, TrueBytes
    <3> QED BY <3>1, <3>2
  <2>2. CASE i > Len(out)
    <3>1. i - Len(out) \in 1..Len(b) /\ ask.off + Len(out) + (i - Len(out)) - 1 = ask.off + i - 1
      BY <1>1, <1>3, <1>4, <2>2
    <3>2. i = Len(out) + (i - Len(out))
      BY <1>1
    <3> QED BY <1>4, <3>1, <3>2
  <2> QED BY <1>1, <2>1, <2>2
<1> QED BY <1>1, <1>3, <1>4, <1>5 DEF TrueBytes

\* A turn of the loop that copies them.
LEMMA CallGrows ==
    ASSUME CallOK, ask # None, ask.off \in Nat, NEW S, NEW b \in Seq(S),
           Len(out) + Len(b) <= ask.len, ask.off + Len(out) + Len(b) <= Len(made.disk),
           \A i \in 1..Len(b) : TrueByte(ask.off + Len(out) + i - 1, b[i]),
           out' = out \o b, UNCHANGED <<made, image, ask>>
    PROVE  CallOK'
<1>1. TrueBytes(ask.off, out \o b) /\ Len(out \o b) = Len(out) + Len(b)
  BY BytesGrow
<1> QED BY <1>1 DEF CallOK, TrueBytes, TrueByte, Byte, Images!Bytes, Images!IsEwf

\* An answer with what was copied, and an error that its end justifies.
LEMMA CallAnswers ==
    ASSUME CallOK, ask # None, ans = None, NEW s, TrueBytes(ask.off, s), Len(s) <= ask.len, NEW e,
           ans' = [bytes |-> s, err |-> e], UNCHANGED <<made, ask>>,
           \/ e = "err"
           \/ e = "eof" /\ (ask.off + Len(s) >= Len(made.disk) \/ ask.off + Len(s) \in made.cut)
           \/ e = "nil" /\ (Len(s) = ask.len \/ (~Images!IsEwf /\ ask.off + Len(s) >= Len(made.disk)))
    PROVE  Images!Contract!Next
<1> DEFINE n == Len(s)
           z == {i \in 1..n : ask.off + i - 1 \in made.cut /\ s[i] = Zero}
<1>1. n \in 0..ask.len /\ ask.off \in Int
  BY AskType DEF TrueBytes
<1>2. \A i \in 1..n : (ask.off + i - 1) + 1 = ask.off + i
  BY <1>1
<1>3. s = [i \in 1..n |-> IF i \in z THEN Zero ELSE made.disk[ask.off + i]]
  <2>1. s = [i \in 1..n |-> s[i]]
    BY DEF TrueBytes
  <2>2. \A i \in 1..n : s[i] = IF i \in z THEN Zero ELSE made.disk[ask.off + i]
    BY <1>2 DEF TrueBytes, TrueByte
  <2> HIDE DEF z
  <2> QED BY <2>1, <2>2
<1>4. z \in SUBSET {i \in 1..n : ask.off + i - 1 \in made.cut}
  OBVIOUS
<1>5. s \in Images!Contract!Slices(ask.off, n)
  <2> HIDE DEF z
  <2> QED BY <1>3, <1>4 DEF Images!Contract!Slices
<1>6. Images!Contract!Fits(ask, n)
  <2>1. s # <<>> => ask.off \in Nat /\ ask.off + n <= Len(made.disk)
    BY DEF TrueBytes
  <2>2. s = <<>> => n = 0
    OBVIOUS
  <2> QED BY <2>1, <2>2 DEF Images!Contract!Fits
<1>7. ans' \in Images!Contract!Answers(ask, n)
  <2> HIDE DEF n
  <2> QED BY <1>5 DEF Images!Contract!Answers, n
<1> HIDE DEF n, z
<1> QED BY <1>1, <1>6, <1>7 DEF Images!Contract!Next, Images!Contract!Answer, Images!IsEwf

\* The chunk map is what the segments read so far make, and of a disk that is open the
\* size is known; a cached chunk is one of the map's.
EwfMap ==
    /\ stage \in {"segments", "ready", "panicked"} =>
         /\ seg \in 0..Len(image.segments) /\ chunkMap = Images!Chunks(made, seg)
         /\ total \in {0, Len(made.disk)}
    /\ stage \in {"ready", "panicked"} => total # 0
    /\ \A s \in Images!Ewf!Slot : keys[s] # -1 => keys[s] \in 0..(Len(chunkMap) - 1)

LEMMA MadeOfSegments ==
    ASSUME CallOK, Images!IsEwf
    PROVE  Images!EwfMadeFrom(made) /\ image = made.file /\ image.segments \in Seq(Images!Bytes(image.segments))
BY DecoderAssumptions DEF CallOK, Images!ImageAssumption, Images!IsEwf, Images!EwfMadeFrom

\* Induction, as far as it can be cited: on the numbers in a set.
LEMMA Induction ==
    ASSUME NEW S, 0 \in S, \A k \in Nat : k \in S => k + 1 \in S
    PROVE  Nat \subseteq S
<1> DEFINE T == Nat \ S
<1>1. SUFFICES ASSUME T # {} PROVE FALSE
  OBVIOUS
<1>2. PICK k \in T : \A j \in T : <<j, k>> \notin OpToRel(<, Nat)
  <2> HIDE DEF T
  <2>1. T \subseteq Nat
    BY DEF T
  <2> QED BY <1>1, <2>1, WFMin, NatLessThanWellFounded, Zenon
<1>3. \A j \in T : ~ (j < k)
  BY <1>2, Zenon DEF OpToRel
<1>4. k \in Nat \ {0} /\ k - 1 \in Nat /\ k - 1 < k
  OBVIOUS
<1>5. k - 1 \in S
  BY <1>3, <1>4
<1> QED BY <1>4, <1>5

\* Lists put one behind another.
IsJoined(c, g, n) == c = [i \in 0..n |-> IF i = 0 THEN <<>> ELSE c[i - 1] \o g[i]]

LEMMA JoinedExists == ASSUME NEW g, NEW n \in Nat PROVE \E c : IsJoined(c, g, n)
<1> DEFINE S == {k \in Nat : \E c : IsJoined(c, g, k)}
<1>1. 0 \in S
  <2>1. IsJoined([i \in 0..0 |-> <<>>], g, 0)
    BY DEF IsJoined
  <2> QED BY <2>1
<1>2. ASSUME NEW k \in Nat, k \in S PROVE k + 1 \in S
  <2>1. PICK c : IsJoined(c, g, k)
    BY <1>2
  <2> DEFINE d == [i \in 0..(k + 1) |-> IF i = k + 1 THEN c[k] \o g[k + 1] ELSE c[i]]
  <2>2. \A i \in 0..k : d[i] = c[i]
    OBVIOUS
  <2>3. \A i \in 0..(k + 1) : d[i] = IF i = 0 THEN <<>> ELSE d[i - 1] \o g[i]
    <3> TAKE i \in 0..(k + 1)
    <3>1. CASE i = k + 1
      <4>1. d[i] = c[k] \o g[i] /\ d[k] = c[k] /\ i - 1 = k /\ i # 0
        BY <3>1
      <4> QED BY <4>1
    <3>2. CASE i \in 0..k
      <4>1. d[i] = c[i] /\ c[i] = IF i = 0 THEN <<>> ELSE c[i - 1] \o g[i]
        BY <2>1, <2>2, <3>2 DEF IsJoined
      <4>2. i # 0 => i - 1 \in 0..k /\ d[i - 1] = c[i - 1]
        BY <2>2, <3>2
      <4> QED BY <4>1, <4>2
    <3> QED BY <3>1, <3>2
  <2>4. IsJoined(d, g, k + 1)
    BY <2>3 DEF IsJoined
  <2>5. \E e : IsJoined(e, g, k + 1)
    <3> HIDE DEF d
    <3> QED BY <2>4
  <2> QED BY <2>5
<1>3. Nat \subseteq S
  <2> HIDE DEF S
  <2> QED BY <1>1, <1>2, Induction
<1> QED BY <1>3

LEMMA JoinedStep ==
    ASSUME NEW g, NEW n \in Nat, NEW c, IsJoined(c, g, n)
    PROVE  c[0] = <<>> /\ \A i \in 1..n : c[i] = c[i - 1] \o g[i]
<1>1. c = [i \in 0..n |-> IF i = 0 THEN <<>> ELSE c[i - 1] \o g[i]]
  BY DEF IsJoined
<1>2. 0 \in 0..n /\ \A i \in 1..n : i \in 0..n /\ i # 0
  OBVIOUS
<1>3. \A i \in 0..n : c[i] = IF i = 0 THEN <<>> ELSE c[i - 1] \o g[i]
  BY <1>1, Zenon
<1> QED BY <1>2, <1>3

LEMMA JoinedType ==
    ASSUME NEW g, NEW n \in Nat, NEW c, IsJoined(c, g, n), NEW A, \A i \in 1..n : g[i] \in Seq(A)
    PROVE  \A i \in 0..n : c[i] \in Seq(A)
<1> DEFINE S == {k \in Nat : k <= n => c[k] \in Seq(A)}
<1>1. c[0] = <<>> /\ \A i \in 1..n : c[i] = c[i - 1] \o g[i]
  BY JoinedStep
<1>2. 0 \in S
  <2>1. <<>> \in Seq(A)
    OBVIOUS
  <2> QED BY <1>1, <2>1
<1>3. ASSUME NEW k \in Nat, k \in S PROVE k + 1 \in S
  <2>1. SUFFICES ASSUME k + 1 <= n PROVE c[k + 1] \in Seq(A)
    OBVIOUS
  <2>2. c[k] \in Seq(A) /\ k + 1 \in 1..n /\ (k + 1) - 1 = k
    BY <1>3, <2>1
  <2>3. c[k + 1] = c[k] \o g[k + 1] /\ g[k + 1] \in Seq(A)
    BY <1>1, <2>2
  <2> QED BY <2>2, <2>3
<1>4. Nat \subseteq S
  <2> HIDE DEF S
  <2> QED BY <1>2, <1>3, Induction
<1> QED BY <1>4

\* The chunks of one segment.
LEMMA UpToType ==
    ASSUME NEW sections, Len(sections) \in Nat, NEW A,
           \A k \in 1..Len(sections) : sections[k].type = "table" => sections[k].chunks \in Seq(A)
    PROVE  Images!Ewf!ChunksUpTo(sections) \in Seq(A)
<1> DEFINE n == Len(sections)
           T(k) == k \in Images!Ewf!Read(sections) /\ sections[k].type = "table"
           g == [k \in 1..n |-> IF T(k) THEN sections[k].chunks ELSE <<>>]
           IsF(f) == f = [k \in 0..n |-> IF k = 0 THEN <<>>
                                         ELSE f[k - 1] \o IF T(k) THEN sections[k].chunks ELSE <<>>]
<1>1. \A f : IsF(f) <=> IsJoined(f, g, n)
  <2> TAKE f
  <2> DEFINE h(k) == IF T(k) THEN sections[k].chunks ELSE <<>>
             x == [k \in 0..n |-> IF k = 0 THEN <<>> ELSE f[k - 1] \o h(k)]
             y == [k \in 0..n |-> IF k = 0 THEN <<>> ELSE f[k - 1] \o g[k]]
  <2>1. (IsF(f) <=> f = x) /\ (IsJoined(f, g, n) <=> f = y)
    BY DEF IsJoined
  <2>2. \A k \in 0..n : k # 0 => g[k] = h(k)
    OBVIOUS
  <2>3. x = y
    <3> HIDE DEF g, h
    <3> QED BY <2>2
  <2> HIDE DEF x, y
  <2> QED BY <2>1, <2>3
<1>2. Images!Ewf!ChunksUpTo(sections) = (CHOOSE f : IsF(f))[n]
  BY DEF Images!Ewf!ChunksUpTo
<1>3. \A k \in 1..n : g[k] \in Seq(A)
  OBVIOUS
<1> HIDE DEF IsF, g
<1>4. IsJoined(CHOOSE f : IsF(f), g, n)
  <2>1. \E f : IsF(f)
    BY <1>1, JoinedExists
  <2>2. IsF(CHOOSE f : IsF(f))
    BY <2>1
  <2> QED BY <1>1, <2>2
<1>5. n \in Nat /\ n \in 0..n
  OBVIOUS
<1>6. \A i \in 0..n : (CHOOSE f : IsF(f))[i] \in Seq(A)
  <2> HIDE DEF n
  <2> QED BY <1>3, <1>4, <1>5, JoinedType
<1> QED BY <1>2, <1>5, <1>6

\* The chunk map that a number of segments make.
LEMMA ChunksAre ==
    ASSUME NEW m, Images!EwfMadeFrom(m), NEW s \in 0..Len(m.file.segments)
    PROVE  /\ Images!Chunks(m, s) \in Seq(Images!Bytes(Images!Chunks(m, s)))
           /\ s = 0 => Images!Chunks(m, s) = <<>>
           /\ s # 0 => Images!Chunks(m, s) = Images!Chunks(m, s - 1) \o Images!Ewf!ChunksUpTo(m.file.segments[s])
<1> DEFINE segments == m.file.segments
           n == Len(segments)
           g == [i \in 1..n |-> Images!Ewf!ChunksUpTo(segments[i])]
           IsC(c) == c = [i \in 0..n |-> IF i = 0 THEN <<>>
                                         ELSE c[i - 1] \o Images!Ewf!ChunksUpTo(segments[i])]
           Secs(i) == {segments[i][k] : k \in {k \in DOMAIN segments[i] : segments[i][k].type = "table"}}
           A == UNION {UNION {Images!Bytes(sec.chunks) : sec \in Secs(i)} : i \in 1..n}
           c == CHOOSE c : IsC(c)
<1>1. n \in Nat /\ DOMAIN segments = 1..n
  BY DEF Images!EwfMadeFrom
<1>2. \A f : IsC(f) <=> IsJoined(f, g, n)
  <2> TAKE f
  <2> DEFINE x == [k \in 0..n |-> IF k = 0 THEN <<>>
                                  ELSE f[k - 1] \o Images!Ewf!ChunksUpTo(segments[k])]
             y == [k \in 0..n |-> IF k = 0 THEN <<>> ELSE f[k - 1] \o g[k]]
  <2>1. (IsC(f) <=> f = x) /\ (IsJoined(f, g, n) <=> f = y)
    BY DEF IsJoined
  <2>2. \A k \in 0..n : k # 0 => g[k] = Images!Ewf!ChunksUpTo(segments[k])
    BY <1>1
  <2>3. x = y
    <3> HIDE DEF g
    <3> QED BY <2>2
  <2> HIDE DEF x, y
  <2> QED BY <2>1, <2>3
<1>3. ASSUME NEW i \in 1..n PROVE g[i] \in Seq(A)
  <2>1. segments[i] \in Seq(Images!Bytes(segments[i]))
    BY <1>1 DEF Images!EwfMadeFrom
  <2>2. Len(segments[i]) \in Nat /\ DOMAIN segments[i] = 1..Len(segments[i])
    BY <2>1
  <2>3. ASSUME NEW k \in 1..Len(segments[i]), segments[i][k].type = "table" PROVE segments[i][k].chunks \in Seq(A)
    <3>1. segments[i][k].chunks \in Seq(Images!Bytes(segments[i][k].chunks))
      BY <1>1, <2>2, <2>3 DEF Images!EwfMadeFrom
    <3>2. Images!Bytes(segments[i][k].chunks) \subseteq A
      BY <2>2, <2>3
    <3> HIDE DEF A
    <3> QED BY <3>1, <3>2
  <2> HIDE DEF A
  <2> QED BY <2>2, <2>3, UpToType
<1> HIDE DEF A, IsC, g, c
<1>4. IsJoined(c, g, n)
  <2>1. \E f : IsC(f)
    BY <1>1, <1>2, JoinedExists
  <2>2. IsC(c)
    BY <2>1 DEF c
  <2> QED BY <1>2, <2>2
<1>5. \A i \in 0..n : Images!Chunks(m, i) = c[i]
  BY DEF Images!Chunks, c, IsC
<1>6. c[s] \in Seq(A)
  BY <1>1, <1>3, <1>4, JoinedType
<1>7. c[s] \in Seq(Images!Bytes(c[s]))
  BY <1>6 DEF Images!Bytes
<1>8. s = 0 => c[s] = <<>>
  BY <1>1, <1>4 DEF IsJoined
<1>9. s # 0 => s - 1 \in 0..n /\ c[s] = c[s - 1] \o Images!Ewf!ChunksUpTo(segments[s])
  <2>1. s # 0 => s \in 1..n /\ s - 1 \in 0..n /\ g[s] = Images!Ewf!ChunksUpTo(segments[s])
    BY <1>1 DEF g
  <2> QED BY <1>4, <2>1 DEF IsJoined
<1> QED BY <1>5, <1>7, <1>8, <1>9

LEMMA MapType ==
    ASSUME CallOK, EwfMap, Images!IsEwf, stage \in {"segments", "ready"}
    PROVE  /\ chunkMap \in Seq(Images!Bytes(chunkMap)) /\ Len(chunkMap) \in Nat
           /\ \A k \in 1..Len(chunkMap) : Images!ChunkOf(made, chunkMap[k], k - 1)
<1>1. chunkMap \in Seq(Images!Bytes(chunkMap)) /\ \A k \in DOMAIN chunkMap : Images!ChunkOf(made, chunkMap[k], k - 1)
  BY MadeOfSegments, ChunksAre DEF EwfMap, Images!EwfMadeFrom
<1> QED BY <1>1

\* What loadChunk gets: the disk's bytes, and the rest of the chunk is lost.
LEMMA LoadedIsTrue ==
    ASSUME CallOK, EwfMap, Images!IsEwf, stage = "ready", NEW k \in 0..(Len(chunkMap) - 1),
           k * ChunkSize < total, NEW chunk, chunk = Images!Ewf!Loaded(k)
    PROVE  /\ \E S : chunk \in Seq(S)
           /\ Len(chunk) <= ChunkSize
           /\ \A j \in 0..(ChunkSize - 1) : k * ChunkSize + j < total =>
                IF j < Len(chunk) THEN TrueByte(k * ChunkSize + j, chunk[j + 1]) ELSE k * ChunkSize + j \in made.cut
<1> DEFINE c == chunkMap[k + 1]
           n == Images!Ewf!Smaller(ChunkSize, total - k * ChunkSize)
<1>1. /\ chunk = IF c.compressed THEN c.bytes ELSE [i \in 1..n |-> IF i <= c.have THEN c.bytes[i] ELSE Zero]
      /\ total = Len(made.disk) /\ total \in Nat
  BY DiskType DEF Images!Ewf!Loaded, EwfMap
<1>2. Len(chunkMap) \in Nat /\ Images!ChunkOf(made, c, k)
  BY MapType
<1>3. /\ c.bytes \in Seq(Images!Bytes(c.bytes)) /\ Len(c.bytes) <= ChunkSize /\ c.have \in 0..Len(c.bytes)
      /\ c.compressed \in BOOLEAN
      /\ \A j \in 0..(ChunkSize - 1) : k * ChunkSize + j \in Images!Offsets(made) =>
           IF j < Len(c.bytes) /\ (c.compressed \/ j < c.have)
           THEN c.bytes[j + 1] = made.disk[k * ChunkSize + j + 1] ELSE k * ChunkSize + j \in made.cut
  BY <1>2 DEF Images!ChunkOf
<1>4. k * ChunkSize \in Nat /\ ChunkSize \in Nat
  BY <1>2, Sizes
<1>5. \A j \in 0..(ChunkSize - 1) : k * ChunkSize + j < total => k * ChunkSize + j \in Images!Offsets(made)
  BY <1>1, <1>4 DEF Images!Offsets
<1>6. CASE c.compressed
  <2>1. chunk = c.bytes
    BY <1>1, <1>6
  <2> HIDE DEF c
  <2> QED BY <1>3, <1>5, <1>6, <2>1 DEF TrueByte
<1>7. CASE ~c.compressed
  <2>1. n \in Nat /\ n <= ChunkSize /\ \A j \in 0..(ChunkSize - 1) : k * ChunkSize + j < total => j < n
    <3> DEFINE m == k * ChunkSize
    <3>1. m \in Nat /\ ChunkSize \in Nat /\ total \in Nat /\ m < total
      BY <1>1, <1>4
    <3>2. n = IF ChunkSize < total - m THEN ChunkSize ELSE total - m
      BY DEF Images!Ewf!Smaller
    <3> HIDE DEF m, n
    <3>3. n \in Nat /\ n <= ChunkSize /\ \A j \in 0..(ChunkSize - 1) : m + j < total => j < n
      BY <3>1, <3>2
    <3> QED BY <3>3 DEF m
  <2>2. chunk = [i \in 1..n |-> IF i <= c.have THEN c.bytes[i] ELSE Zero]
    BY <1>1, <1>7
  <2> HIDE DEF c, n
  <2>3. chunk \in Seq({c.bytes[i] : i \in 1..c.have} \cup {Zero}) /\ Len(chunk) = n
    BY <1>3, <2>1, <2>2
  <2>4. ASSUME NEW j \in 0..(ChunkSize - 1), k * ChunkSize + j < total
        PROVE  j < Len(chunk) /\ TrueByte(k * ChunkSize + j, chunk[j + 1])
    <3>1. j < n /\ chunk[j + 1] = IF j + 1 <= c.have THEN c.bytes[j + 1] ELSE Zero
      BY <2>1, <2>2, <2>4
    <3>2. j + 1 <= c.have <=> j < c.have
      BY <1>3
    <3>3. IF j < c.have THEN c.bytes[j + 1] = made.disk[k * ChunkSize + j + 1] ELSE k * ChunkSize + j \in made.cut
      BY <1>3, <1>5, <1>7, <2>4
    <3> QED BY <2>3, <3>1, <3>2, <3>3 DEF TrueByte
  <2> QED BY <2>1, <2>3, <2>4
<1> HIDE DEF c
<1> QED BY <1>3, <1>6, <1>7

\* What ReadAt copies of a chunk; a chunk that ends before the offset has lost the rest.
LEMMA EwfDelivers ==
    ASSUME CallOK, EwfMap, Images!IsEwf, Images!Ewf!Reading, Images!Ewf!Cur < Images!Ewf!End,
           Images!Ewf!Idx < Len(chunkMap), NEW chunk, chunk = Images!Ewf!Loaded(Images!Ewf!Idx),
           Images!Ewf!Deliver(chunk), UNCHANGED <<made, image, ask>>
    PROVE  CallOK' /\ (Images!Contract!Next \/ UNCHANGED <<made, ask, ans>>)
<1> DEFINE cur == ask.off + Len(out)
           idx == cur \div ChunkSize
           before == idx * ChunkSize
           within == cur - before
           fin == Images!Ewf!Smaller(ask.off + ask.len, total)
<1>1. /\ ask.off \in Nat /\ ask.len \in Nat /\ Len(out) \in Nat /\ ans = None /\ ask # None /\ stage = "ready"
      /\ total = Len(made.disk) /\ total \in Nat /\ ChunkSize \in Nat \ {0}
  BY AskType, DiskType, Sizes DEF Images!Ewf!Reading, EwfMap
<1>2. /\ fin <= total /\ fin <= ask.off + ask.len /\ cur < fin /\ cur \in Nat /\ fin \in Nat
  BY <1>1 DEF Images!Ewf!Smaller, Images!Ewf!Cur, Images!Ewf!End
<1>3. idx \in Nat /\ before \in Nat /\ within \in 0..(ChunkSize - 1) /\ before + within = cur
  <2> HIDE DEF cur
  <2>1. idx \in Nat /\ cur % ChunkSize \in 0..(ChunkSize - 1) /\ cur = before + (cur % ChunkSize)
    BY <1>1, <1>2, DivMod
  <2> HIDE DEF idx
  <2>2. before \in Nat
    BY <1>1, <2>1
  <2> HIDE DEF before
  <2> QED BY <1>2, <2>1, <2>2
<1>4. idx \in 0..(Len(chunkMap) - 1)
  BY <1>1, <1>3, MapType DEF Images!Ewf!Idx, Images!Ewf!Cur
<1>5. chunk = Images!Ewf!Loaded(idx)
  BY DEF Images!Ewf!Idx, Images!Ewf!Cur
<1>6. before < total
  <2> HIDE DEF cur, before, fin
  <2> QED BY <1>1, <1>2, <1>3
<1>7. /\ \E S : chunk \in Seq(S)
      /\ Len(chunk) <= ChunkSize
      /\ \A j \in 0..(ChunkSize - 1) : before + j < total =>
           IF j < Len(chunk) THEN TrueByte(before + j, chunk[j + 1]) ELSE before + j \in made.cut
  <2> HIDE DEF idx
  <2> QED BY <1>1, <1>4, <1>5, <1>6, LoadedIsTrue
<1>8. \/ within < Len(chunk) /\ out' = out \o Images!Ewf!Copied(chunk) /\ UNCHANGED ans
      \/ within = Len(chunk) /\ ans' = [bytes |-> out, err |-> "eof"] /\ UNCHANGED out
      \/ UNCHANGED <<out, ans>>
  BY DEF Images!Ewf!Deliver, Images!Ewf!Within, Images!Ewf!Idx, Images!Ewf!Cur, Images!Ewf!Reply
<1> DEFINE m == Images!Ewf!Smaller(Len(chunk) - within, fin - cur)
<1>9. Images!Ewf!Copied(chunk) = SubSeq(chunk, within + 1, within + m)
  BY DEF Images!Ewf!Copied, Images!Ewf!Within, Images!Ewf!Idx, Images!Ewf!Cur, Images!Ewf!End
<1>10. cur = ask.off + Len(out)
  OBVIOUS
<1> HIDE DEF cur, idx, before, within, fin
<1>11. CASE within < Len(chunk) /\ out' = out \o Images!Ewf!Copied(chunk) /\ UNCHANGED ans
  <2>1. PICK S : chunk \in Seq(S)
    BY <1>7
  <2>2. m \in Nat /\ within + m <= Len(chunk) /\ cur + m <= fin /\ Len(chunk) \in Nat
    BY <1>2, <1>3, <1>11, <2>1 DEF Images!Ewf!Smaller
  <2> HIDE DEF m
  <2> DEFINE b == SubSeq(chunk, within + 1, within + m)
  <2>3. b \in Seq(S) /\ Len(b) = m /\ \A i \in 1..m : b[i] = chunk[within + i]
    <3>1. within \in Nat
      BY <1>3
    <3> QED BY <2>1, <2>2, <3>1
  <2>4. ASSUME NEW i \in 1..Len(b) PROVE TrueByte(cur + i - 1, b[i])
    <3>1. within + i - 1 \in 0..(ChunkSize - 1) /\ within + i - 1 < Len(chunk) /\ before + (within + i - 1) < total
      BY <1>1, <1>2, <1>3, <1>7, <2>2, <2>3
    <3>2. TrueByte(before + (within + i - 1), chunk[(within + i - 1) + 1])
      BY <1>7, <3>1
    <3>3. before + (within + i - 1) = cur + i - 1 /\ (within + i - 1) + 1 = within + i
      BY <1>2, <1>3, <2>2, <2>3
    <3> QED BY <2>3, <3>2, <3>3
  <2>5. b = Images!Ewf!Copied(chunk)
    BY <1>9
  <2> HIDE DEF b
  <2>6. Len(out) + Len(b) <= ask.len /\ ask.off + Len(out) + Len(b) <= Len(made.disk)
    <3>1. Len(b) = m /\ m \in Nat /\ fin <= total /\ fin <= ask.off + ask.len /\ cur + m <= fin
      BY <1>2, <2>2, <2>3
    <3> QED BY <1>1, <1>2, <1>10, <3>1, SMTT(30)
  <2>7. \A i \in 1..Len(b) : TrueByte(ask.off + Len(out) + i - 1, b[i])
    BY <1>10, <2>4
  <2> QED BY <1>1, <1>11, <2>3, <2>5, <2>6, <2>7, CallGrows
<1>12. CASE within = Len(chunk) /\ ans' = [bytes |-> out, err |-> "eof"] /\ UNCHANGED out
  <2>1. cur \in made.cut
    <3>1. before + within < total /\ ~ (within < Len(chunk))
      BY <1>1, <1>2, <1>3, <1>12
    <3> QED BY <1>3, <1>7, <3>1
  <2>2. CallOK'
    BY <1>12 DEF CallOK, TrueBytes, TrueByte, Byte, Images!Bytes, Images!IsEwf
  <2>3. TrueBytes(ask.off, out) /\ Len(out) <= ask.len
    BY <1>1 DEF CallOK
  <2> QED BY <1>1, <1>10, <1>12, <2>1, <2>2, <2>3, CallAnswers
<1>13. CASE UNCHANGED <<out, ans>>
  BY <1>13, SMTT(30) DEF CallOK, TrueBytes, TrueByte, Byte, Images!Bytes, Images!IsEwf
<1> QED BY <1>8, <1>11, <1>12, <1>13

\* The size that Open takes from a segment is the disk's.
LEMMA SizeIsTheDisk ==
    ASSUME CallOK, EwfMap, Images!IsEwf, stage = "segments", NEW s \in DOMAIN image.segments
    PROVE  Images!Ewf!SizeFrom(image.segments[s]) \in {0, Len(made.disk)}
<1> DEFINE secs == image.segments[s]
           V == {k \in Images!Ewf!Read(secs) : secs[k].type \in {"volume", "disk"} /\ secs[k].size > 0}
           first == CHOOSE k \in V : \A j \in V : k <= j
<1>1. total \in {0, Len(made.disk)}
  BY DEF EwfMap
<1>2. secs \in Seq(Images!Bytes(secs)) /\ image = made.file
  BY MadeOfSegments DEF Images!EwfMadeFrom
<1>3. \A i \in DOMAIN secs : secs[i].type \in {"volume", "disk"} => secs[i].size \in {0, Len(made.disk)}
  BY MadeOfSegments DEF Images!EwfMadeFrom
<1>4. V \subseteq DOMAIN secs /\ V \subseteq Nat
  BY <1>2, SMTT(30) DEF Images!Ewf!Read
<1>5. ASSUME V # {} PROVE secs[first].size \in {0, Len(made.disk)}
  <2>1. PICK k \in V : \A j \in V : <<j, k>> \notin OpToRel(<, Nat)
    <3> HIDE DEF V
    <3> QED BY <1>4, <1>5, WFMin, NatLessThanWellFounded, Zenon
  <2>2. \A j \in V : ~ (j < k)
    <3> HIDE DEF V
    <3> QED BY <1>4, <2>1, Zenon DEF OpToRel
  <2>3. \A j \in V : k <= j
    BY <1>4, <2>2
  <2>4. first \in V
    <3> HIDE DEF V
    <3> QED BY <2>3
  <2> QED BY <1>3, <1>4, <2>4
<1>6. Images!Ewf!SizeFrom(secs) = IF total # 0 \/ V = {} THEN total ELSE secs[first].size
  BY DEF Images!Ewf!SizeFrom
<1> QED BY <1>1, <1>5, <1>6

\* A segment's chunks follow those of the segments before.
LEMMA MapGrows ==
    ASSUME CallOK, EwfMap, Images!IsEwf, stage = "segments", NEW s, s = seg + 1, s \in DOMAIN image.segments
    PROVE  /\ chunkMap \o Images!Ewf!ChunksUpTo(image.segments[s]) = Images!Chunks(made, s)
           /\ s \in 0..Len(image.segments)
<1>1. image = made.file /\ image.segments \in Seq(Images!Bytes(image.segments))
  BY MadeOfSegments
<1>2. seg \in 0..Len(image.segments) /\ chunkMap = Images!Chunks(made, seg)
  BY DEF EwfMap
<1>3. s - 1 = seg /\ s \in 0..Len(image.segments)
  BY <1>1, <1>2
<1>4. Images!Chunks(made, s) = Images!Chunks(made, s - 1) \o Images!Ewf!ChunksUpTo(image.segments[s])
  <2>1. s # 0 /\ Images!EwfMadeFrom(made)
    BY <1>1, MadeOfSegments
  <2> QED BY <1>1, <1>3, <2>1, ChunksAre
<1> QED BY <1>2, <1>3, <1>4

\* The steps that copy nothing.
LEMMA CallStays ==
    ASSUME CallOK, UNCHANGED <<made, image>>,
           \/ ask' = None \/ UNCHANGED <<ask, out>>
           \/ ask' \in (IF Images!IsEwf THEN EwfRequests ELSE VmdkRequests) /\ out' = <<>>
    PROVE  CallOK'
<1>1. /\ made' = made /\ image' = image /\ (Images!IsEwf' <=> Images!IsEwf)
      /\ Byte' = Byte /\ \A p, x : TrueByte(p, x)' <=> TrueByte(p, x)
  BY DEF Byte, TrueByte, Images!Bytes, Images!IsEwf
<1>2. CASE ask' = None
  BY <1>1, <1>2 DEF CallOK
<1>3. CASE UNCHANGED <<ask, out>>
  BY <1>1, <1>3 DEF CallOK, TrueBytes
<1>4. CASE ask' \in (IF Images!IsEwf THEN EwfRequests ELSE VmdkRequests) /\ out' = <<>>
  <2>1. ask'.len \in Nat
    BY <1>4, Sizes
  <2>2. TrueBytes(ask.off, out)' /\ Len(out') = 0
    BY <1>4 DEF TrueBytes
  <2> QED BY <1>1, <1>4, <2>1, <2>2 DEF CallOK
<1> QED BY <1>2, <1>3, <1>4

LEMMA MapStays ==
    ASSUME EwfMap, UNCHANGED <<made, image, seg, total, chunkMap, keys>>,
           stage' = stage \/ stage' = "refused" \/ (stage = "ready" /\ stage' = "panicked")
    PROVE  EwfMap'
BY DEF EwfMap, Images!Chunks, Images!Ewf!Slot

LEMMA EwfSteps ==
    ASSUME CallOK, EwfMap, EwfCache, Images!IsEwf, Images!Ewf!Next, UNCHANGED made
    PROVE  CallOK' /\ EwfMap' /\ (Images!Contract!Next \/ UNCHANGED <<made, ask, ans>>)
<1>0. image' = image /\ Images!IsEwf'
  BY DEF Images!Ewf!Next, Images!Ewf!ParseSegment, Images!Ewf!Opened, Images!Ewf!ReadAt, Images!Ewf!Outside,
     Images!Ewf!FromCache, Images!Ewf!FromSegment, Images!Ewf!ChunkFails, Images!Ewf!Return, Images!Ewf!Taken, Images!IsEwf
<1>1. CASE Images!Ewf!ParseSegment
  <2>1. /\ stage = "segments" /\ seg < Len(image.segments) /\ seg' = seg + 1 /\ UNCHANGED <<keys, ask, ans, out>>
        /\ \/ stage' = "refused" /\ UNCHANGED <<total, chunkMap>>
           \/ /\ stage' = stage /\ total' = Images!Ewf!SizeFrom(image.segments[seg + 1])
              /\ chunkMap' = chunkMap \o Images!Ewf!ChunksUpTo(image.segments[seg + 1])
    BY <1>1 DEF Images!Ewf!ParseSegment, Images!Ewf!cache
  <2>2. CallOK'
    BY <1>0, <2>1, CallStays
  <2>3. \A s \in Images!Ewf!Slot : keys'[s] = -1
    BY <2>1 DEF EwfCache
  <2>4. CASE stage' = "refused" /\ UNCHANGED <<total, chunkMap>>
    BY <2>1, <2>2, <2>3, <2>4 DEF EwfMap, Images!Ewf!Slot
  <2>5. CASE stage' = stage /\ total' = Images!Ewf!SizeFrom(image.segments[seg + 1])
             /\ chunkMap' = chunkMap \o Images!Ewf!ChunksUpTo(image.segments[seg + 1])
    <3>1. seg + 1 \in DOMAIN image.segments
      BY <2>1, MadeOfSegments DEF EwfMap
    <3>2. total' \in {0, Len(made.disk)} /\ chunkMap' = Images!Chunks(made, seg + 1) /\ seg + 1 \in 0..Len(image.segments)
      BY <2>1, <2>5, <3>1, SizeIsTheDisk, MapGrows
    <3> QED BY <1>0, <2>1, <2>2, <2>3, <2>5, <3>2 DEF EwfMap, Images!Ewf!Slot, Images!Chunks
  <2> QED BY <2>1, <2>2, <2>4, <2>5
<1>2. CASE Images!Ewf!Opened
  <2>1. /\ stage = "segments" /\ UNCHANGED <<seg, total, chunkMap, keys, ask, ans, out>>
        /\ stage' = "refused" \/ (stage' = "ready" /\ total # 0)
    BY <1>2 DEF Images!Ewf!Opened, Images!Ewf!cache
  <2>2. CallOK'
    BY <1>0, <2>1, CallStays
  <2> QED BY <1>0, <2>1, <2>2 DEF EwfMap, Images!Chunks, Images!Ewf!Slot
<1>3. CASE \E r \in EwfRequests : Images!Ewf!ReadAt(r)
  <2>1. /\ ask = None /\ ask' \in EwfRequests /\ out' = <<>> /\ UNCHANGED <<stage, seg, total, chunkMap, keys, ans>>
    BY <1>3 DEF Images!Ewf!ReadAt, Images!Ewf!open, Images!Ewf!cache
  <2>2. CallOK' /\ EwfMap'
    BY <1>0, <2>1, CallStays, MapStays
  <2>3. Images!Contract!Next
    BY <1>0, <2>1 DEF Images!Contract!Next, Images!Contract!Ask
  <2> QED BY <2>2, <2>3
<1>4. CASE Images!Ewf!Outside
  <2>1. /\ ask # None /\ ans = None /\ out = <<>> /\ UNCHANGED <<stage, seg, total, chunkMap, keys, ask, out>>
        /\ \/ ans' = [bytes |-> <<>>, err |-> "err"]
           \/ ask.off >= total /\ ans' = [bytes |-> <<>>, err |-> "eof"]
    BY <1>4 DEF Images!Ewf!Outside, Images!Ewf!Reply, Images!Ewf!open, Images!Ewf!cache
  <2>2. CallOK' /\ EwfMap'
    BY <1>0, <2>1, CallStays, MapStays
  <2>3. total = Len(made.disk) /\ total \in Nat
    BY <2>1, DiskType DEF EwfMap, EwfCache
  <2>4. TrueBytes(ask.off, out) /\ Len(out) = 0 /\ ask.off \in Int /\ ask.len \in Nat
    BY <2>1, AskType DEF CallOK
  <2>5. ask.off >= total => ask.off + Len(out) >= Len(made.disk)
    BY <2>3, <2>4
  <2>6. Images!Contract!Next
    BY <2>1, <2>4, <2>5, CallAnswers
  <2> QED BY <2>2, <2>6
<1>5. CASE Images!Ewf!FromCache
  <2>1. PICK s \in Images!Ewf!Slot : keys[s] = Images!Ewf!Idx /\ Images!Ewf!Deliver(data[s])
    BY <1>5 DEF Images!Ewf!FromCache, Images!Ewf!Hits
  <2>2. /\ Images!Ewf!Reading /\ Images!Ewf!Cur < Images!Ewf!End /\ UNCHANGED <<seg, total, chunkMap, keys, ask>>
        /\ stage = "ready" /\ stage' \in {"ready", "panicked"}
    BY <1>5 DEF Images!Ewf!FromCache, Images!Ewf!cache, Images!Ewf!Reading, Images!Ewf!Deliver
  <2>3. Images!Ewf!Idx \in Nat
    <3>1. ask.off \in Nat /\ Len(out) \in Nat /\ ChunkSize \in Nat \ {0}
      BY <2>2, AskType, Sizes DEF Images!Ewf!Reading
    <3> QED BY <3>1, DivMod DEF Images!Ewf!Idx, Images!Ewf!Cur
  <2>4. keys[s] # -1
    BY <2>1, <2>3
  <2>5. data[s] = Images!Ewf!Loaded(Images!Ewf!Idx) /\ Images!Ewf!Idx < Len(chunkMap)
    BY <2>1, <2>2, <2>4, MapType DEF EwfCache, Images!Ewf!CacheIsTrue, EwfMap
  <2>6. CallOK' /\ (Images!Contract!Next \/ UNCHANGED <<made, ask, ans>>)
    BY <1>0, <2>1, <2>2, <2>5, EwfDelivers
  <2>7. EwfMap'
    BY <1>0, <2>2, MapStays
  <2> QED BY <2>6, <2>7
<1>6. CASE Images!Ewf!FromSegment
  <2>1. /\ Images!Ewf!Reading /\ Images!Ewf!Cur < Images!Ewf!End /\ Images!Ewf!Idx < Len(chunkMap)
        /\ Images!Ewf!Store(Images!Ewf!Idx, Images!Ewf!Loaded(Images!Ewf!Idx))
        /\ Images!Ewf!Deliver(Images!Ewf!Loaded(Images!Ewf!Idx)) /\ UNCHANGED <<seg, total, chunkMap, ask>>
        /\ stage = "ready" /\ stage' \in {"ready", "panicked"}
    BY <1>6 DEF Images!Ewf!FromSegment, Images!Ewf!Reading, Images!Ewf!Deliver
  <2>2. CallOK' /\ (Images!Contract!Next \/ UNCHANGED <<made, ask, ans>>)
    BY <1>0, <2>1, EwfDelivers
  <2>3. Images!Ewf!Idx \in Nat
    <3>1. ask.off \in Nat /\ Len(out) \in Nat /\ ChunkSize \in Nat \ {0}
      BY <2>1, AskType, Sizes DEF Images!Ewf!Reading
    <3> QED BY <3>1, DivMod DEF Images!Ewf!Idx, Images!Ewf!Cur
  <2>4. \A s \in Images!Ewf!Slot : keys'[s] # -1 => keys'[s] \in 0..(Len(chunkMap) - 1)
    BY <2>1, <2>3, MapType DEF Images!Ewf!Store, EwfMap, EwfCache
  <2>5. EwfMap'
    BY <1>0, <2>1, <2>4 DEF EwfMap, Images!Chunks, Images!Ewf!Slot
  <2> QED BY <2>2, <2>5
<1>7. CASE Images!Ewf!ChunkFails
  <2>1. /\ ask # None /\ ans = None /\ UNCHANGED <<stage, seg, total, chunkMap, keys, ask, out>>
        /\ ans' = [bytes |-> out, err |-> "err"]
    BY <1>7 DEF Images!Ewf!ChunkFails, Images!Ewf!Reply, Images!Ewf!open, Images!Ewf!cache, Images!Ewf!Reading
  <2>2. CallOK' /\ EwfMap'
    BY <1>0, <2>1, CallStays, MapStays
  <2>3. TrueBytes(ask.off, out) /\ Len(out) <= ask.len
    BY <2>1 DEF CallOK
  <2> QED BY <2>1, <2>2, <2>3, CallAnswers
<1>8. CASE Images!Ewf!Return
  <2>1. /\ ask # None /\ ans = None /\ UNCHANGED <<stage, seg, total, chunkMap, keys, ask, out>> /\ stage = "ready"
        /\ ask.off >= 0 /\ Images!Ewf!Cur >= Images!Ewf!End
        /\ ans' = [bytes |-> out, err |-> IF Images!Ewf!Cur < ask.off + ask.len THEN "eof" ELSE "nil"]
    BY <1>8 DEF Images!Ewf!Return, Images!Ewf!Reply, Images!Ewf!open, Images!Ewf!cache, Images!Ewf!Reading
  <2>2. CallOK' /\ EwfMap'
    BY <1>0, <2>1, CallStays, MapStays
  <2>3. TrueBytes(ask.off, out) /\ Len(out) <= ask.len
    BY <2>1 DEF CallOK
  <2>4. total = Len(made.disk) /\ total \in Nat /\ ask.off \in Nat /\ ask.len \in Nat /\ Len(out) \in Nat
    BY <2>1, DiskType, AskType DEF EwfMap
  <2>5. IF Images!Ewf!Cur < ask.off + ask.len THEN ask.off + Len(out) >= Len(made.disk) ELSE Len(out) = ask.len
    BY <2>1, <2>3, <2>4 DEF Images!Ewf!Cur, Images!Ewf!End, Images!Ewf!Smaller
  <2> QED BY <2>1, <2>2, <2>3, <2>5, CallAnswers
<1>9. CASE Images!Ewf!Taken
  <2>1. /\ ans # None /\ ask' = None /\ ans' = None /\ UNCHANGED <<stage, seg, total, chunkMap, keys>>
    BY <1>9 DEF Images!Ewf!Taken, Images!Ewf!open, Images!Ewf!cache
  <2>2. CallOK' /\ EwfMap'
    BY <1>0, <2>1, CallStays, MapStays
  <2> QED BY <1>0, <2>1, <2>2 DEF Images!Contract!Next, Images!Contract!Take
<1> QED BY <1>1, <1>2, <1>3, <1>4, <1>5, <1>6, <1>7, <1>8, <1>9 DEF Images!Ewf!Next

-----------------------------------------------------------------------------
(* The VMDK reader. *)

\* The index of a stream: the last block of each grain before the end of the stream.
GrainAt(k, g) == image.blocks[k].type = "grain" /\ image.blocks[k].grain = g
VmdkIndex ==
    image.kind = "stream" =>
      /\ scan \in 0..Len(image.blocks)
      /\ \A k \in 1..scan : image.blocks[k].type \notin {"eos", "footer"}
      /\ stage \in {"ready", "panicked"} => Images!Vmdk!Scanned
      /\ \A k \in 1..scan : image.blocks[k].type = "grain" => image.blocks[k].grain \in DOMAIN index
      /\ \A g \in DOMAIN index : /\ index[g] \in 1..scan /\ GrainAt(index[g], g)
                                 /\ \A k \in 1..scan : GrainAt(k, g) => k <= index[g]
      /\ \A g \in DOMAIN grains : grains[g] # None

LEMMA MadeOfGrains ==
    ASSUME CallOK, ~Images!IsEwf
    PROVE  /\ Images!VmdkMadeFrom(made) /\ image = made.file /\ image.size = Len(made.disk)
           /\ image.kind = "stream" => Images!StreamMadeFrom(made) /\ Len(image.blocks) \in Nat
           /\ image.kind # "stream" => Images!SparseMadeFrom(made)
<1>1. Images!VmdkMadeFrom(made) /\ image = made.file
  BY DecoderAssumptions DEF CallOK, Images!ImageAssumption, Images!IsEwf
<1> QED BY <1>1 DEF Images!VmdkMadeFrom, Images!StreamMadeFrom

\* A byte of a stream's disk, in terms of the index.
LEMMA StreamByte ==
    ASSUME CallOK, VmdkIndex, ~Images!IsEwf, image.kind = "stream", stage = "ready",
           NEW p \in Images!Offsets(made), NEW g, g = p \div GrainSize
    PROVE  /\ g \notin DOMAIN index => made.disk[p + 1] = Zero
           /\ \A b : g \in DOMAIN index /\ b = image.blocks[index[g]].bytes /\ b # None =>
                made.disk[p + 1] = IF p % GrainSize < Len(b) THEN b[(p % GrainSize) + 1] ELSE Zero
<1>1. image = made.file /\ Images!StreamMadeFrom(made) /\ Len(image.blocks) \in Nat /\ DOMAIN image.blocks = 1..Len(image.blocks)
  BY MadeOfGrains DEF Images!StreamMadeFrom
<1>2. scan \in 0..Len(image.blocks) /\ (scan < Len(image.blocks) => image.blocks[scan + 1].type \in {"eos", "footer"})
  BY DEF VmdkIndex, Images!Vmdk!Scanned, Images!Vmdk!Block
<1>3. \A k : k \in Images!GrainBlocks(made, g) <=> k \in 1..scan /\ GrainAt(k, g)
  <2>1. ASSUME NEW k, k \in Images!GrainBlocks(made, g) PROVE k \in 1..scan /\ GrainAt(k, g)
    <3>1. k \in 1..Len(image.blocks) /\ GrainAt(k, g) /\ \A j \in 1..k : image.blocks[j].type \notin {"eos", "footer"}
      BY <1>1, <2>1 DEF Images!GrainBlocks, GrainAt
    <3>2. ~ (k > scan)
      <4> SUFFICES ASSUME k > scan PROVE FALSE
        OBVIOUS
      <4>1. scan + 1 \in 1..k /\ scan < Len(image.blocks)
        BY <1>1, <1>2, <3>1
      <4> QED BY <1>2, <3>1, <4>1
    <3> QED BY <1>1, <1>2, <3>1, <3>2
  <2>2. ASSUME NEW k, k \in 1..scan, GrainAt(k, g) PROVE k \in Images!GrainBlocks(made, g)
    <3>1. k \in 1..Len(image.blocks) /\ \A j \in 1..k : j \in 1..scan
      BY <1>1, <1>2, <2>2
    <3>2. \A j \in 1..k : image.blocks[j].type \notin {"eos", "footer"}
      BY <3>1 DEF VmdkIndex
    <3> QED BY <1>1, <2>2, <3>1, <3>2 DEF Images!GrainBlocks, GrainAt
  <2> QED BY <2>1, <2>2
<1>4. /\ Images!GrainBlocks(made, g) = {} => made.disk[p + 1] = Zero
      /\ \A k \in Images!GrainBlocks(made, g) :
           (\A j \in Images!GrainBlocks(made, g) : j <= k) /\ image.blocks[k].bytes # None =>
             made.disk[p + 1] = IF p % GrainSize < Len(image.blocks[k].bytes)
                                THEN image.blocks[k].bytes[(p % GrainSize) + 1] ELSE Zero
  BY <1>1 DEF Images!StreamMadeFrom
<1>5. CASE g \notin DOMAIN index
  <2>1. \A k \in 1..scan : ~GrainAt(k, g)
    BY <1>5 DEF VmdkIndex, GrainAt
  <2> QED BY <1>3, <1>4, <1>5, <2>1
<1>6. CASE g \in DOMAIN index
  <2>1. index[g] \in 1..scan /\ GrainAt(index[g], g) /\ \A k \in 1..scan : GrainAt(k, g) => k <= index[g]
    BY <1>6 DEF VmdkIndex
  <2>2. index[g] \in Images!GrainBlocks(made, g) /\ \A j \in Images!GrainBlocks(made, g) : j <= index[g]
    BY <1>3, <2>1
  <2> QED BY <1>4, <1>6, <2>2
<1> QED BY <1>5, <1>6

\* Bytes from c that do not leave its block of n.
LEMMA WithinOne ==
    ASSUME NEW n \in Nat \ {0}, NEW c \in Nat, NEW w \in Nat, w <= n - (c % n), NEW i \in 1..w
    PROVE  (c + i - 1) \div n = c \div n /\ (c + i - 1) % n = (c % n) + i - 1
<1> DEFINE g == c \div n
           d == c % n
<1>1. g \in Nat /\ d \in 0..(n - 1) /\ c = g * n + d
  BY DivMod
<1> HIDE DEF g, d
<1>2. w <= n - d
  BY DEF d
<1>3. (c + i - 1) \div n = g /\ (c + i - 1) % n = d + i - 1
  <2> DEFINE p == c + i - 1
             q == p \div n
             r == p % n
             z == g * n
  <2>1. p \in Nat /\ d + i - 1 \in 0..(n - 1)
    BY <1>1, <1>2
  <2>2. q \in Nat /\ r \in 0..(n - 1) /\ p = q * n + r
    <3> HIDE DEF p
    <3> QED BY <2>1, DivMod
  <2>3. p = z + (d + i - 1)
    <3>1. z \in Nat
      BY <1>1
    <3>2. c = z + d
      BY <1>1
    <3> HIDE DEF z
    <3> QED BY <1>1, <3>1, <3>2
  <2> HIDE DEF p, q, r
  <2>4. q * n + r = g * n + (d + i - 1)
    BY <2>2, <2>3
  <2> HIDE DEF z
  <2>5. q = g /\ r = d + i - 1
    BY <1>1, <2>1, <2>2, <2>4, DivUnique
  <2> QED BY <2>5 DEF p, q, r
<1> QED BY <1>3 DEF g, d

\* One turn stays inside a grain, the request and the disk.
LEMMA TurnInGrain ==
    ASSUME CallOK, ~Images!IsEwf, Images!Vmdk!Turn
    PROVE  /\ ask # None /\ ans = None /\ stage = "ready" /\ ask.off \in Nat /\ ask.len \in Nat /\ Len(out) \in Nat
           /\ Images!Vmdk!Want \in Nat \ {0} /\ Images!Vmdk!InGrain \in Nat
           /\ Len(out) + Images!Vmdk!Want <= ask.len /\ ask.off + Len(out) + Images!Vmdk!Want <= Len(made.disk)
           /\ \A i \in 1..Images!Vmdk!Want :
                /\ ask.off + Len(out) + i - 1 \in Images!Offsets(made)
                /\ (ask.off + Len(out) + i - 1) \div GrainSize = Images!Vmdk!Grain
                /\ (ask.off + Len(out) + i - 1) % GrainSize = Images!Vmdk!InGrain + i - 1
<1> DEFINE fin == Images!Vmdk!Smaller(ask.off + ask.len, image.size)
           cur == ask.off + Len(out)
           w == Images!Vmdk!Want
           d == Images!Vmdk!InGrain
           g == Images!Vmdk!Grain
<1>1. /\ ask # None /\ ans = None /\ stage = "ready" /\ ask.off \in Nat /\ ask.len \in Nat /\ Len(out) \in Nat
      /\ image.size = Len(made.disk) /\ Len(made.disk) \in Nat /\ GrainSize \in Nat \ {0}
  BY AskType, DiskType, Sizes, MadeOfGrains DEF Images!Vmdk!Turn, Images!Vmdk!Reading, CallOK
<1>2. fin <= Len(made.disk) /\ fin <= ask.off + ask.len /\ cur < fin /\ cur \in Nat /\ fin \in Nat
  BY <1>1 DEF Images!Vmdk!Smaller, Images!Vmdk!Turn, Images!Vmdk!Cur, Images!Vmdk!End
<1>3. g = cur \div GrainSize /\ d = cur % GrainSize
      /\ w = IF GrainSize - (cur % GrainSize) < fin - cur THEN GrainSize - (cur % GrainSize) ELSE fin - cur
  BY DEF Images!Vmdk!Grain, Images!Vmdk!InGrain, Images!Vmdk!Want, Images!Vmdk!End, Images!Vmdk!Cur, Images!Vmdk!Smaller
<1>4. cur = ask.off + Len(out)
  OBVIOUS
<1> HIDE DEF fin, g, d, w, cur
<1>5. d \in 0..(GrainSize - 1)
  BY <1>1, <1>2, <1>3, DivMod
<1>6. w \in Nat \ {0} /\ w <= GrainSize - d /\ cur + w <= fin
  BY <1>1, <1>2, <1>3, <1>5
<1>7. \A i \in 1..w : (cur + i - 1) \div GrainSize = g /\ (cur + i - 1) % GrainSize = d + i - 1
  <2> SUFFICES ASSUME NEW i \in 1..w
               PROVE  (cur + i - 1) \div GrainSize = g /\ (cur + i - 1) % GrainSize = d + i - 1
    OBVIOUS
  <2>1. w <= GrainSize - (cur % GrainSize) /\ w \in Nat
    BY <1>3, <1>6
  <2>2. /\ (cur + i - 1) \div GrainSize = cur \div GrainSize
        /\ (cur + i - 1) % GrainSize = (cur % GrainSize) + i - 1
    <3>1. GrainSize \in Nat \ {0} /\ cur \in Nat
      BY <1>1, <1>2
    <3> QED BY <2>1, <3>1, WithinOne, Zenon
  <2> QED BY <1>3, <2>2
<1>8. Len(out) + w <= ask.len /\ cur + w <= Len(made.disk)
  BY <1>1, <1>2, <1>4, <1>6
<1>9. \A i \in 1..w : cur + i - 1 \in Images!Offsets(made)
  BY <1>1, <1>2, <1>6, <1>8 DEF Images!Offsets
<1> QED BY <1>1, <1>4, <1>5, <1>6, <1>7, <1>8, <1>9 DEF g, d, w

LEMMA ZerosType ==
    ASSUME NEW n \in Nat
    PROVE  /\ Images!Vmdk!Zeros(n) \in Seq({Zero}) /\ Len(Images!Vmdk!Zeros(n)) = n
           /\ \A i \in 1..n : Images!Vmdk!Zeros(n)[i] = Zero
BY DEF Images!Vmdk!Zeros

\* A hole answers with zeros, and is one of the disk's.
LEMMA HoleDelivers ==
    ASSUME CallOK, ~Images!IsEwf, Images!Vmdk!Turn,
           \A p \in Images!Offsets(made) : p \div GrainSize = Images!Vmdk!Grain => made.disk[p + 1] = Zero,
           out' = out \o Images!Vmdk!Zeros(Images!Vmdk!Want), UNCHANGED <<made, image, ask>>
    PROVE  CallOK'
<1> DEFINE b == Images!Vmdk!Zeros(Images!Vmdk!Want)
<1>1. /\ ask # None /\ ask.off \in Nat /\ Images!Vmdk!Want \in Nat
      /\ Len(out) + Images!Vmdk!Want <= ask.len /\ ask.off + Len(out) + Images!Vmdk!Want <= Len(made.disk)
      /\ \A i \in 1..Images!Vmdk!Want :
           /\ ask.off + Len(out) + i - 1 \in Images!Offsets(made)
           /\ (ask.off + Len(out) + i - 1) \div GrainSize = Images!Vmdk!Grain
  BY TurnInGrain
<1>2. b \in Seq({Zero}) /\ Len(b) = Images!Vmdk!Want /\ \A i \in 1..Len(b) : b[i] = Zero
  BY <1>1, ZerosType
<1> HIDE DEF b
<1>3. \A i \in 1..Len(b) : TrueByte(ask.off + Len(out) + i - 1, b[i])
  BY <1>1, <1>2 DEF TrueByte
<1>4. out' = out \o b
  BY DEF b
<1> QED BY <1>1, <1>2, <1>3, <1>4, CallGrows

\* The bytes of a grain from the offset on, as many as are there.
LEMMA GrainIsTrue ==
    ASSUME CallOK, ~Images!IsEwf, Images!Vmdk!Turn, NEW S, NEW bytes \in Seq(S), Images!Vmdk!InGrain <= Len(bytes),
           NEW n \in Nat, n <= Images!Vmdk!Want, Images!Vmdk!InGrain + n <= Len(bytes),
           NEW s, s = SubSeq(bytes, Images!Vmdk!InGrain + 1, Images!Vmdk!InGrain + n),
           \A p \in Images!Offsets(made) :
             p \div GrainSize = Images!Vmdk!Grain /\ p % GrainSize < Len(bytes) =>
               made.disk[p + 1] = bytes[(p % GrainSize) + 1]
    PROVE  \A i \in 1..n : TrueByte(ask.off + Len(out) + i - 1, s[i])
<1> DEFINE d == Images!Vmdk!InGrain
<1>1. /\ ask.off \in Nat /\ Len(out) \in Nat /\ d \in Nat /\ Images!Vmdk!Want \in Nat
      /\ \A i \in 1..Images!Vmdk!Want :
           /\ ask.off + Len(out) + i - 1 \in Images!Offsets(made)
           /\ (ask.off + Len(out) + i - 1) \div GrainSize = Images!Vmdk!Grain
           /\ (ask.off + Len(out) + i - 1) % GrainSize = d + i - 1
  BY TurnInGrain
<1>2. s \in Seq(S) /\ Len(s) = n /\ \A i \in 1..n : s[i] = bytes[d + i]
  BY <1>1, Slice
<1>3. ASSUME NEW i \in 1..n PROVE TrueByte(ask.off + Len(out) + i - 1, s[i])
  <2> DEFINE p == ask.off + Len(out) + i - 1
  <2>1. p \in Images!Offsets(made) /\ p \div GrainSize = Images!Vmdk!Grain /\ p % GrainSize = d + i - 1
    BY <1>1
  <2>2. Len(bytes) \in Nat /\ d + n <= Len(bytes)
    OBVIOUS
  <2> HIDE DEF p, d
  <2>3. p % GrainSize < Len(bytes) /\ (p % GrainSize) + 1 = d + i
    BY <1>1, <2>1, <2>2
  <2>4. made.disk[p + 1] = bytes[d + i]
    BY <2>1, <2>3
  <2> QED BY <1>2, <2>4 DEF TrueByte, p
<1> QED BY <1>3

\* A grain of a stream, filled up with zeros.
LEMMA FilledDelivers ==
    ASSUME CallOK, VmdkIndex, ~Images!IsEwf, image.kind = "stream", Images!Vmdk!Turn, Images!Vmdk!InIndex,
           NEW bytes, bytes = Images!Vmdk!Inflated, bytes # None,
           Images!Vmdk!DeliverGrain(bytes), UNCHANGED <<made, image, ask>>
    PROVE  CallOK'
<1> DEFINE d == Images!Vmdk!InGrain
           w == Images!Vmdk!Want
           n == Images!Vmdk!Smaller(d + w, Len(bytes))
           s == SubSeq(bytes, d + 1, n)
           z == Images!Vmdk!Zeros(w - (n - d))
           b == s \o z
<1>1. CASE UNCHANGED out
  BY <1>1, CallStays
<1>2. CASE d <= Len(bytes) /\ out' = out \o b
  <2>1. /\ ask # None /\ ask.off \in Nat /\ Len(out) \in Nat /\ d \in Nat /\ w \in Nat \ {0} /\ stage = "ready"
        /\ Len(out) + w <= ask.len /\ ask.off + Len(out) + w <= Len(made.disk)
        /\ \A i \in 1..w :
             /\ ask.off + Len(out) + i - 1 \in Images!Offsets(made)
             /\ (ask.off + Len(out) + i - 1) \div GrainSize = Images!Vmdk!Grain
             /\ (ask.off + Len(out) + i - 1) % GrainSize = d + i - 1
    BY TurnInGrain
  <2>2. PICK S : bytes \in Seq(S)
    <3>1. Images!StreamMadeFrom(made) /\ image = made.file /\ Len(image.blocks) \in Nat /\ scan \in 0..Len(image.blocks)
          /\ index[Images!Vmdk!Grain] \in 1..scan
      BY MadeOfGrains DEF VmdkIndex, Images!Vmdk!InIndex
    <3>2. index[Images!Vmdk!Grain] \in DOMAIN made.file.blocks
      BY <3>1 DEF Images!StreamMadeFrom
    <3> QED BY <3>1, <3>2 DEF Images!StreamMadeFrom, Images!Vmdk!Inflated
  <2>3. \A p \in Images!Offsets(made) :
          p \div GrainSize = Images!Vmdk!Grain =>
            made.disk[p + 1] = IF p % GrainSize < Len(bytes) THEN bytes[(p % GrainSize) + 1] ELSE Zero
    BY <2>1, StreamByte DEF Images!Vmdk!InIndex, Images!Vmdk!Inflated
  <2>4. Len(bytes) \in Nat /\ n \in Nat /\ d <= n /\ n <= Len(bytes) /\ n <= d + w /\ (n < d + w => n = Len(bytes))
    BY <1>2, <2>1, <2>2 DEF Images!Vmdk!Smaller
  <2> DEFINE m == n - d
  <2>5. m \in Nat /\ m <= w /\ d + m = n /\ w - m \in Nat
    <3> HIDE DEF n, d, w
    <3> QED BY <2>1, <2>4
  <2>6. /\ s \in Seq(S) /\ Len(s) = m
        /\ \A i \in 1..m : TrueByte(ask.off + Len(out) + i - 1, s[i])
    <3>1. s = SubSeq(bytes, d + 1, d + m) /\ d + m <= Len(bytes)
      BY <2>4, <2>5
    <3>2. \A p \in Images!Offsets(made) :
             p \div GrainSize = Images!Vmdk!Grain /\ p % GrainSize < Len(bytes) =>
               made.disk[p + 1] = bytes[(p % GrainSize) + 1]
      BY <2>3
    <3>3. m \in Nat /\ m <= w
      BY <2>5
    <3> HIDE DEF n, m, s
    <3>4. d <= Len(bytes) /\ bytes \in Seq(S)
      BY <1>2, <2>2
    <3>5. /\ m \in Nat /\ m <= Images!Vmdk!Want /\ Images!Vmdk!InGrain + m <= Len(bytes)
          /\ s = SubSeq(bytes, Images!Vmdk!InGrain + 1, Images!Vmdk!InGrain + m) /\ Images!Vmdk!InGrain <= Len(bytes)
      BY <3>1, <3>3, <3>4
    <3>6. s \in Seq(S) /\ Len(s) = m
      BY <3>4, <3>5, <2>1, Slice
    <3> HIDE DEF d, w
    <3>7. \A i \in 1..m : TrueByte(ask.off + Len(out) + i - 1, s[i])
      BY <3>2, <3>4, <3>5, GrainIsTrue, Zenon
    <3> QED BY <3>6, <3>7
  <2>7. z \in Seq({Zero}) /\ Len(z) = w - m /\ \A i \in 1..(w - m) : z[i] = Zero
    <3> HIDE DEF n, w
    <3> QED BY <2>5, ZerosType
  <2> HIDE DEF s, z, n, m, d, w
  <2>8. /\ b \in Seq(S \cup {Zero}) /\ Len(b) = w
        /\ \A i \in 1..m : b[i] = s[i]
        /\ \A i \in 1..w : i > m => b[i] = Zero
    <3>1. s \in Seq(S \cup {Zero}) /\ z \in Seq(S \cup {Zero}) /\ Len(s) = m /\ Len(z) = w - m
      BY <2>6, <2>7
    <3>2. /\ b \in Seq(S \cup {Zero}) /\ Len(b) = Len(s) + Len(z)
          /\ \A i \in 1..Len(s) : b[i] = s[i]
          /\ \A i \in 1..Len(z) : b[Len(s) + i] = z[i]
      BY <3>1
    <3> HIDE DEF b
    <3>3. Len(b) = w
      BY <2>1, <2>5, <3>1, <3>2
    <3>4. ASSUME NEW i \in 1..w, i > m PROVE b[i] = Zero
      <4>1. i - m \in 1..Len(z) /\ Len(s) + (i - m) = i
        BY <2>1, <2>5, <3>1, <3>4
      <4>2. b[Len(s) + (i - m)] = z[i - m]
        BY <3>2, <4>1
      <4> QED BY <2>7, <3>1, <4>1, <4>2
    <3> QED BY <3>1, <3>2, <3>3, <3>4
  <2> HIDE DEF b
  <2>9. ASSUME NEW i \in 1..Len(b) PROVE TrueByte(ask.off + Len(out) + i - 1, b[i])
    <3>1. CASE i <= m
      BY <2>1, <2>5, <2>6, <2>8, <3>1
    <3>2. CASE i > m
      <4>1. n < d + w /\ i \in 1..w
        BY <2>1, <2>4, <2>5, <2>8, <3>2
      <4>2. ~ (d + i - 1 < Len(bytes))
        BY <2>1, <2>4, <2>5, <3>2, <4>1
      <4> DEFINE p == ask.off + Len(out) + i - 1
      <4>3. p \in Images!Offsets(made) /\ p \div GrainSize = Images!Vmdk!Grain /\ p % GrainSize = d + i - 1
        BY <2>1, <4>1
      <4> HIDE DEF p
      <4>4. made.disk[p + 1] = Zero
        BY <2>3, <4>2, <4>3
      <4> QED BY <2>8, <3>2, <4>1, <4>4 DEF TrueByte, p
    <3> QED BY <2>1, <2>5, <2>8, <3>1, <3>2
  <2> QED BY <1>2, <2>1, <2>8, <2>9, CallGrows
<1>3. Images!Vmdk!Filled(bytes) = b
  BY DEF Images!Vmdk!Filled
<1> HIDE DEF b
<1> QED BY <1>1, <1>2, <1>3 DEF Images!Vmdk!DeliverGrain

\* A byte of a sparse image's disk, in terms of the tables.
LEMMA SparseByte ==
    ASSUME CallOK, ~Images!IsEwf, ~Images!Vmdk!IsStream, NEW p \in Images!Offsets(made),
           p \div GrainSize = Images!Vmdk!Grain
    PROVE  IF Images!Vmdk!HasTable /\ Images!Vmdk!HasGrain
           THEN /\ Images!Vmdk!OnDisk \in Seq(Images!Bytes(Images!Vmdk!OnDisk))
                /\ IF p % GrainSize < Len(Images!Vmdk!OnDisk)
                   THEN made.disk[p + 1] = Images!Vmdk!OnDisk[(p % GrainSize) + 1] ELSE p \in made.cut
           ELSE made.disk[p + 1] = Zero
<1>1. image = made.file /\ Images!SparseMadeFrom(made)
  BY MadeOfGrains, SMTT(30) DEF Images!Vmdk!IsStream
<1> DEFINE gd == (Images!Vmdk!Grain \div NumGTEs) + 1
           entry == image.gt[image.gd[gd]][(Images!Vmdk!Grain % NumGTEs) + 1]
<1>2. IF gd \in DOMAIN image.gd /\ image.gd[gd] # 0 /\ entry > 1
      THEN /\ image.at[entry] \in Seq(Images!Bytes(image.at[entry]))
           /\ IF p % GrainSize < Len(image.at[entry])
              THEN made.disk[p + 1] = image.at[entry][(p % GrainSize) + 1] ELSE p \in made.cut
      ELSE made.disk[p + 1] = Zero
  BY <1>1 DEF Images!SparseMadeFrom
<1>3. /\ Images!Vmdk!HasTable <=> gd \in DOMAIN image.gd /\ image.gd[gd] # 0
      /\ Images!Vmdk!HasGrain <=> entry > 1
      /\ Images!Vmdk!OnDisk = image.at[entry]
  BY DEF Images!Vmdk!HasTable, Images!Vmdk!HasGrain, Images!Vmdk!OnDisk, Images!Vmdk!EntryOf, Images!Vmdk!Table, Images!Vmdk!Gd
<1> HIDE DEF gd, entry
<1> QED BY <1>2, <1>3

\* The grain of a sparse image, and what is left of it where the file ends.
LEMMA SparseDelivers ==
    ASSUME CallOK, ~Images!IsEwf, ~Images!Vmdk!IsStream, Images!Vmdk!Turn, Images!Vmdk!HasTable, Images!Vmdk!HasGrain,
           NEW bytes, bytes = Images!Vmdk!OnDisk, UNCHANGED <<made, image, ask>>
    PROVE  /\ Len(bytes) >= Images!Vmdk!InGrain + Images!Vmdk!Want
              /\ out' = out \o SubSeq(bytes, Images!Vmdk!InGrain + 1, Images!Vmdk!InGrain + Images!Vmdk!Want) => CallOK'
           /\ Len(bytes) < Images!Vmdk!InGrain + Images!Vmdk!Want
              /\ ans' = [bytes |-> out \o SubSeq(bytes, Images!Vmdk!InGrain + 1, Len(bytes)), err |-> "eof"] => Images!Contract!Next
<1> DEFINE d == Images!Vmdk!InGrain
           w == Images!Vmdk!Want
<1>1. /\ ask # None /\ ans = None /\ ask.off \in Nat /\ ask.len \in Nat /\ Len(out) \in Nat /\ d \in Nat /\ w \in Nat \ {0}
      /\ Len(out) + w <= ask.len /\ ask.off + Len(out) + w <= Len(made.disk)
      /\ \A i \in 1..w :
           /\ ask.off + Len(out) + i - 1 \in Images!Offsets(made)
           /\ (ask.off + Len(out) + i - 1) \div GrainSize = Images!Vmdk!Grain
           /\ (ask.off + Len(out) + i - 1) % GrainSize = d + i - 1
  BY TurnInGrain
<1>2. \A p \in Images!Offsets(made) : p \div GrainSize = Images!Vmdk!Grain =>
        IF p % GrainSize < Len(bytes) THEN made.disk[p + 1] = bytes[(p % GrainSize) + 1] ELSE p \in made.cut
  BY SparseByte
<1>3. bytes \in Seq(Images!Bytes(bytes)) /\ Len(bytes) \in Nat
  <2>0. PICK i \in 1..w : TRUE
    <3>1. 1 \in 1..w
      BY <1>1
    <3> QED BY <3>1
  <2>1. /\ ask.off + Len(out) + i - 1 \in Images!Offsets(made)
        /\ (ask.off + Len(out) + i - 1) \div GrainSize = Images!Vmdk!Grain
    BY <1>1
  <2>2. bytes \in Seq(Images!Bytes(bytes))
    BY <2>1, SparseByte
  <2> QED BY <2>2
<1>4. \A p \in Images!Offsets(made) :
        p \div GrainSize = Images!Vmdk!Grain /\ p % GrainSize < Len(bytes) =>
          made.disk[p + 1] = bytes[(p % GrainSize) + 1]
  BY <1>2
<1>5. ASSUME NEW n \in Nat, n <= w, d + n <= Len(bytes), NEW s, s = SubSeq(bytes, d + 1, d + n)
      PROVE  /\ s \in Seq(Images!Bytes(bytes)) /\ Len(s) = n
             /\ \A i \in 1..n : TrueByte(ask.off + Len(out) + i - 1, s[i])
  <2>1. s \in Seq(Images!Bytes(bytes)) /\ Len(s) = n /\ d <= Len(bytes)
    BY <1>1, <1>3, <1>5, Slice
  <2>2. \A i \in 1..n : TrueByte(ask.off + Len(out) + i - 1, s[i])
    BY <1>3, <1>4, <1>5, <2>1, GrainIsTrue, Zenon
  <2> QED BY <2>1, <2>2
<1>6. ASSUME Len(bytes) >= d + w, out' = out \o SubSeq(bytes, d + 1, d + w)
      PROVE  CallOK'
  <2> DEFINE s == SubSeq(bytes, d + 1, d + w)
  <2>1. w <= w /\ d + w <= Len(bytes) /\ w \in Nat
    BY <1>1, <1>3, <1>6
  <2>2. /\ s \in Seq(Images!Bytes(bytes)) /\ Len(s) = w
        /\ \A i \in 1..w : TrueByte(ask.off + Len(out) + i - 1, s[i])
    BY <1>5, <2>1
  <2> HIDE DEF s
  <2>3. out' = out \o s
    BY <1>6 DEF s
  <2> QED BY <1>1, <2>2, <2>3, CallGrows
<1>7. ASSUME Len(bytes) < d + w, ans' = [bytes |-> out \o SubSeq(bytes, d + 1, Len(bytes)), err |-> "eof"]
      PROVE  Images!Contract!Next
  <2> DEFINE s == SubSeq(bytes, d + 1, Len(bytes))
             t == out \o s
             n == Len(s)
  <2>1. /\ s \in Seq(Images!Bytes(bytes)) /\ n \in Nat /\ n < w
        /\ \A i \in 1..n : TrueByte(ask.off + Len(out) + i - 1, s[i])
        /\ d + n >= Len(bytes)
    <3>1. CASE Len(bytes) <= d
      <4>1. s = <<>>
        BY <1>1, <1>3, <3>1
      <4> QED BY <1>1, <1>3, <3>1, <4>1
    <3>2. CASE Len(bytes) > d
      <4> DEFINE m == Len(bytes) - d
      <4>1. m \in Nat /\ m <= w /\ d + m <= Len(bytes) /\ m < w /\ d + m = Len(bytes)
        BY <1>1, <1>3, <1>7, <3>2
      <4>2. s = SubSeq(bytes, d + 1, d + m)
        BY <4>1
      <4> HIDE DEF m, s
      <4>3. s \in Seq(Images!Bytes(bytes)) /\ Len(s) = m /\ \A i \in 1..m : TrueByte(ask.off + Len(out) + i - 1, s[i])
        BY <1>5, <4>1, <4>2
      <4> QED BY <1>1, <1>3, <4>1, <4>3
    <3> QED BY <1>1, <1>3, <3>1, <3>2
  <2> HIDE DEF s
  <2>2. Len(out) + n <= ask.len /\ ask.off + Len(out) + n <= Len(made.disk)
    <3>1. Len(made.disk) \in Nat
      BY DiskType
    <3> QED BY <1>1, <2>1, <3>1
  <2>3. TrueBytes(ask.off, t) /\ Len(t) = Len(out) + n
    BY <1>1, <2>1, <2>2, BytesGrow
  <2>4. ask.off + Len(t) \in made.cut
    <3> DEFINE i == n + 1
               p == ask.off + Len(out) + i - 1
    <3>1. i \in 1..w
      BY <1>1, <2>1
    <3> HIDE DEF i
    <3>2. p \in Images!Offsets(made) /\ p \div GrainSize = Images!Vmdk!Grain /\ p % GrainSize = d + i - 1
      BY <1>1, <3>1
    <3>3. p = ask.off + Len(t)
      BY <1>1, <2>1, <2>3 DEF i
    <3> HIDE DEF p, t
    <3>4. ~ (p % GrainSize < Len(bytes))
      BY <1>1, <1>3, <2>1, <3>2 DEF i
    <3> QED BY <1>2, <3>2, <3>3, <3>4
  <2>5. ans' = [bytes |-> t, err |-> "eof"]
    BY <1>7 DEF s
  <2> HIDE DEF t
  <2> QED BY <1>1, <2>2, <2>3, <2>4, <2>5, CallAnswers
<1> QED BY <1>6, <1>7

LEMMA IndexStays ==
    ASSUME VmdkIndex, UNCHANGED <<image, scan, index>>, stage' = stage \/ (stage = "ready" /\ stage' = "panicked"),
           \A g \in DOMAIN grains' : grains'[g] # None
    PROVE  VmdkIndex'
BY DEF VmdkIndex, GrainAt, Images!Vmdk!Scanned, Images!Vmdk!Block

\* One block more is scanned: a grain's newest block is the last one.
LEMMA IndexGrows ==
    ASSUME CallOK, ~Images!IsEwf, VmdkIndex, VmdkCache, Images!Vmdk!ScanBlock
    PROVE  VmdkIndex'
<1> DEFINE k == scan + 1
           new == image.blocks[k]
<1>1. /\ image.kind = "stream" /\ Len(image.blocks) \in Nat /\ scan \in 0..Len(image.blocks) /\ stage = "opening"
      /\ image' = image /\ stage' = stage /\ grains' = grains /\ scan' = k /\ DOMAIN grains = {}
      /\ scan < Len(image.blocks) /\ new.type \notin {"eos", "footer"}
      /\ index' = IF new.type = "grain"
                  THEN [g \in DOMAIN index \cup {new.grain} |-> IF g = new.grain THEN k ELSE index[g]]
                  ELSE index
  BY MadeOfGrains DEF Images!Vmdk!ScanBlock, Images!Vmdk!caches, Images!Vmdk!IsStream, Images!Vmdk!Scanned, Images!Vmdk!Block,
     VmdkIndex, VmdkCache
<1>2. k \in 0..Len(image.blocks) /\ k \in 1..k /\ \A j \in 1..k : j \in 1..scan \/ j = k
  BY <1>1
<1>3. /\ \A j \in 1..scan : image.blocks[j].type \notin {"eos", "footer"}
      /\ \A j \in 1..scan : image.blocks[j].type = "grain" => image.blocks[j].grain \in DOMAIN index
      /\ \A g \in DOMAIN index : /\ index[g] \in 1..scan /\ GrainAt(index[g], g)
                                 /\ \A j \in 1..scan : GrainAt(j, g) => j <= index[g]
  BY <1>1 DEF VmdkIndex
<1>4. \A j, g : GrainAt(j, g)' <=> GrainAt(j, g)
  BY <1>1 DEF GrainAt
<1>5. \A j \in 1..k : image.blocks[j].type \notin {"eos", "footer"}
  BY <1>1, <1>2, <1>3
<1>6. \A j \in 1..k : image.blocks[j].type = "grain" => image.blocks[j].grain \in DOMAIN index'
  <2> SUFFICES ASSUME NEW j \in 1..k, image.blocks[j].type = "grain" PROVE image.blocks[j].grain \in DOMAIN index'
    OBVIOUS
  <2>1. DOMAIN index \subseteq DOMAIN index'
    BY <1>1
  <2>2. CASE j \in 1..scan
    BY <1>3, <2>1, <2>2
  <2>3. CASE j = k
    BY <1>1, <2>3
  <2> QED BY <1>2, <2>2, <2>3
<1>7. ASSUME NEW g \in DOMAIN index'
      PROVE  /\ index'[g] \in 1..k /\ GrainAt(index'[g], g)
             /\ \A j \in 1..k : GrainAt(j, g) => j <= index'[g]
  <2>1. CASE new.type = "grain" /\ g = new.grain
    <3>1. index'[g] = k
      BY <1>1, <2>1
    <3> QED BY <1>2, <2>1, <3>1 DEF GrainAt
  <2>2. CASE ~ (new.type = "grain" /\ g = new.grain)
    <3>1. g \in DOMAIN index /\ index'[g] = index[g]
      BY <1>1, <2>2
    <3>2. ~GrainAt(k, g)
      BY <2>2 DEF GrainAt
    <3> HIDE DEF k
    <3>3. \A j \in 1..k : GrainAt(j, g) => j \in 1..scan
      BY <1>2, <3>2
    <3>4. index[g] \in 1..k
      BY <1>1, <1>2, <1>3, <3>1 DEF k
    <3> QED BY <1>3, <3>1, <3>3, <3>4
  <2> QED BY <2>1, <2>2
<1> HIDE DEF k, new
<1> QED BY <1>1, <1>2, <1>4, <1>5, <1>6, <1>7 DEF VmdkIndex

LEMMA VmdkSteps ==
    ASSUME CallOK, VmdkIndex, VmdkCache, ~Images!IsEwf, Images!Vmdk!Next, UNCHANGED made
    PROVE  CallOK' /\ VmdkIndex' /\ (Images!Contract!Next \/ UNCHANGED <<made, ask, ans>>)
<1>0. image' = image /\ ~Images!IsEwf'
  BY DEF Images!Vmdk!Next, Images!Vmdk!OpenSparse, Images!Vmdk!ScanBlock, Images!Vmdk!OpenStream, Images!Vmdk!ReadAt,
     Images!Vmdk!Outside, Images!Vmdk!SparseHole, Images!Vmdk!SparseGrain, Images!Vmdk!SparseCut, Images!Vmdk!SparseFails,
     Images!Vmdk!StreamHole, Images!Vmdk!StreamHit, Images!Vmdk!StreamGrain, Images!Vmdk!StreamFails, Images!Vmdk!Return,
     Images!Vmdk!Taken, Images!IsEwf
<1> USE DEF Images!Vmdk!caches
<1>1. CASE Images!Vmdk!OpenSparse
  <2>1. /\ UNCHANGED <<ask, ans, out>> /\ image.kind # "stream"
    BY <1>1 DEF Images!Vmdk!OpenSparse, Images!Vmdk!IsStream
  <2>2. CallOK'
    BY <1>0, <2>1, CallStays
  <2> QED BY <1>0, <2>1, <2>2 DEF VmdkIndex
<1>2. CASE Images!Vmdk!ScanBlock
  <2>1. UNCHANGED <<ask, ans, out>>
    BY <1>2 DEF Images!Vmdk!ScanBlock
  <2>2. CallOK'
    BY <1>0, <2>1, CallStays
  <2> QED BY <1>2, <2>1, <2>2, IndexGrows
<1>3. CASE Images!Vmdk!OpenStream
  <2>1. UNCHANGED <<ask, ans, out, scan, index, grains>> /\ Images!Vmdk!Scanned
    BY <1>3 DEF Images!Vmdk!OpenStream
  <2>2. CallOK'
    BY <1>0, <2>1, CallStays
  <2>3. VmdkIndex'
    BY <1>0, <2>1 DEF VmdkIndex, GrainAt, Images!Vmdk!Scanned, Images!Vmdk!Block
  <2> QED BY <2>1, <2>2, <2>3
<1>a. ASSUME UNCHANGED <<stage, scan, index, grains>> PROVE VmdkIndex'
  <2>1. image.kind = "stream" => \A g \in DOMAIN grains : grains[g] # None
    BY DEF VmdkIndex
  <2>2. CASE image.kind = "stream"
    BY <1>0, <1>a, <2>1, <2>2, IndexStays
  <2>3. CASE image.kind # "stream"
    BY <1>0, <2>3 DEF VmdkIndex
  <2> QED BY <2>2, <2>3
<1>4. CASE \E r \in VmdkRequests : Images!Vmdk!ReadAt(r)
  <2>1. ask = None /\ ask' \in VmdkRequests /\ out' = <<>> /\ UNCHANGED <<stage, scan, index, grains, ans>>
    BY <1>4 DEF Images!Vmdk!ReadAt
  <2>2. CallOK' /\ VmdkIndex'
    BY <1>0, <1>a, <2>1, CallStays
  <2>3. Images!Contract!Next
    BY <1>0, <2>1 DEF Images!Contract!Next, Images!Contract!Ask, Images!IsEwf
  <2> QED BY <2>2, <2>3
<1>b. ASSUME ask # None, UNCHANGED <<ask, out, stage, scan, index, grains>> PROVE CallOK' /\ VmdkIndex'
  BY <1>0, <1>a, <1>b, CallStays
<1>5. CASE Images!Vmdk!Outside
  <2>1. /\ ask # None /\ ans = None /\ ask.off >= image.size /\ ans' = [bytes |-> <<>>, err |-> "eof"]
        /\ UNCHANGED <<ask, out, stage, scan, index, grains>>
    BY <1>5 DEF Images!Vmdk!Outside, Images!Vmdk!Reply
  <2>2. ask.off \in Int /\ ask.len \in Nat /\ image.size = Len(made.disk) /\ Len(made.disk) \in Nat
    BY <2>1, AskType, MadeOfGrains, DiskType
  <2> DEFINE none == <<>>
  <2>3. TrueBytes(ask.off, none) /\ Len(none) = 0
    BY DEF TrueBytes
  <2>4. Len(none) <= ask.len /\ ask.off + Len(none) >= Len(made.disk) /\ ans' = [bytes |-> none, err |-> "eof"]
    BY <2>1, <2>2, <2>3
  <2> HIDE DEF none
  <2>5. Images!Contract!Next
    BY <2>1, <2>3, <2>4, CallAnswers
  <2> QED BY <1>b, <2>1, <2>5
<1>6. CASE Images!Vmdk!SparseHole
  <2>1. /\ Images!Vmdk!Turn /\ ~Images!Vmdk!IsStream /\ ~ (Images!Vmdk!HasTable /\ Images!Vmdk!HasGrain)
        /\ out' = out \o Images!Vmdk!Zeros(Images!Vmdk!Want) /\ UNCHANGED <<ask, ans, stage, scan, index, grains>>
    BY <1>6 DEF Images!Vmdk!SparseHole
  <2>2. \A p \in Images!Offsets(made) : p \div GrainSize = Images!Vmdk!Grain => made.disk[p + 1] = Zero
    BY <2>1, SparseByte
  <2> QED BY <1>0, <1>a, <2>1, <2>2, HoleDelivers
<1>7. CASE Images!Vmdk!SparseGrain
  <2>1. /\ Images!Vmdk!Turn /\ ~Images!Vmdk!IsStream /\ Images!Vmdk!HasTable /\ Images!Vmdk!HasGrain
        /\ Len(Images!Vmdk!OnDisk) >= Images!Vmdk!InGrain + Images!Vmdk!Want
        /\ out' = out \o SubSeq(Images!Vmdk!OnDisk, Images!Vmdk!InGrain + 1, Images!Vmdk!InGrain + Images!Vmdk!Want)
        /\ UNCHANGED <<ask, ans, stage, scan, index, grains>>
    BY <1>7 DEF Images!Vmdk!SparseGrain
  <2> QED BY <1>0, <1>a, <2>1, SparseDelivers
<1>8. CASE Images!Vmdk!SparseCut
  <2>1. /\ Images!Vmdk!Turn /\ ~Images!Vmdk!IsStream /\ Images!Vmdk!HasTable /\ Images!Vmdk!HasGrain
        /\ Len(Images!Vmdk!OnDisk) < Images!Vmdk!InGrain + Images!Vmdk!Want
        /\ ans' = [bytes |-> out \o SubSeq(Images!Vmdk!OnDisk, Images!Vmdk!InGrain + 1, Len(Images!Vmdk!OnDisk)), err |-> "eof"]
        /\ UNCHANGED <<ask, out, stage, scan, index, grains>> /\ ask # None
    BY <1>8 DEF Images!Vmdk!SparseCut, Images!Vmdk!Reply, Images!Vmdk!Turn, Images!Vmdk!Reading
  <2> QED BY <1>0, <1>b, <2>1, SparseDelivers
<1>9. CASE Images!Vmdk!SparseFails \/ Images!Vmdk!StreamFails
  <2>1. /\ ask # None /\ ans = None /\ ans' = [bytes |-> out, err |-> "err"]
        /\ UNCHANGED <<ask, out, stage, scan, index, grains>>
    BY <1>9 DEF Images!Vmdk!SparseFails, Images!Vmdk!StreamFails, Images!Vmdk!Reply, Images!Vmdk!Turn, Images!Vmdk!Reading
  <2>2. TrueBytes(ask.off, out) /\ Len(out) <= ask.len
    BY <2>1 DEF CallOK
  <2> QED BY <1>b, <2>1, <2>2, CallAnswers
<1>10. CASE Images!Vmdk!StreamHole
  <2>1. /\ Images!Vmdk!Turn /\ image.kind = "stream" /\ ~Images!Vmdk!InIndex
        /\ out' = out \o Images!Vmdk!Zeros(Images!Vmdk!Want) /\ UNCHANGED <<ask, ans, stage, scan, index, grains>>
        /\ stage = "ready"
    BY <1>10 DEF Images!Vmdk!StreamHole, Images!Vmdk!IsStream, Images!Vmdk!Turn, Images!Vmdk!Reading
  <2>2. \A p \in Images!Offsets(made) : p \div GrainSize = Images!Vmdk!Grain => made.disk[p + 1] = Zero
    BY <2>1, StreamByte DEF Images!Vmdk!InIndex
  <2> QED BY <1>0, <1>a, <2>1, <2>2, HoleDelivers
<1>11. CASE Images!Vmdk!StreamHit
  <2>1. /\ Images!Vmdk!Turn /\ image.kind = "stream" /\ Images!Vmdk!Cached
        /\ Images!Vmdk!DeliverGrain(grains[Images!Vmdk!Grain]) /\ UNCHANGED <<ask, ans, scan, index, grains>>
        /\ stage = "ready" /\ stage' \in {"ready", "panicked"}
    BY <1>11 DEF Images!Vmdk!StreamHit, Images!Vmdk!IsStream, Images!Vmdk!Turn, Images!Vmdk!Reading, Images!Vmdk!DeliverGrain
  <2>2. /\ Images!Vmdk!InIndex /\ grains[Images!Vmdk!Grain] = Images!Vmdk!Inflated /\ Images!Vmdk!Inflated # None
        /\ \A g \in DOMAIN grains : grains[g] # None
    BY <2>1 DEF VmdkCache, VmdkIndex, Images!Vmdk!CachesAreTrue, Images!Vmdk!InIndex, Images!Vmdk!Cached, Images!Vmdk!Inflated
  <2>3. CallOK'
    BY <1>0, <2>1, <2>2, FilledDelivers
  <2>4. VmdkIndex'
    BY <1>0, <2>1, <2>2, IndexStays
  <2> QED BY <2>1, <2>3, <2>4
<1>12. CASE Images!Vmdk!StreamGrain
  <2>1. /\ Images!Vmdk!Turn /\ image.kind = "stream" /\ Images!Vmdk!InIndex /\ Images!Vmdk!Inflated # None
        /\ Images!Vmdk!KeepGrain
        /\ Images!Vmdk!DeliverGrain(Images!Vmdk!Inflated) /\ UNCHANGED <<ask, ans, scan, index>>
        /\ stage = "ready" /\ stage' \in {"ready", "panicked"}
    BY <1>12 DEF Images!Vmdk!StreamGrain, Images!Vmdk!IsStream, Images!Vmdk!Turn, Images!Vmdk!Reading, Images!Vmdk!DeliverGrain
  <2>2. \A g \in DOMAIN grains : grains[g] # None
    BY <2>1 DEF VmdkIndex
  <2>3. \A g \in DOMAIN grains' : grains'[g] # None
    BY <2>1, <2>2 DEF Images!Vmdk!KeepGrain
  <2>4. CallOK'
    BY <1>0, <2>1, FilledDelivers
  <2>5. VmdkIndex'
    BY <1>0, <2>1, <2>3, IndexStays
  <2> QED BY <2>1, <2>4, <2>5
<1>13. CASE Images!Vmdk!Return
  <2>1. /\ ask # None /\ ans = None /\ ans' = [bytes |-> out, err |-> "nil"] /\ Images!Vmdk!Cur >= Images!Vmdk!End
        /\ UNCHANGED <<ask, out, stage, scan, index, grains>>
    BY <1>13 DEF Images!Vmdk!Return, Images!Vmdk!Reply, Images!Vmdk!Reading
  <2>2. TrueBytes(ask.off, out) /\ Len(out) <= ask.len
    BY <2>1 DEF CallOK
  <2>3. ask.off \in Int /\ ask.len \in Nat /\ Len(out) \in Nat /\ image.size = Len(made.disk) /\ Len(made.disk) \in Nat
    BY <2>1, AskType, MadeOfGrains, DiskType
  <2>4. Len(out) = ask.len \/ ask.off + Len(out) >= Len(made.disk)
    BY <2>1, <2>2, <2>3 DEF Images!Vmdk!Cur, Images!Vmdk!End, Images!Vmdk!Smaller
  <2> QED BY <1>b, <2>1, <2>2, <2>4, CallAnswers
<1>14. CASE Images!Vmdk!Taken
  <2>1. ans # None /\ ask' = None /\ ans' = None /\ UNCHANGED <<stage, scan, index, grains>>
    BY <1>14 DEF Images!Vmdk!Taken
  <2>2. CallOK' /\ VmdkIndex'
    BY <1>0, <1>a, <2>1, CallStays
  <2> QED BY <1>0, <2>1, <2>2 DEF Images!Contract!Next, Images!Contract!Take, Images!IsEwf
<1> QED BY <1>1, <1>2, <1>3, <1>4, <1>5, <1>6, <1>7, <1>8, <1>9, <1>10, <1>11, <1>12, <1>13, <1>14 DEF Images!Vmdk!Next

CallInv == job = "image" => CallOK /\ (IF Images!IsEwf THEN EwfMap ELSE VmdkIndex)

LEMMA CallInvInit ==
    ASSUME Images!Init
    PROVE  CallOK /\ (IF Images!IsEwf THEN EwfMap ELSE VmdkIndex)
<1>1. CallOK
  BY DEF Images!Init, CallOK
<1>2. CASE Images!IsEwf
  <2>1. /\ stage = "segments" /\ seg = 0 /\ total = 0 /\ chunkMap = <<>>
        /\ \A s \in Images!Ewf!Slot : keys[s] = -1
    BY <1>2 DEF Images!Init, Images!Ewf!InitReader
  <2>2. Images!EwfMadeFrom(made) /\ image = made.file /\ Len(image.segments) \in Nat
    BY <1>1, <1>2, MadeOfSegments
  <2>3. 0 \in 0..Len(image.segments)
    BY <2>2
  <2>4. Images!Chunks(made, 0) = <<>>
    BY <2>2, <2>3, ChunksAre
  <2> QED BY <1>1, <1>2, <2>1, <2>3, <2>4 DEF EwfMap
<1>3. CASE ~Images!IsEwf
  <2>1. stage = "opening" /\ scan = 0 /\ DOMAIN index = {} /\ DOMAIN grains = {}
    BY <1>3 DEF Images!Init, Images!Vmdk!InitReader
  <2>2. image.kind = "stream" => 0 \in 0..Len(image.blocks) /\ 1..0 = {}
    BY <1>1, <1>3, MadeOfGrains
  <2> QED BY <1>1, <1>3, <2>1, <2>2 DEF VmdkIndex
<1> QED BY <1>2, <1>3

LEMMA CallStep ==
    ASSUME CacheInv, CallInv, [Next \/ Stopped]_vars, job = "image"
    PROVE  CallInv' /\ (Images!Contract!Next \/ UNCHANGED <<made, ask, ans>>)
<1>1. job' = job /\ [Images!Next]_(Images!vars)
  BY ImageSteps
<1>2. CASE Images!EwfStep
  <2>1. Images!IsEwf /\ Images!Ewf!Next /\ UNCHANGED made /\ Images!IsEwf'
    BY <1>2 DEF Images!EwfStep, Images!IsEwf
  <2>2. CallOK /\ EwfMap /\ EwfCache
    BY <2>1 DEF CacheInv, CallInv
  <2>3. CallOK' /\ EwfMap' /\ (Images!Contract!Next \/ UNCHANGED <<made, ask, ans>>)
    BY <2>1, <2>2, EwfSteps
  <2> QED BY <2>1, <2>3 DEF CallInv
<1>3. CASE Images!VmdkStep
  <2>1. ~Images!IsEwf /\ Images!Vmdk!Next /\ UNCHANGED made /\ ~Images!IsEwf'
    BY <1>3 DEF Images!VmdkStep, Images!IsEwf
  <2>2. CallOK /\ VmdkIndex /\ VmdkCache
    BY <2>1 DEF CacheInv, CallInv
  <2>3. CallOK' /\ VmdkIndex' /\ (Images!Contract!Next \/ UNCHANGED <<made, ask, ans>>)
    BY <2>1, <2>2, VmdkSteps
  <2> QED BY <2>1, <2>3 DEF CallInv
<1>4. CASE UNCHANGED Images!vars
  <2>1. UNCHANGED <<made, image, stage, ask, ans, out, seg, total, chunkMap, keys, scan, index, grains>>
        /\ (Images!IsEwf' <=> Images!IsEwf)
    BY <1>4 DEF Images!vars, Images!ewfVars, Images!vmdkVars, Images!IsEwf
  <2>2. CallOK'
    BY <2>1, CallStays DEF CallInv
  <2>3. IF Images!IsEwf THEN EwfMap' ELSE VmdkIndex'
    BY <2>1, MapStays DEF CallInv, VmdkIndex, GrainAt, Images!Vmdk!Scanned, Images!Vmdk!Block
  <2> QED BY <2>1, <2>2, <2>3 DEF CallInv
<1> QED BY <1>1, <1>2, <1>3, <1>4 DEF Images!Next

\* Every answer of ReadAt, of either reader, is a prefix of what the disk holds at the
\* offset, and its error says truly why it is short: the contract of the NTFS walker's
\* io.ReaderAt, whatever the caches, holes, block boundaries and truncations.
THEOREM ImageAnswers == Spec => AnswersAreTheDisk
<1>1. Init => CallInv /\ (job = "image" => Images!Contract!Init)
  BY CallInvInit DEF Init, CallInv, Images!Init, Images!Contract!Init
<1>2. CacheInv /\ CallInv /\ [Next \/ Stopped]_vars => CallInv'
  <2>1. CASE job = "image"
    BY <2>1, CallStep
  <2>2. CASE job # "image"
    BY <2>2, ImageSteps DEF CallInv
  <2> QED BY <2>1, <2>2
<1>3. CacheInv /\ CallInv /\ [Next \/ Stopped]_vars
        => [job = "image" => Images!Contract!Next \/ UNCHANGED <<made, ask, ans>>]_vars
  BY CallStep
<1> QED BY <1>1, <1>2, <1>3, CacheInvHolds, PTL DEF Spec, AnswersAreTheDisk
=============================================================================
