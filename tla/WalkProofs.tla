------------------------------ MODULE WalkProofs ------------------------------
(***************************************************************************)
(* The walk over a volume, for every MFT, however its records refer to each *)
(* other: every wanted file that lives is handed to the callback, once and  *)
(* in the order of the MFT, and with its path.                              *)
(***************************************************************************)
EXTENDS Decoders, WellFoundedInduction, TLAPS

\* What the steps of a case have to do with a walk.
LEMMA WalkSteps ==
    ASSUME [Next \/ Stopped]_vars
    PROVE  job' = job /\ (job = "walk" => Walk!Next \/ UNCHANGED Walk!vars)
BY DEF Next, Stopped, Reads, vars, shared, Walk!vars

\* The constants' ranges.
LEMMA Constants == RootRef \in Nat \ {0} /\ MaxDepth \in Nat \ {0}
BY DecoderAssumptions DEF Walk!WalkAssumption

\* Which numbers are records of a volume.
LEMMA MftIsSeq ==
    ASSUME NEW v \in Mfts
    PROVE  /\ Len(v) \in Nat /\ DOMAIN v = 1..Len(v)
           /\ \A n \in Int : Walk!IsRecord(v, n) <=> n \in 0..(Len(v) - 1)
<1>1. v \in Seq(Walk!Range(v))
  BY DecoderAssumptions DEF Walk!WalkAssumption
<1>2. Len(v) \in Nat /\ DOMAIN v = 1..Len(v)
  BY <1>1
<1> QED BY <1>2 DEF Walk!IsRecord

-----------------------------------------------------------------------------
(* Chains of parents. *)

\* Induction, as far as it can be cited: on the numbers in a set.
LEMMA Induction ==
    ASSUME NEW S, 0 \in S, \A k \in Nat : k \in S => k + 1 \in S
    PROVE  Nat \subseteq S
<1> DEFINE T == Nat \ S
<1>1. SUFFICES ASSUME T # {} PROVE FALSE
  OBVIOUS
<1>2. PICK k \in T : \A j \in T : <<j, k>> \notin OpToRel(<, Nat)
  <2> HIDE DEF T
  <2>1. T \subseteq Nat
    BY DEF T
  <2> QED BY <1>1, <2>1, WFMin, NatLessThanWellFounded, Zenon
<1>3. \A j \in T : ~ (j < k)
  BY <1>2, Zenon DEF OpToRel
<1>4. k \in Nat \ {0} /\ k - 1 \in Nat /\ k - 1 < k
  OBVIOUS
<1>5. k - 1 \in S
  BY <1>3, <1>4
<1> QED BY <1>4, <1>5

\* A chain is what its recursion says.
LEMMA ChainDefined ==
    ASSUME NEW link, NEW n
    PROVE  LET c == Walk!Chain(link, n)
           IN  c = [i \in 0..MaxDepth |->
                      IF i = 0 THEN n ELSE IF c[i - 1] \in DOMAIN link THEN link[c[i - 1]] ELSE -1]
<1> DEFINE E(m) == IF m \in DOMAIN link THEN link[m] ELSE -1
           IsChain(c, k) == c = [i \in 0..k |-> IF i = 0 THEN n ELSE E(c[i - 1])]
           S == {k \in Nat : \E c : IsChain(c, k)}
<1>1. 0 \in S
  <2>1. IsChain([i \in 0..0 |-> n], 0)
    OBVIOUS
  <2> QED BY <2>1
<1>2. ASSUME NEW k \in Nat, k \in S PROVE k + 1 \in S
  <2>1. PICK c : IsChain(c, k)
    BY <1>2
  <2> DEFINE d == [i \in 0..(k + 1) |-> IF i = k + 1 THEN E(c[k]) ELSE c[i]]
  <2>2. \A i \in 0..k : d[i] = c[i]
    OBVIOUS
  <2>3. \A i \in 0..(k + 1) : d[i] = IF i = 0 THEN n ELSE E(d[i - 1])
    <3> TAKE i \in 0..(k + 1)
    <3>1. CASE i = k + 1
      <4>1. d[i] = E(c[k]) /\ d[k] = c[k] /\ i - 1 = k /\ i # 0
        BY <3>1
      <4> QED BY <4>1
    <3>2. CASE i \in 0..k
      <4>1. d[i] = c[i] /\ c[i] = IF i = 0 THEN n ELSE E(c[i - 1])
        BY <2>1, <2>2, <3>2
      <4>2. i # 0 => i - 1 \in 0..k /\ d[i - 1] = c[i - 1]
        BY <2>2, <3>2
      <4> QED BY <4>1, <4>2
    <3> QED BY <3>1, <3>2
  <2>4. IsChain(d, k + 1)
    BY <2>3
  <2>5. \E e : IsChain(e, k + 1)
    <3> HIDE DEF d, IsChain
    <3> QED BY <2>4
  <2> QED BY <2>5
<1>3. Nat \subseteq S
  <2> HIDE DEF S
  <2> QED BY <1>1, <1>2, Induction
<1>4. \E c : IsChain(c, MaxDepth)
  BY <1>3, Constants
<1>5. Walk!Chain(link, n) = CHOOSE c : IsChain(c, MaxDepth)
  BY DEF Walk!Chain
<1> QED BY <1>4, <1>5

\* The same, entry by entry.
LEMMA ChainStep ==
    ASSUME NEW link, NEW n
    PROVE  LET c == Walk!Chain(link, n)
           IN  /\ DOMAIN c = 0..MaxDepth /\ c[0] = n
               /\ \A i \in 1..MaxDepth : c[i] = IF c[i - 1] \in DOMAIN link THEN link[c[i - 1]] ELSE -1
<1> DEFINE c == Walk!Chain(link, n)
<1>1. c = [i \in 0..MaxDepth |-> IF i = 0 THEN n ELSE IF c[i - 1] \in DOMAIN link THEN link[c[i - 1]] ELSE -1]
  BY ChainDefined
<1> HIDE DEF c
<1>2. DOMAIN c = 0..MaxDepth /\ 0 \in 0..MaxDepth
  BY <1>1, Constants
<1>3. c[0] = n
  BY <1>1, <1>2
<1>4. ASSUME NEW i \in 1..MaxDepth PROVE c[i] = IF c[i - 1] \in DOMAIN link THEN link[c[i - 1]] ELSE -1
  BY <1>1, i \in 0..MaxDepth, i # 0, Constants
<1> QED BY <1>2, <1>3, <1>4 DEF c

\* Once a chain has come to its end it stays there.
LEMMA ChainEnds ==
    ASSUME NEW link, -1 \notin DOMAIN link, NEW n,
           NEW i \in 0..MaxDepth, Walk!Chain(link, n)[i] = -1, NEW j \in i..MaxDepth
    PROVE  Walk!Chain(link, n)[j] = -1
<1> DEFINE c == Walk!Chain(link, n)
           S == {k \in Nat : i + k <= MaxDepth => c[i + k] = -1}
<1>1. \A k \in 1..MaxDepth : c[k] = IF c[k - 1] \in DOMAIN link THEN link[c[k - 1]] ELSE -1
  BY ChainStep
<1>2. c[i] = -1
  OBVIOUS
<1> HIDE DEF c
<1>3. 0 \in S
  BY <1>2
<1>4. ASSUME NEW k \in Nat, k \in S PROVE k + 1 \in S
  <2>1. SUFFICES ASSUME i + (k + 1) <= MaxDepth PROVE c[i + (k + 1)] = -1
    OBVIOUS
  <2>2. i + (k + 1) \in 1..MaxDepth /\ (i + (k + 1)) - 1 = i + k /\ i + k <= MaxDepth
    BY <2>1, Constants
  <2>3. c[i + k] = -1
    BY <1>4, <2>2
  <2> QED BY <1>1, <2>2, <2>3
<1>5. j - i \in Nat /\ i + (j - i) = j /\ j <= MaxDepth
  BY Constants
<1>6. j - i \in S
  <2> HIDE DEF S
  <2> QED BY <1>3, <1>4, <1>5, Induction
<1> QED BY <1>5, <1>6 DEF c

\* Two chains agree as far as the one goes by steps of the other.
LEMMA ChainsAgree ==
    ASSUME NEW f, NEW g, NEW n, NEW h \in 0..MaxDepth,
           \A i \in 0..(h - 1) : LET m == Walk!Chain(f, n)[i]
                                 IN  m \in DOMAIN f /\ m \in DOMAIN g /\ f[m] = g[m],
           NEW j \in 0..h
    PROVE  Walk!Chain(g, n)[j] = Walk!Chain(f, n)[j]
<1> DEFINE c == Walk!Chain(f, n)
           d == Walk!Chain(g, n)
           S == {k \in Nat : k <= h => d[k] = c[k]}
<1>1. /\ c[0] = n
      /\ \A k \in 1..MaxDepth : c[k] = IF c[k - 1] \in DOMAIN f THEN f[c[k - 1]] ELSE -1
  BY ChainStep
<1>2. /\ d[0] = n
      /\ \A k \in 1..MaxDepth : d[k] = IF d[k - 1] \in DOMAIN g THEN g[d[k - 1]] ELSE -1
  BY ChainStep
<1>3. \A i \in 0..(h - 1) : c[i] \in DOMAIN f /\ c[i] \in DOMAIN g /\ f[c[i]] = g[c[i]]
  OBVIOUS
<1> HIDE DEF c, d
<1>4. 0 \in S
  BY <1>1, <1>2
<1>5. ASSUME NEW k \in Nat, k \in S PROVE k + 1 \in S
  <2>1. SUFFICES ASSUME k + 1 <= h PROVE d[k + 1] = c[k + 1]
    OBVIOUS
  <2>2. k + 1 \in 1..MaxDepth /\ (k + 1) - 1 = k /\ k \in 0..(h - 1)
    BY <2>1, Constants
  <2>3. d[k] = c[k]
    BY <1>5, <2>2
  <2>4. c[k + 1] = f[c[k]] /\ d[k + 1] = g[d[k]]
    BY <1>1, <1>2, <1>3, <2>2, <2>3
  <2> QED BY <1>3, <2>2, <2>3, <2>4
<1>6. j \in Nat /\ j <= h
  BY Constants
<1>7. j \in S
  <2> HIDE DEF S
  <2> QED BY <1>4, <1>5, <1>6, Induction
<1> QED BY <1>6, <1>7 DEF c, d

-----------------------------------------------------------------------------
(* Paths. *)

\* The index when the first pass is at record k: the names of the base records before it.
Known(v, k) == [m \in {j \in 0..(k - 1) : Walk!IsBase(v, j) /\ Walk!HasName(v, j)} |-> Walk!FileName(v, m)]

\* The steps from a file to the root, for a file all of whose directories live.
LEMMA WayUp ==
    ASSUME NEW v \in Mfts, NEW n, Walk!Rooted(v, n)
    PROVE  LET a == Walk!Chain(Walk!DirectoryOf(v), n)
           IN  \E h \in 1..MaxDepth :
                 /\ a[0] = n /\ a[h] = RootRef
                 /\ \A i \in 0..(h - 1) : /\ a[i] \in DOMAIN Walk!DirectoryOf(v)
                                          /\ a[i + 1] = Walk!Parent(v, a[i])
                                          /\ Walk!HasName(v, a[i])
                 /\ Walk!Ancestors(v, n) \ {RootRef} = {a[i] : i \in 0..(h - 1)}
<1> DEFINE link == Walk!DirectoryOf(v)
           a == Walk!Chain(link, n)
<1>1. /\ DOMAIN a = 0..MaxDepth /\ a[0] = n
      /\ \A i \in 1..MaxDepth : a[i] = IF a[i - 1] \in DOMAIN link THEN link[a[i - 1]] ELSE -1
  BY ChainStep
<1>2. \A m \in DOMAIN link : m \in Nat /\ m # RootRef /\ link[m] = Walk!Parent(v, m)
  BY MftIsSeq DEF Walk!DirectoryOf
<1>3. n # RootRef /\ \E h \in 0..MaxDepth : a[h] = RootRef
  BY <1>1 DEF Walk!Rooted, Walk!Ancestors, Walk!Range
<1>4. \A i \in 0..MaxDepth : a[i] # -1 /\ a[i] # RootRef => a[i] \in Walk!Ancestors(v, n) /\ Walk!HasName(v, a[i])
  BY <1>1 DEF Walk!Rooted, Walk!Ancestors, Walk!Range
<1>5. PICK h \in 0..MaxDepth : a[h] = RootRef
  BY <1>3
<1>6. h # 0 /\ h \in 1..MaxDepth
  BY <1>1, <1>3, <1>5, Constants
<1>7. \A i, j \in 0..MaxDepth : i <= j /\ a[i] = -1 => a[j] = -1
  <2>1. -1 \notin DOMAIN link
    BY <1>2, Constants
  <2> QED BY <2>1, ChainEnds, Constants
<1> HIDE DEF link, a
<1>8. ASSUME NEW i \in 0..(h - 1) PROVE a[i] \in DOMAIN link /\ a[i + 1] = link[a[i]]
  <2>1. i + 1 \in 1..MaxDepth /\ (i + 1) - 1 = i /\ i + 1 \in 0..MaxDepth /\ i + 1 <= h
    BY <1>6, Constants
  <2>2. a[i + 1] # -1
    BY <1>5, <1>7, <2>1, Constants
  <2> QED BY <1>1, <2>1, <2>2
<1>9. ASSUME NEW i \in (h + 1)..MaxDepth PROVE a[i] = -1
  <2>1. h + 1 \in 1..MaxDepth /\ (h + 1) - 1 = h /\ h + 1 \in 0..MaxDepth /\ h + 1 <= i /\ i \in 0..MaxDepth
    BY Constants
  <2>2. a[h + 1] = -1
    BY <1>1, <1>2, <1>5, <2>1
  <2> QED BY <1>7, <2>1, <2>2
<1>10. \A i \in 0..(h - 1) : a[i] # RootRef /\ a[i] # -1
  BY <1>2, <1>8, Constants
<1>11. Walk!Ancestors(v, n) \ {RootRef} = {a[i] : i \in 0..(h - 1)}
  <2>1. Walk!Ancestors(v, n) = {a[i] : i \in 0..MaxDepth} \ {-1}
    BY <1>1 DEF Walk!Ancestors, Walk!Range, link, a
  <2>2. ASSUME NEW i \in 0..MaxDepth, a[i] # -1, a[i] # RootRef PROVE i \in 0..(h - 1)
    BY <1>5, <1>9, <2>2, Constants
  <2>3. \A i \in 0..(h - 1) : i \in 0..MaxDepth
    BY Constants
  <2> QED BY <1>10, <2>1, <2>2, <2>3
<1>12. \A i \in 0..(h - 1) : Walk!HasName(v, a[i]) /\ a[i + 1] = Walk!Parent(v, a[i])
  BY <1>2, <1>4, <1>8, <1>10, Constants
<1> QED BY <1>1, <1>5, <1>6, <1>8, <1>11, <1>12 DEF link, a

\* The climb's height is the number of entries it meets.
LEMMA HeightIs ==
    ASSUME NEW idx, NEW n, NEW h \in 0..MaxDepth,
           \A i \in 0..(h - 1) : Walk!Climb(idx, n)[i] \in DOMAIN idx,
           h < MaxDepth => Walk!Climb(idx, n)[h] \notin DOMAIN idx
    PROVE  Walk!Height(idx, n) = h
<1> DEFINE c == Walk!Climb(idx, n)
           IsHeight(k) == /\ \A i \in 0..(k - 1) : c[i] \in DOMAIN idx
                          /\ k < MaxDepth => c[k] \notin DOMAIN idx
<1>1. IsHeight(h)
  OBVIOUS
<1>2. \A k \in 0..MaxDepth : IsHeight(k) => k = h
  <2> HIDE DEF c
  <2> QED BY <1>1, Constants
<1>3. Walk!Height(idx, n) = CHOOSE k \in 0..MaxDepth : IsHeight(k)
  BY DEF Walk!Height
<1> HIDE DEF IsHeight
<1> QED BY <1>1, <1>2, <1>3

\* The path that the second pass builds from the whole index, for such a file.
LEMMA RootedPath ==
    ASSUME NEW v \in Mfts, NEW n, Walk!Rooted(v, n)
    PROVE  LET p == Walk!BuildPath(Known(v, Len(v)), n)
           IN  /\ Walk!IsPathOf(v, p, n)
               /\ Walk!Range(p) = {Walk!FileName(v, m).name : m \in Walk!Ancestors(v, n) \ {RootRef}}
<1> DEFINE idx == Known(v, Len(v))
           p == Walk!BuildPath(idx, n)
           link == Walk!DirectoryOf(v)
           a == Walk!Chain(link, n)
           c == Walk!Climb(idx, n)
<1>1. PICK h \in 1..MaxDepth :
        /\ a[0] = n /\ a[h] = RootRef
        /\ \A i \in 0..(h - 1) : /\ a[i] \in DOMAIN link
                                 /\ a[i + 1] = Walk!Parent(v, a[i])
                                 /\ Walk!HasName(v, a[i])
        /\ Walk!Ancestors(v, n) \ {RootRef} = {a[i] : i \in 0..(h - 1)}
  <2> HIDE DEF link
  <2> QED BY WayUp DEF link
<1>2. \A m \in DOMAIN link : /\ m \in 0..(Len(v) - 1) /\ m # RootRef /\ Walk!IsBase(v, m)
                             /\ Walk!Parent(v, m) \notin {m, 0} /\ link[m] = Walk!Parent(v, m)
  BY DEF Walk!DirectoryOf, Walk!Live
<1>3. \A m \in DOMAIN link : Walk!HasName(v, m) => m \in DOMAIN idx /\ idx[m] = Walk!FileName(v, m)
  BY <1>2 DEF Known
<1>4. -1 \notin DOMAIN idx
  BY MftIsSeq DEF Known
<1> HIDE DEF link, idx, a
<1>5. \A i \in 0..(h - 1) : a[i] \in DOMAIN idx /\ idx[a[i]] = Walk!FileName(v, a[i]) /\ idx[a[i]].parent = a[i + 1]
  BY <1>1, <1>3 DEF Walk!Parent
<1>6. \A i \in 0..(h - 2) : a[i + 1] \notin {RootRef, a[i], 0}
  <2> TAKE i \in 0..(h - 2)
  <2>1. i \in 0..(h - 1) /\ i + 1 \in 0..(h - 1)
    BY Constants
  <2>2. a[i] \in DOMAIN link /\ a[i + 1] \in DOMAIN link /\ a[i + 1] = Walk!Parent(v, a[i])
    BY <1>1, <2>1
  <2> QED BY <1>2, <2>2
<1>7. \A i \in 0..(h - 2) : LET m == a[i]
                            IN  m \in DOMAIN link /\ m \in DOMAIN Walk!ParentIn(idx) /\ link[m] = Walk!ParentIn(idx)[m]
  <2> TAKE i \in 0..(h - 2)
  <2>1. i \in 0..(h - 1)
    BY Constants
  <2>2. a[i] \in DOMAIN link /\ link[a[i]] = a[i + 1]
    BY <1>1, <1>2, <2>1
  <2>3. a[i] \in DOMAIN idx /\ idx[a[i]].parent = a[i + 1] /\ ~Walk!Top(idx, a[i])
    BY <1>5, <1>6, <2>1 DEF Walk!Top
  <2> QED BY <2>2, <2>3 DEF Walk!ParentIn
<1>8. h - 1 \in 0..MaxDepth /\ h - 1 \in 0..(h - 1) /\ (h - 1) - 1 = h - 2 /\ (h - 1) + 1 = h
  BY Constants
<1>9. \A i \in 0..(h - 1) : c[i] = a[i]
  <2>1. c = Walk!Chain(Walk!ParentIn(idx), n) /\ a = Walk!Chain(link, n)
    BY DEF Walk!Climb, a
  <2> QED BY <1>7, <1>8, <2>1, ChainsAgree
<1>10. h < MaxDepth => c[h] \notin DOMAIN idx
  <2>1. SUFFICES c[h] \notin DOMAIN idx
    OBVIOUS
  <2>2. c[h] = IF c[h - 1] \in DOMAIN Walk!ParentIn(idx) THEN Walk!ParentIn(idx)[c[h - 1]] ELSE -1
    BY ChainStep DEF Walk!Climb
  <2>3. c[h - 1] = a[h - 1] /\ idx[a[h - 1]].parent = RootRef
    BY <1>1, <1>5, <1>8, <1>9
  <2>4. c[h - 1] \notin DOMAIN Walk!ParentIn(idx)
    BY <2>3 DEF Walk!ParentIn, Walk!Top
  <2> QED BY <1>4, <2>2, <2>4
<1> HIDE DEF c
<1>11. Walk!Height(idx, n) = h
  <2>1. h \in 0..MaxDepth /\ \A i \in 0..(h - 1) : c[i] \in DOMAIN idx
    BY <1>5, <1>9, Constants
  <2> QED BY <1>10, <2>1, HeightIs DEF c
<1>12. p = [i \in 1..h |-> idx[c[h - i]].name]
  BY <1>11 DEF Walk!BuildPath, c
<1>13. \A i \in 1..h : h - i \in 0..(h - 1) /\ c[h - i] = a[h - i] /\ p[i] = Walk!FileName(v, a[h - i]).name
  <2> TAKE i \in 1..h
  <2>1. h - i \in 0..(h - 1)
    BY Constants
  <2> QED BY <1>5, <1>9, <1>12, <2>1
<1>14. Len(p) = h /\ DOMAIN p = 1..h /\ p # <<>>
  BY <1>12, Constants
<1> HIDE DEF p
<1>15. Walk!IsPathOf(v, p, n)
  <2> DEFINE f == [i \in 1..h |-> a[h - i]]
  <2>1. f \in [1..h -> Walk!Ancestors(v, n) \ {RootRef}]
    BY <1>1, <1>13
  <2>2. f[h] = n /\ Walk!Parent(v, f[1]) = RootRef
    <3>1. h - h = 0 /\ h \in 1..h /\ 1 \in 1..h
      BY Constants
    <3>2. f[h] = a[0] /\ f[1] = a[h - 1]
      BY <3>1
    <3> QED BY <1>1, <1>8, <3>2
  <2>3. \A i \in 1..h : Walk!FileName(v, f[i]).name = p[i]
    BY <1>13
  <2>4. \A i \in 2..h : Walk!Parent(v, f[i]) = f[i - 1]
    <3> TAKE i \in 2..h
    <3>1. i \in 1..h /\ i - 1 \in 1..h /\ h - i \in 0..(h - 1) /\ (h - i) + 1 = h - (i - 1)
      BY Constants
    <3> QED BY <1>1, <3>1
  <2> HIDE DEF f
  <2> QED BY <1>14, <2>1, <2>2, <2>3, <2>4 DEF Walk!IsPathOf
<1>16. Walk!Range(p) = {Walk!FileName(v, m).name : m \in Walk!Ancestors(v, n) \ {RootRef}}
  <2>1. Walk!Range(p) = {p[i] : i \in 1..h}
    BY <1>14 DEF Walk!Range
  <2>2. \A j \in 0..(h - 1) : h - j \in 1..h /\ h - (h - j) = j
    BY Constants
  <2>3. \A j \in 0..(h - 1) : p[h - j] = Walk!FileName(v, a[j]).name
    BY <1>13, <2>2
  <2> QED BY <1>1, <1>13, <2>1, <2>2, <2>3
<1> QED BY <1>15, <1>16 DEF p, idx

-----------------------------------------------------------------------------
(* The walk. *)

\* The wanted files that the first pass has met, and those of them that the second leaves out.
Met(v, k, n) == n \in 0..(k - 1) /\ Walk!IsBase(v, n) /\ Walk!Matches(v, n)
LeftOut(v, idx, n) == /\ Walk!FileName(v, n).name \in DollarI
                      /\ Walk!Range(Walk!BuildPath(idx, n)) \cap RecycleNames = {}

\* The index has the names of all the records read, and those only, so that it is whole
\* before the first path is built.  The files delivered and those pending are the ones met
\* less those left out, in the order of their records.
WalkOK ==
  /\ made \in Mfts /\ pos \in 0..Len(made) /\ mem = Known(made, pos)
  /\ aux \in Seq(Walk!Range(aux)) /\ out \in Seq(Walk!Range(out))
  /\ \A i \in DOMAIN aux : Met(made, pos, aux[i].rec) /\ aux[i].name = Walk!FileName(made, aux[i].rec).name
  /\ \A i \in DOMAIN out : /\ pos = Len(made) /\ Met(made, pos, out[i].rec) /\ ~LeftOut(made, mem, out[i].rec)
                           /\ out[i].path = Walk!BuildPath(mem, out[i].rec)
  /\ \A i, j \in DOMAIN aux : i < j => aux[i].rec < aux[j].rec
  /\ \A i, j \in DOMAIN out : i < j => out[i].rec < out[j].rec
  /\ \A i \in DOMAIN out, j \in DOMAIN aux : out[i].rec < aux[j].rec
  /\ \A n : Met(made, pos, n) => \/ \E i \in DOMAIN aux : aux[i].rec = n
                                 \/ \E i \in DOMAIN out : out[i].rec = n
                                 \/ pos = Len(made) /\ LeftOut(made, mem, n)

\* The index takes in one record.
LEMMA KnownGrows ==
    ASSUME NEW v, NEW k \in Nat
    PROVE  Known(v, k + 1) = IF Walk!IsBase(v, k) /\ Walk!HasName(v, k)
                             THEN [m \in DOMAIN Known(v, k) \cup {k} |->
                                     IF m = k THEN Walk!FileName(v, k) ELSE Known(v, k)[m]]
                             ELSE Known(v, k)
<1> DEFINE B(j) == Walk!IsBase(v, j) /\ Walk!HasName(v, j)
           D(i) == {j \in 0..(i - 1) : B(j)}
<1>1. DOMAIN Known(v, k) = D(k) /\ \A m \in D(k) : Known(v, k)[m] = Walk!FileName(v, m)
  BY DEF Known
<1>2. D(k + 1) = IF B(k) THEN D(k) \cup {k} ELSE D(k)
  <2>1. 0..((k + 1) - 1) = 0..(k - 1) \cup {k}
    OBVIOUS
  <2> HIDE DEF B
  <2> QED BY <2>1
<1>3. /\ Known(v, k) = [m \in D(k) |-> Walk!FileName(v, m)]
      /\ Known(v, k + 1) = [m \in D(k + 1) |-> Walk!FileName(v, m)]
  BY DEF Known
<1> HIDE DEF B, D
<1> QED BY <1>1, <1>2, <1>3 DEF B

\* A list with one entry more.
LEMMA Longer ==
    ASSUME NEW s, s \in Seq(Walk!Range(s)), NEW x
    PROVE  LET t == Append(s, x)
           IN  /\ t \in Seq(Walk!Range(t)) /\ Len(s) \in Nat
               /\ DOMAIN s = 1..Len(s) /\ DOMAIN t = 1..(Len(s) + 1)
               /\ t[Len(s) + 1] = x /\ \A i \in 1..Len(s) : t[i] = s[i]
<1> DEFINE t == Append(s, x)
<1>1. /\ t \in Seq(Walk!Range(s) \cup {x}) /\ Len(s) \in Nat /\ DOMAIN s = 1..Len(s) /\ Len(t) = Len(s) + 1
      /\ t[Len(s) + 1] = x /\ \A i \in 1..Len(s) : t[i] = s[i]
  <2> s \in Seq(Walk!Range(s) \cup {x})
    OBVIOUS
  <2> QED OBVIOUS
<1> HIDE DEF t
<1>2. DOMAIN t = 1..(Len(s) + 1) /\ \A i \in DOMAIN t : t[i] \in Walk!Range(t)
  BY <1>1 DEF Walk!Range
<1>3. t \in Seq(Walk!Range(t))
  BY <1>1, <1>2
<1> QED BY <1>1, <1>2, <1>3 DEF t

\* A list without its first entry.
LEMMA Shorter ==
    ASSUME NEW s, s \in Seq(Walk!Range(s)), s # <<>>
    PROVE  LET t == Tail(s)
           IN  /\ t \in Seq(Walk!Range(t)) /\ Len(s) \in Nat /\ DOMAIN s = 1..Len(s) /\ Head(s) = s[1]
               /\ Len(s) >= 1 /\ DOMAIN t = 1..(Len(s) - 1) /\ \A i \in 1..(Len(s) - 1) : t[i] = s[i + 1]
<1> DEFINE t == Tail(s)
<1>1. /\ Len(s) \in Nat /\ DOMAIN s = 1..Len(s) /\ Head(s) = s[1] /\ Len(s) >= 1
      /\ t \in Seq(Walk!Range(s)) /\ Len(t) = Len(s) - 1 /\ \A i \in 1..(Len(s) - 1) : t[i] = s[i + 1]
  OBVIOUS
<1> HIDE DEF t
<1>2. DOMAIN t = 1..(Len(s) - 1) /\ \A i \in DOMAIN t : t[i] \in Walk!Range(t)
  BY <1>1 DEF Walk!Range
<1>3. t \in Seq(Walk!Range(t))
  BY <1>1, <1>2
<1> QED BY <1>1, <1>2, <1>3 DEF t

\* When the first pass is over.
LEMMA InMft == ASSUME WalkOK PROVE Walk!IsRecord(made, pos) <=> pos # Len(made)
<1>1. made \in Mfts /\ pos \in 0..Len(made)
  BY DEF WalkOK
<1> QED BY <1>1, MftIsSeq

\* The invariant holds when the walk begins.
LEMMA WalkInit == ASSUME Walk!Init PROVE WalkOK
<1>1. made \in Mfts /\ pos = 0 /\ mem = <<>> /\ aux = <<>> /\ out = <<>>
  BY DEF Walk!Init
<1>2. pos \in 0..Len(made)
  BY <1>1, MftIsSeq
<1>3. 0..(pos - 1) = {}
  BY <1>1
<1>4. mem = Known(made, pos)
  BY <1>1, <1>3 DEF Known
<1>5. aux \in Seq(Walk!Range(aux)) /\ out \in Seq(Walk!Range(out)) /\ DOMAIN aux = {} /\ DOMAIN out = {}
  BY <1>1
<1>6. \A n : ~Met(made, pos, n)
  BY <1>3 DEF Met
<1> QED BY <1>1, <1>2, <1>4, <1>5, <1>6 DEF WalkOK

\* The first pass: the index grows, and every wanted file is put behind those before it.
LEMMA FirstPass ==
    ASSUME WalkOK, Walk!Skip \/ Walk!IndexOnly \/ Walk!Collect
    PROVE  WalkOK'
<1> DEFINE v == made
<1>1. /\ pos \in 0..(Len(v) - 1) /\ pos \in Nat /\ pos' = pos + 1 /\ made' = v /\ out' = out /\ DOMAIN out = {}
      /\ Len(v) \in Nat
  <2>1. Walk!IsRecord(made, pos) /\ pos' = pos + 1 /\ made' = v /\ out' = out
    BY DEF Walk!Skip, Walk!IndexOnly, Walk!Collect
  <2>2. pos # Len(made) /\ pos \in 0..Len(made) /\ made \in Mfts /\ DOMAIN out = {}
    BY <2>1, InMft DEF WalkOK
  <2> QED BY <2>1, <2>2, MftIsSeq
<1>2. mem' = Known(v, pos + 1)
  <2>1. mem = Known(v, pos)
    BY DEF WalkOK
  <2>2. CASE Walk!Skip
    <3>1. ~Walk!IsBase(v, pos) /\ mem' = mem
      BY <2>2 DEF Walk!Skip
    <3> QED BY <1>1, <2>1, <3>1, KnownGrows
  <2>3. CASE Walk!IndexOnly \/ Walk!Collect
    <3>1. Walk!IsBase(v, pos) /\ Walk!Enter(pos)
      BY <2>3 DEF Walk!IndexOnly, Walk!Collect
    <3>2. mem' = IF Walk!HasName(v, pos)
                 THEN [m \in DOMAIN mem \cup {pos} |-> IF m = pos THEN Walk!FileName(v, pos) ELSE mem[m]]
                 ELSE mem
      BY <3>1 DEF Walk!Enter
    <3> QED BY <1>1, <2>1, <3>1, <3>2, KnownGrows
  <2> QED BY <2>2, <2>3
<1>3. \A n : Met(v, pos + 1, n) <=> Met(v, pos, n) \/ (n = pos /\ Walk!IsBase(v, pos) /\ Walk!Matches(v, pos))
  <2>1. \A n : n \in 0..((pos + 1) - 1) <=> n \in 0..(pos - 1) \/ n = pos
    BY <1>1
  <2> QED BY <1>1, <2>1 DEF Met
<1>4. CASE Walk!Collect
  <2>1. /\ Walk!IsBase(v, pos) /\ Walk!Matches(v, pos) /\ aux' = Append(aux, Walk!Pending(pos))
        /\ Walk!Pending(pos).rec = pos /\ Walk!Pending(pos).name = Walk!FileName(v, pos).name
    BY <1>4 DEF Walk!Collect, Walk!Pending
  <2> DEFINE k == Len(aux)
  <2>2. /\ aux' \in Seq(Walk!Range(aux')) /\ k \in Nat /\ DOMAIN aux = 1..k /\ DOMAIN aux' = 1..(k + 1)
        /\ aux'[k + 1] = Walk!Pending(pos) /\ \A i \in 1..k : aux'[i] = aux[i]
    BY <2>1, Longer DEF WalkOK
  <2> HIDE DEF k
  <2>3. \A n : Met(v, pos + 1, n) <=> Met(v, pos, n) \/ n = pos
    BY <1>3, <2>1
  <2>4. \A i \in 1..k : Met(v, pos, aux[i].rec) /\ aux[i].rec < pos /\ aux[i].name = Walk!FileName(v, aux[i].rec).name
    <3>1. \A i \in 1..k : Met(v, pos, aux[i].rec) /\ aux[i].name = Walk!FileName(v, aux[i].rec).name
      BY <2>2 DEF WalkOK
    <3>2. \A n : Met(v, pos, n) => n < pos
      BY <1>1 DEF Met
    <3> QED BY <3>1, <3>2
  <2>5. \A i \in DOMAIN aux' : Met(v, pos + 1, aux'[i].rec) /\ aux'[i].name = Walk!FileName(v, aux'[i].rec).name
    BY <2>1, <2>2, <2>3, <2>4
  <2>6. \A i, j \in DOMAIN aux' : i < j => aux'[i].rec < aux'[j].rec
    <3>1. \A i, j \in 1..k : i < j => aux[i].rec < aux[j].rec
      BY <2>2 DEF WalkOK
    <3> TAKE i, j \in DOMAIN aux'
    <3> HAVE i < j
    <3>2. CASE j = k + 1
      BY <2>1, <2>2, <2>4, <3>2
    <3>3. CASE j \in 1..k
      BY <2>2, <3>1, <3>3
    <3> QED BY <2>2, <3>2, <3>3
  <2>7. \A n : Met(v, pos + 1, n) => \E i \in DOMAIN aux' : aux'[i].rec = n
    <3>1. \A n : Met(v, pos, n) => \E i \in DOMAIN aux : aux[i].rec = n
      BY <1>1 DEF WalkOK
    <3>2. k + 1 \in DOMAIN aux' /\ aux'[k + 1].rec = pos
      BY <2>1, <2>2
    <3> QED BY <2>2, <2>3, <3>1, <3>2
  <2> QED BY <1>1, <1>2, <2>2, <2>5, <2>6, <2>7 DEF WalkOK
<1>5. CASE Walk!Skip \/ Walk!IndexOnly
  <2>1. aux' = aux /\ ~(Walk!IsBase(v, pos) /\ Walk!Matches(v, pos))
    BY <1>5 DEF Walk!Skip, Walk!IndexOnly
  <2>2. \A n : Met(v, pos + 1, n) <=> Met(v, pos, n)
    BY <1>3, <2>1
  <2>3. aux \in Seq(Walk!Range(aux)) /\ \A i, j \in DOMAIN aux : i < j => aux[i].rec < aux[j].rec
    BY DEF WalkOK
  <2>4. \A i \in DOMAIN aux : Met(v, pos, aux[i].rec) /\ aux[i].name = Walk!FileName(made, aux[i].rec).name
    BY DEF WalkOK
  <2>5. \A n : Met(v, pos, n) => \E i \in DOMAIN aux : aux[i].rec = n
    BY <1>1 DEF WalkOK
  <2> QED BY <1>1, <1>2, <2>1, <2>2, <2>3, <2>4, <2>5 DEF WalkOK
<1> QED BY <1>4, <1>5

\* The second pass: the first of the pending files is left out, or handed to the callback.
LEMMA SecondPass ==
    ASSUME WalkOK, Walk!LeaveOut \/ Walk!CallFn
    PROVE  WalkOK'
<1> DEFINE v == made
           k == Len(aux)
           r == Head(aux).rec
<1>1. pos' = pos /\ made' = v /\ mem' = mem /\ aux # <<>> /\ aux' = Tail(aux)
  BY DEF Walk!LeaveOut, Walk!CallFn
<1>2. pos = Len(v)
  <2>1. ~Walk!IsRecord(v, pos)
    BY DEF Walk!LeaveOut, Walk!CallFn
  <2> QED BY <2>1, InMft
<1>3. /\ aux' \in Seq(Walk!Range(aux')) /\ k \in Nat /\ DOMAIN aux = 1..k /\ Head(aux) = aux[1] /\ k >= 1
      /\ DOMAIN aux' = 1..(k - 1) /\ \A i \in 1..(k - 1) : aux'[i] = aux[i + 1]
  BY <1>1, Shorter DEF WalkOK
<1>4. /\ \A i \in 1..k : Met(v, pos, aux[i].rec) /\ aux[i].name = Walk!FileName(v, aux[i].rec).name
      /\ \A i, j \in 1..k : i < j => aux[i].rec < aux[j].rec
  BY <1>3 DEF WalkOK
<1>5. Met(v, pos, r) /\ Head(aux).name = Walk!FileName(v, r).name
  BY <1>3, <1>4
<1>6. /\ \A i \in DOMAIN aux' : /\ Met(v, pos, aux'[i].rec) /\ r < aux'[i].rec
                               /\ aux'[i].name = Walk!FileName(v, aux'[i].rec).name
      /\ \A i, j \in DOMAIN aux' : i < j => aux'[i].rec < aux'[j].rec
  <2>1. \A i \in 1..(k - 1) : i + 1 \in 1..k /\ 1 < i + 1 /\ 1 \in 1..k
    BY <1>3
  <2>2. \A i \in 1..(k - 1) : aux'[i] = aux[i + 1] /\ Met(v, pos, aux[i + 1].rec) /\ r < aux[i + 1].rec
                              /\ aux[i + 1].name = Walk!FileName(v, aux[i + 1].rec).name
    BY <1>3, <1>4, <2>1
  <2>3. \A i, j \in 1..(k - 1) : i < j => aux[i + 1].rec < aux[j + 1].rec
    BY <1>3, <1>4, <2>1
  <2> HIDE DEF r
  <2>4. \A i \in DOMAIN aux' : i \in 1..(k - 1) /\ aux'[i] = aux[i + 1]
    BY <1>3
  <2> QED BY <2>2, <2>3, <2>4
<1>7. \A i \in DOMAIN aux : aux[i].rec = r \/ \E j \in DOMAIN aux' : aux'[j].rec = aux[i].rec
  <2> TAKE i \in DOMAIN aux
  <2>1. i # 1 => i - 1 \in 1..(k - 1) /\ (i - 1) + 1 = i
    BY <1>3
  <2> QED BY <1>3, <2>1
<1>8. /\ \A i \in DOMAIN out : /\ Met(v, pos, out[i].rec) /\ ~LeftOut(v, mem, out[i].rec)
                               /\ out[i].path = Walk!BuildPath(mem, out[i].rec)
      /\ \A i, j \in DOMAIN out : i < j => out[i].rec < out[j].rec
      /\ \A i \in DOMAIN out, j \in DOMAIN aux : out[i].rec < aux[j].rec
      /\ out \in Seq(Walk!Range(out)) /\ made \in Mfts /\ pos \in 0..Len(made) /\ mem = Known(made, pos)
  BY DEF WalkOK
<1>9. \A n : Met(v, pos, n) => \/ \E i \in DOMAIN aux' : aux'[i].rec = n
                               \/ \E i \in DOMAIN out : out[i].rec = n
                               \/ LeftOut(v, mem, n)
                               \/ n = r
  <2>1. \A n : Met(v, pos, n) => \/ \E i \in DOMAIN aux : aux[i].rec = n
                                 \/ \E i \in DOMAIN out : out[i].rec = n
                                 \/ LeftOut(v, mem, n)
    BY DEF WalkOK
  <2> HIDE DEF r
  <2> QED BY <1>7, <2>1
<1>10. \A i \in DOMAIN out : out[i].rec < r /\ \A j \in DOMAIN aux' : out[i].rec < aux'[j].rec
  <2>1. 1 \in DOMAIN aux /\ \A j \in 1..(k - 1) : j + 1 \in DOMAIN aux
    BY <1>3
  <2> QED BY <1>3, <1>8, <2>1
<1>11. Walk!Unrelated(Head(aux)) <=> LeftOut(v, mem, r)
  BY <1>5 DEF Walk!Unrelated, LeftOut
<1>12. CASE Walk!LeaveOut
  <2>1. out' = out /\ LeftOut(v, mem, r)
    BY <1>11, <1>12 DEF Walk!LeaveOut
  <2> HIDE DEF k, r
  <2> QED BY <1>1, <1>2, <1>3, <1>6, <1>8, <1>9, <1>10, <2>1 DEF WalkOK
<1>13. CASE Walk!CallFn
  <2> DEFINE c == Walk!Call(Head(aux))
             m == Len(out)
  <2>1. out' = Append(out, c) /\ ~LeftOut(v, mem, r) /\ c.rec = r /\ c.path = Walk!BuildPath(mem, r)
    BY <1>11, <1>13 DEF Walk!CallFn, Walk!Call
  <2>2. /\ out' \in Seq(Walk!Range(out')) /\ m \in Nat /\ DOMAIN out = 1..m /\ DOMAIN out' = 1..(m + 1)
        /\ out'[m + 1] = c /\ \A i \in 1..m : out'[i] = out[i]
    BY <1>8, <2>1, Longer
  <2> HIDE DEF k, r, c, m
  <2>3. \A i \in DOMAIN out' : i = m + 1 \/ i \in DOMAIN out
    BY <2>2
  <2>4. \A i \in DOMAIN out' : /\ Met(v, pos, out'[i].rec) /\ ~LeftOut(v, mem, out'[i].rec)
                               /\ out'[i].path = Walk!BuildPath(mem, out'[i].rec)
    BY <1>5, <1>8, <2>1, <2>2, <2>3
  <2>5. \A i, j \in DOMAIN out' : i < j => out'[i].rec < out'[j].rec
    <3> TAKE i, j \in DOMAIN out'
    <3> HAVE i < j
    <3>1. i \in DOMAIN out /\ (j = m + 1 \/ j \in DOMAIN out)
      BY <2>2
    <3> QED BY <1>8, <1>10, <2>1, <2>2, <3>1
  <2>6. \A i \in DOMAIN out', j \in DOMAIN aux' : out'[i].rec < aux'[j].rec
    BY <1>6, <1>10, <2>1, <2>2, <2>3
  <2>7. \A n : Met(v, pos, n) => \/ \E i \in DOMAIN aux' : aux'[i].rec = n
                                 \/ \E i \in DOMAIN out' : out'[i].rec = n
                                 \/ LeftOut(v, mem, n)
    <3>1. m + 1 \in DOMAIN out' /\ out'[m + 1].rec = r /\ \A i \in DOMAIN out : i \in DOMAIN out' /\ out'[i] = out[i]
      BY <2>1, <2>2
    <3> QED BY <1>9, <3>1
  <2> QED BY <1>1, <1>2, <1>3, <1>6, <1>8, <2>2, <2>4, <2>5, <2>6, <2>7 DEF WalkOK
<1> QED BY <1>12, <1>13

\* Steps of other readers leave the walk alone.
LEMMA WalkStutters == ASSUME WalkOK, UNCHANGED Walk!vars PROVE WalkOK'
BY DEF WalkOK, Walk!vars

\* The invariant holds throughout.
LEMMA WalkInvariant == Spec => [](job = "walk" => WalkOK)
<1>1. Init => (job = "walk" => WalkOK)
  BY WalkInit DEF Init
<1>2. (job = "walk" => WalkOK) /\ [Next \/ Stopped]_vars => (job = "walk" => WalkOK)'
  <2>1. SUFFICES ASSUME job = "walk" => WalkOK, [Next \/ Stopped]_vars, job' = "walk" PROVE WalkOK'
    OBVIOUS
  <2>2. job = "walk" /\ WalkOK /\ (Walk!Next \/ UNCHANGED Walk!vars)
    BY <2>1, WalkSteps
  <2> QED BY <2>2, FirstPass, SecondPass, WalkStutters DEF Walk!Next
<1> QED BY <1>1, <1>2, PTL DEF Spec

-----------------------------------------------------------------------------
(* What the caller is handed. *)

\* A file whose directories all live gets its path from the root, though its parents'
\* records may come after it and deleted ones lie between (buildPath, and the index that
\* the whole first pass fills).
THEOREM WalkPaths == Spec => []PathsAreTrue
<1>1. (job = "walk" => WalkOK) => PathsAreTrue
  <2>1. SUFFICES ASSUME job = "walk", WalkOK PROVE Walk!PathsAreTrue
    BY DEF PathsAreTrue
  <2>2. SUFFICES ASSUME NEW i \in DOMAIN out, Walk!Rooted(made, out[i].rec)
                 PROVE  Walk!IsPathOf(made, out[i].path, out[i].rec)
    BY DEF Walk!PathsAreTrue, Walk!Range
  <2>3. made \in Mfts /\ mem = Known(made, Len(made)) /\ out[i].path = Walk!BuildPath(mem, out[i].rec)
    BY <2>1, <2>2 DEF WalkOK
  <2> QED BY <2>2, <2>3, RootedPath
<1> QED BY <1>1, WalkInvariant, PTL

\* When the walk is over the callback was called for every wanted file that lives, once and
\* in the order of the MFT; only a "$I" file that is not below $Recycle.Bin, or whose
\* directories are gone, is left out.
THEOREM WalkCompletes == Spec => []WalkIsComplete
<1>1. (job = "walk" => WalkOK) => WalkIsComplete
  <2>1. SUFFICES ASSUME job = "walk", WalkOK, Walk!Over PROVE Walk!WalkIsComplete
    BY DEF WalkIsComplete, Walk!WalkIsComplete
  <2> DEFINE v == made
             called == [i \in DOMAIN out |-> out[i].rec]
  <2>2. v \in Mfts /\ pos = Len(v) /\ aux = <<>> /\ mem = Known(v, Len(v))
    BY <2>1, InMft DEF Walk!Over, WalkOK
  <2>3. \A n : n \in 0..(Len(v) - 1) => Walk!IsRecord(v, n)
    BY <2>2, MftIsSeq
  <2>4. \A n : Met(v, pos, n) <=> /\ n \in 0..(Len(v) - 1)
                                  /\ Walk!Live(v, n) /\ Walk!HasName(v, n) /\ Walk!FileName(v, n).name \in Wanted
    BY <2>2, <2>3 DEF Met, Walk!Live, Walk!Matches
  <2>5. \A n : Walk!Rooted(v, n) =>
          (LeftOut(v, mem, n) <=> /\ Walk!FileName(v, n).name \in DollarI
                                  /\ ~ \E m \in Walk!Ancestors(v, n) \ {RootRef} :
                                         Walk!FileName(v, m).name \in RecycleNames)
    <3> TAKE n
    <3> HAVE Walk!Rooted(v, n)
    <3>1. Walk!Range(Walk!BuildPath(mem, n)) = {Walk!FileName(v, m).name : m \in Walk!Ancestors(v, n) \ {RootRef}}
      BY <2>2, RootedPath
    <3> QED BY <3>1 DEF LeftOut
  <2>6. \A i, j \in DOMAIN called : i < j => called[i] < called[j]
    BY <2>1 DEF WalkOK
  <2>7. \A i \in DOMAIN out : Walk!Due(v, out[i].rec)
    <3> TAKE i \in DOMAIN out
    <3>1. Met(v, pos, out[i].rec) /\ ~LeftOut(v, mem, out[i].rec)
      BY <2>1 DEF WalkOK
    <3> QED BY <2>4, <2>5, <3>1 DEF Walk!Due
  <2>8. ASSUME NEW n \in 0..(Len(v) - 1), Walk!Due(v, n), Walk!FileName(v, n).name \in DollarI => Walk!Rooted(v, n)
        PROVE  \E i \in DOMAIN out : out[i].rec = n
    <3>1. Met(v, pos, n)
      BY <2>4, <2>8 DEF Walk!Due
    <3>2. ~LeftOut(v, mem, n)
      <4>1. CASE Walk!FileName(v, n).name \notin DollarI
        BY <4>1 DEF LeftOut
      <4>2. CASE Walk!FileName(v, n).name \in DollarI
        <5>1. Walk!Rooted(v, n)
          BY <2>8, <4>2
        <5>2. \E m \in Walk!Ancestors(v, n) \ {RootRef} : Walk!FileName(v, m).name \in RecycleNames
          BY <2>8, <4>2, <5>1 DEF Walk!Due
        <5> QED BY <2>5, <5>1, <5>2
      <4> QED BY <4>1, <4>2
    <3> QED BY <2>1, <2>2, <3>1, <3>2 DEF WalkOK
  <2> QED BY <2>6, <2>7, <2>8 DEF Walk!WalkIsComplete, Walk!Range
<1> QED BY <1>1, WalkInvariant, PTL

\* What the walk takes for the stream of record n: the first unnamed $DATA of the record, or
\* what its attribute list leads to.
Stream(v, n) ==
  LET r == Walk!Rec(v, n)
      place == IF r.data # <<>> THEN [runs |-> r.data[1].runs, size |-> r.data[1].real]
               ELSE IF r.list # <<>> THEN Walk!CollectExt(v, n) ELSE [runs |-> <<>>, size |-> 0]
  IN [resident |-> r.data # <<>> /\ r.data[1].resident, runs |-> place.runs, size |-> place.size,
      unit |-> IF r.data # <<>> THEN r.data[1].unit ELSE IF r.list # <<>> /\ r.std THEN DefaultUnit ELSE 0]

IsOwn(v, c) ==
  LET s == Stream(v, c.rec)
  IN /\ c.reader = Walk!Reader(s) /\ c.runs = s.runs /\ c.size = s.size
     /\ c.unit = IF Walk!Reader(s) = "compressed" THEN s.unit ELSE 0
WaitsForOwn(v, p) ==
  LET s == Stream(v, p.rec)
  IN p.resident = s.resident /\ p.runs = s.runs /\ p.size = s.size /\ (~p.resident => p.unit = s.unit)

\* A delivered file's reader, runs, size and compression unit are those of its own record.
OwnStreams == job = "walk" => \A i \in DOMAIN out : IsOwn(made, out[i])
OwnOK == /\ \A i \in DOMAIN aux : WaitsForOwn(made, aux[i])
         /\ \A i \in DOMAIN out : IsOwn(made, out[i])

\* What is collected of a record is its own.
LEMMA PendingIsOwn ==
    ASSUME NEW n, n = pos
    PROVE  WaitsForOwn(made, Walk!Pending(n)) /\ Walk!Pending(n).rec = n
BY Zenon DEF WaitsForOwn, Stream, Walk!Pending, Walk!UnitAfter

\* What the callback is handed is what was collected.
LEMMA CallIsOwn ==
    ASSUME NEW p, WaitsForOwn(made, p)
    PROVE  IsOwn(made, Walk!Call(p))
<1> DEFINE s == Stream(made, p.rec)
<1>1. p.resident = s.resident /\ p.runs = s.runs /\ p.size = s.size /\ (~p.resident => p.unit = s.unit)
  BY DEF WaitsForOwn
<1>2. Walk!Reader(p) = Walk!Reader(s)
  <2> HIDE DEF s
  <2> QED BY <1>1 DEF Walk!Reader
<1>3. Walk!Reader(s) = "compressed" => p.unit = s.unit
  <2> HIDE DEF s
  <2> QED BY <1>1, <1>2 DEF Walk!Reader
<1>4. LET c == Walk!Call(p)
      IN  c.rec = p.rec /\ c.reader = Walk!Reader(p) /\ c.runs = p.runs /\ c.size = p.size
          /\ c.unit = IF Walk!Reader(p) = "compressed" THEN p.unit ELSE 0
  BY DEF Walk!Call
<1> HIDE DEF s
<1> QED BY <1>1, <1>2, <1>3, <1>4 DEF IsOwn, s

\* Whatever the record before it left in lastCompressed and lastCompUnit, which a resident
\* stream does not reset, a file is read as its own record says (extractDataRef and the
\* choice of the reader in WalkTargetFiles).
THEOREM WalkStreams == Spec => []OwnStreams
<1>1. Init => (job = "walk" => OwnOK)
  BY DEF Init, Walk!Init, OwnOK
<1>2. ASSUME job = "walk" => WalkOK, job = "walk" => OwnOK, [Next \/ Stopped]_vars, job' = "walk" PROVE OwnOK'
  <2>1. job = "walk" /\ WalkOK /\ OwnOK /\ (Walk!Next \/ UNCHANGED Walk!vars)
    BY <1>2, WalkSteps
  <2>2. CASE Walk!Skip \/ Walk!IndexOnly \/ UNCHANGED Walk!vars
    <3>1. made' = made /\ aux' = aux /\ out' = out
      BY <2>2 DEF Walk!Skip, Walk!IndexOnly, Walk!vars
    <3> QED BY <2>1, <3>1 DEF OwnOK
  <2>3. CASE Walk!Collect
    <3>1. made' = made /\ out' = out /\ aux' = Append(aux, Walk!Pending(pos)) /\ aux \in Seq(Walk!Range(aux))
      BY <2>1, <2>3 DEF Walk!Collect, WalkOK
    <3>2. \A i \in DOMAIN aux' : (i \in DOMAIN aux /\ aux'[i] = aux[i]) \/ aux'[i] = Walk!Pending(pos)
      BY <3>1, Longer
    <3>3. \A i \in DOMAIN aux' : WaitsForOwn(made, aux'[i])
      BY <2>1, <3>2, PendingIsOwn DEF OwnOK
    <3> QED BY <2>1, <3>1, <3>3 DEF OwnOK
  <2>4. CASE Walk!LeaveOut \/ Walk!CallFn
    <3>1. made' = made /\ aux' = Tail(aux) /\ aux # <<>> /\ aux \in Seq(Walk!Range(aux)) /\ out \in Seq(Walk!Range(out))
      BY <2>1, <2>4 DEF Walk!LeaveOut, Walk!CallFn, WalkOK
    <3>2. /\ 1 \in DOMAIN aux /\ Head(aux) = aux[1]
          /\ \A i \in DOMAIN aux' : i + 1 \in DOMAIN aux /\ aux'[i] = aux[i + 1]
      BY <3>1, Shorter
    <3>3. IsOwn(made, Walk!Call(Head(aux))) /\ \A i \in DOMAIN aux' : WaitsForOwn(made, aux'[i])
      BY <2>1, <3>2, CallIsOwn DEF OwnOK
    <3>4. out' = out \/ out' = Append(out, Walk!Call(Head(aux)))
      BY <2>4 DEF Walk!LeaveOut, Walk!CallFn
    <3>5. \A i \in DOMAIN out' : (i \in DOMAIN out /\ out'[i] = out[i]) \/ out'[i] = Walk!Call(Head(aux))
      BY <3>1, <3>4, Longer
    <3>6. \A i \in DOMAIN out' : IsOwn(made, out'[i])
      BY <2>1, <3>3, <3>5 DEF OwnOK
    <3> QED BY <3>1, <3>3, <3>6 DEF OwnOK
  <2> QED BY <2>1, <2>2, <2>3, <2>4 DEF Walk!Next
<1>3. (job = "walk" => WalkOK) /\ (job = "walk" => OwnOK) /\ [Next \/ Stopped]_vars => (job = "walk" => OwnOK)'
  BY <1>2
<1>4. (job = "walk" => OwnOK) => OwnStreams
  BY DEF OwnOK, OwnStreams
<1> QED BY <1>1, <1>3, <1>4, WalkInvariant, PTL DEF Spec
=============================================================================
