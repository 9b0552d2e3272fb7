------------------------------ MODULE MemoryProofs ------------------------------
(***************************************************************************)
(* Memory dumps, for every dump, however its pages refer to one another and *)
(* whichever inserts fail: of the connections that are stored each has one  *)
(* row, and the name of an owner that has the connection's number.          *)
(***************************************************************************)
EXTENDS ParserProofs

-----------------------------------------------------------------------------
(* Lists laid one behind another. *)

\* Induction, as far as it can be cited: on the numbers in a set.
LEMMA Induction ==
    ASSUME NEW S, 0 \in S, \A k \in Nat : k \in S => k + 1 \in S
    PROVE  Nat \subseteq S
<1> DEFINE T == Nat \ S
<1>1. SUFFICES ASSUME T # {} PROVE FALSE
  OBVIOUS
<1>2. PICK k \in T : \A j \in T : <<j, k>> \notin OpToRel(<, Nat)
  <2> HIDE DEF T
  <2>1. T \subseteq Nat
    BY DEF T
  <2> QED BY <1>1, <2>1, WFMin, NatLessThanWellFounded, Zenon
<1>3. \A j \in T : ~ (j < k)
  BY <1>2, Zenon DEF OpToRel
<1>4. k \in Nat \ {0} /\ k - 1 \in Nat /\ k - 1 < k
  OBVIOUS
<1>5. k - 1 \in S
  BY <1>3, <1>4
<1> QED BY <1>4, <1>5

\* The lists of s up to the k-th, one behind another.
IsFlat(f, s, k) == f = [i \in 1..k |-> IF i = 1 THEN s[i] ELSE f[i - 1] \o s[i]]

LEMMA FlatExists == ASSUME NEW s, NEW n \in Nat PROVE \E f : IsFlat(f, s, n)
<1> DEFINE S == {k \in Nat : \E f : IsFlat(f, s, k)}
<1>1. 0 \in S
  <2>1. IsFlat([i \in 1..0 |-> s[i]], s, 0)
    BY DEF IsFlat
  <2> QED BY <2>1
<1>2. ASSUME NEW k \in Nat, k \in S PROVE k + 1 \in S
  <2>1. PICK f : IsFlat(f, s, k)
    BY <1>2
  <2> DEFINE g == [i \in 1..(k + 1) |-> IF i = k + 1 THEN IF k = 0 THEN s[1] ELSE f[k] \o s[k + 1] ELSE f[i]]
  <2>2. \A i \in 1..k : g[i] = f[i]
    OBVIOUS
  <2>3. \A i \in 1..(k + 1) : g[i] = IF i = 1 THEN s[i] ELSE g[i - 1] \o s[i]
    <3> TAKE i \in 1..(k + 1)
    <3>1. CASE i = k + 1 /\ k = 0
      BY <3>1
    <3>2. CASE i = k + 1 /\ k # 0
      <4>1. g[k + 1] = f[k] \o s[k + 1]
        BY <3>2
      <4>2. g[k] = f[k] /\ i - 1 = k /\ i # 1
        BY <2>2, <3>2
      <4> QED BY <3>2, <4>1, <4>2
    <3>3. CASE i \in 1..k
      <4>1. g[i] = f[i] /\ f[i] = IF i = 1 THEN s[i] ELSE f[i - 1] \o s[i]
        BY <2>1, <2>2, <3>3 DEF IsFlat
      <4>2. i # 1 => i - 1 \in 1..k /\ g[i - 1] = f[i - 1]
        BY <2>2, <3>3
      <4> QED BY <4>1, <4>2
    <3> QED BY <3>1, <3>2, <3>3
  <2>4. IsFlat(g, s, k + 1)
    BY <2>3 DEF IsFlat
  <2>5. \E h : IsFlat(h, s, k + 1)
    <3> HIDE DEF g
    <3> QED BY <2>4
  <2> QED BY <2>5
<1>3. Nat \subseteq S
  <2> HIDE DEF S
  <2> QED BY <1>1, <1>2, Induction
<1> QED BY <1>3

LEMMA FlattenStep ==
    ASSUME NEW s, Len(s) \in Nat \ {0}
    PROVE  \E f : /\ f[1] = s[1] /\ \A i \in 2..Len(s) : f[i] = f[i - 1] \o s[i]
                  /\ Memory!FlattenSeq(s) = f[Len(s)]
<1> DEFINE f == CHOOSE g : IsFlat(g, s, Len(s))
<1>1. IsFlat(f, s, Len(s))
  <2>1. \E g : IsFlat(g, s, Len(s))
    BY FlatExists
  <2> QED BY <2>1
<1>2. Memory!FlattenSeq(s) = f[Len(s)]
  BY DEF Memory!FlattenSeq, IsFlat
<1> HIDE DEF f
<1>3. \A i \in 1..Len(s) : f[i] = IF i = 1 THEN s[i] ELSE f[i - 1] \o s[i]
  <2>1. f = [i \in 1..Len(s) |-> IF i = 1 THEN s[i] ELSE f[i - 1] \o s[i]]
    BY <1>1 DEF IsFlat
  <2> QED BY <2>1, Zenon
<1>4. 1 \in 1..Len(s) /\ \A i \in 2..Len(s) : i \in 1..Len(s) /\ i # 1
  OBVIOUS
<1> QED BY <1>2, <1>3, <1>4

\* x is an element of one of the first k lists.
IsFrom(x, s, k) == \E i \in 1..k : \E y \in DOMAIN s[i] : x = s[i][y]

\* What is put together from lists is a list of their elements.
LEMMA FlattenFacts ==
    ASSUME NEW s, IsSequence(s), \A i \in 1..Len(s) : IsSequence(s[i])
    PROVE  /\ IsSequence(Memory!FlattenSeq(s))
           /\ \A x \in DOMAIN Memory!FlattenSeq(s) : IsFrom(Memory!FlattenSeq(s)[x], s, Len(s))
<1>1. CASE Len(s) = 0
  <2>1. Memory!FlattenSeq(s) = s /\ DOMAIN s = {}
    BY <1>1, SequenceIs DEF Memory!FlattenSeq
  <2> QED BY <2>1
<1>2. CASE Len(s) # 0
  <2>1. Len(s) \in Nat \ {0}
    BY <1>2 DEF IsSequence
  <2>2. PICK f : /\ f[1] = s[1] /\ \A i \in 2..Len(s) : f[i] = f[i - 1] \o s[i]
                 /\ Memory!FlattenSeq(s) = f[Len(s)]
    BY <2>1, FlattenStep
  <2> DEFINE Good(k) == IsSequence(f[k]) /\ \A x \in DOMAIN f[k] : IsFrom(f[k][x], s, k)
             S == {k \in Nat : k + 1 <= Len(s) => Good(k + 1)}
  <2>3. 0 \in S
    <3>1. Good(1)
      BY <2>1, <2>2 DEF IsFrom
    <3> QED BY <3>1
  <2>4. ASSUME NEW k \in Nat, k \in S PROVE k + 1 \in S
    <3>1. SUFFICES ASSUME (k + 1) + 1 <= Len(s) PROVE Good((k + 1) + 1)
      OBVIOUS
    <3> DEFINE n == k + 2
    <3>2. Good(k + 1) /\ n \in 2..Len(s) /\ n - 1 = k + 1 /\ n = (k + 1) + 1
      BY <2>1, <2>4, <3>1
    <3>3. f[n] = f[k + 1] \o s[n] /\ IsSequence(s[n]) /\ IsSequence(f[k + 1])
      <4> HIDE DEF n
      <4>1. n \in 2..Len(s) /\ n - 1 = k + 1 /\ n \in 1..Len(s)
        <5> HIDE DEF Good
        <5> QED BY <2>1, <3>2
      <4>2. f[n] = f[n - 1] \o s[n]
        BY <2>2, <4>1
      <4> QED BY <3>2, <4>1, <4>2
    <3> DEFINE a == f[k + 1]
               b == s[n]
               c == f[n]
    <3>4. /\ IsSequence(c) /\ Len(c) = Len(a) + Len(b) /\ Len(a) \in Nat /\ Len(b) \in Nat
          /\ \A i \in 1..Len(a) : c[i] = a[i]
          /\ \A i \in 1..(Len(a) + Len(b)) : i > Len(a) => c[i] = b[i - Len(a)] /\ i - Len(a) \in 1..Len(b)
      <4>1. IsSequence(a) /\ IsSequence(b) /\ c = a \o b
        BY <3>3
      <4> HIDE DEF a, b, c
      <4>2. Len(a) \in Nat /\ Len(b) \in Nat
        BY <4>1 DEF IsSequence
      <4> QED BY <4>1, <4>2, Joined
    <3>5. DOMAIN a = 1..Len(a) /\ DOMAIN b = 1..Len(b) /\ DOMAIN c = 1..Len(c)
      BY <3>3, <3>4, SequenceIs
    <3>6. \A x \in DOMAIN a : IsFrom(a[x], s, k + 1)
      BY <3>2
    <3> HIDE DEF a, b, c
    <3>7. ASSUME NEW x \in DOMAIN c PROVE IsFrom(c[x], s, n)
      <4>1. CASE x \in 1..Len(a)
        <5>1. PICK i \in 1..(k + 1) : \E y \in DOMAIN s[i] : a[x] = s[i][y]
          BY <3>5, <3>6, <4>1 DEF IsFrom
        <5>2. i \in 1..n
          OBVIOUS
        <5> QED BY <3>4, <4>1, <5>1, <5>2 DEF IsFrom
      <4>2. CASE x \notin 1..Len(a)
        <5>1. x \in 1..(Len(a) + Len(b)) /\ x > Len(a)
          BY <3>4, <3>5, <4>2
        <5>2. c[x] = b[x - Len(a)] /\ x - Len(a) \in 1..Len(b) /\ n \in 1..n
          BY <3>4, <5>1
        <5>3. x - Len(a) \in DOMAIN s[n] /\ c[x] = s[n][x - Len(a)]
          BY <3>5, <5>2 DEF b
        <5> QED BY <5>2, <5>3 DEF IsFrom
      <4> QED BY <4>1, <4>2
    <3>8. Good(n)
      BY <3>4, <3>7 DEF c
    <3> HIDE DEF Good
    <3> QED BY <3>2, <3>8
  <2>5. Nat \subseteq S
    <3> HIDE DEF S
    <3> QED BY <2>3, <2>4, Induction
  <2>6. Good(Len(s))
    <3>1. Len(s) - 1 \in S /\ (Len(s) - 1) + 1 = Len(s) /\ Len(s) <= Len(s)
      <4> HIDE DEF S
      <4>1. Len(s) - 1 \in Nat /\ (Len(s) - 1) + 1 = Len(s) /\ Len(s) <= Len(s)
        BY <2>1
      <4> QED BY <2>5, <4>1
    <3> QED BY <3>1
  <2> QED BY <2>2, <2>6
<1> QED BY <1>1, <1>2, SequenceIs DEF IsSequence

\* When no list has two elements, two of the elements come from two lists.
LEMMA FlattenApart ==
    ASSUME NEW s, IsSequence(s), \A i \in 1..Len(s) : IsSequence(s[i]) /\ Len(s[i]) <= 1
    PROVE  LET flat == Memory!FlattenSeq(s)
           IN  \A x, y \in DOMAIN flat : x # y =>
                 \E i, j \in 1..Len(s) : /\ i # j /\ 1 \in DOMAIN s[i] /\ 1 \in DOMAIN s[j]
                                        /\ flat[x] = s[i][1] /\ flat[y] = s[j][1]
<1> DEFINE Of(c, x, k) == \E i \in 1..k : 1 \in DOMAIN s[i] /\ c[x] = s[i][1]
           Apart(c, k) == \A x, y \in DOMAIN c : x # y =>
                            \E i, j \in 1..k : /\ i # j /\ 1 \in DOMAIN s[i] /\ 1 \in DOMAIN s[j]
                                              /\ c[x] = s[i][1] /\ c[y] = s[j][1]
<1>1. CASE Len(s) = 0
  <2>1. Memory!FlattenSeq(s) = s /\ DOMAIN s = {}
    BY <1>1, SequenceIs DEF Memory!FlattenSeq
  <2> QED BY <2>1
<1>2. CASE Len(s) # 0
  <2>1. Len(s) \in Nat \ {0}
    BY <1>2 DEF IsSequence
  <2>2. PICK f : /\ f[1] = s[1] /\ \A i \in 2..Len(s) : f[i] = f[i - 1] \o s[i]
                 /\ Memory!FlattenSeq(s) = f[Len(s)]
    BY <2>1, FlattenStep
  <2> DEFINE Good(k) == IsSequence(f[k]) /\ (\A x \in DOMAIN f[k] : Of(f[k], x, k)) /\ Apart(f[k], k)
             S == {k \in Nat : k + 1 <= Len(s) => Good(k + 1)}
  <2>3. \A i \in 1..Len(s) : Len(s[i]) \in {0, 1} /\ DOMAIN s[i] \subseteq {1}
    <3> TAKE i \in 1..Len(s)
    <3>1. IsSequence(s[i]) /\ Len(s[i]) <= 1
      OBVIOUS
    <3>2. Len(s[i]) \in Nat /\ DOMAIN s[i] = 1..Len(s[i])
      BY <3>1, SequenceIs
    <3>3. \A n \in Nat : n <= 1 => n \in {0, 1} /\ 1..n \subseteq {1}
      OBVIOUS
    <3> QED BY <3>1, <3>2, <3>3, Zenon
  <2>4. 0 \in S
    <3>1. IsSequence(s[1]) /\ DOMAIN s[1] \subseteq {1} /\ 1 \in 1..1
      BY <2>1, <2>3
    <3>2. Good(1)
      BY <2>2, <3>1
    <3> HIDE DEF Good
    <3> QED BY <3>2
  <2>5. ASSUME NEW k \in Nat, k \in S PROVE k + 1 \in S
    <3>1. SUFFICES ASSUME (k + 1) + 1 <= Len(s) PROVE Good((k + 1) + 1)
      OBVIOUS
    <3> DEFINE n == k + 2
               a == f[k + 1]
               b == s[n]
               c == f[n]
    <3>2. Good(k + 1) /\ n \in 2..Len(s) /\ n - 1 = k + 1 /\ n = (k + 1) + 1 /\ n \in 1..Len(s)
      BY <2>1, <2>5, <3>1
    <3>3. c = a \o b /\ IsSequence(b) /\ IsSequence(a) /\ Len(b) \in {0, 1} /\ DOMAIN b \subseteq {1}
      <4> HIDE DEF n
      <4>1. f[n] = f[n - 1] \o s[n]
        BY <2>1, <2>2, <3>2
      <4> QED BY <2>3, <3>2, <4>1
    <3>4. /\ IsSequence(c) /\ Len(c) = Len(a) + Len(b) /\ Len(a) \in Nat
          /\ \A i \in 1..Len(a) : c[i] = a[i]
          /\ \A i \in 1..(Len(a) + Len(b)) : i > Len(a) => c[i] = b[i - Len(a)] /\ i - Len(a) \in 1..Len(b)
      <4> HIDE DEF a, b, c
      <4>1. Len(a) \in Nat
        BY <3>3 DEF IsSequence
      <4> QED BY <3>3, <4>1, Joined
    <3>5. DOMAIN a = 1..Len(a) /\ DOMAIN b = 1..Len(b) /\ DOMAIN c = 1..Len(c)
      <4> HIDE DEF a, b, c
      <4> QED BY <3>3, <3>4, SequenceIs
    <3>6. (\A x \in DOMAIN a : Of(a, x, k + 1)) /\ Apart(a, k + 1)
      BY <3>2
    <3> HIDE DEF a, c
    <3>7. \A x \in DOMAIN c : x \in DOMAIN a \/ (x = Len(a) + 1 /\ 1 \in DOMAIN s[n] /\ c[x] = s[n][1])
      <4> TAKE x \in DOMAIN c
      <4>1. CASE x \in 1..Len(a)
        BY <3>5, <4>1
      <4>2. CASE x \notin 1..Len(a)
        <5>1. x \in 1..(Len(a) + Len(b)) /\ x > Len(a)
          BY <3>3, <3>4, <3>5, <4>2
        <5>2. c[x] = b[x - Len(a)] /\ x - Len(a) \in 1..Len(b)
          BY <3>4, <5>1
        <5>3. x - Len(a) = 1
          BY <3>3, <3>4, <5>1, <5>2
        <5>4. 1 \in DOMAIN b /\ c[x] = b[1] /\ x = Len(a) + 1
          BY <3>4, <3>5, <5>1, <5>2, <5>3
        <5> QED BY <5>4
      <4> QED BY <4>1, <4>2
    <3>8. \A x \in DOMAIN a : \E i \in 1..n : i # n /\ 1 \in DOMAIN s[i] /\ c[x] = s[i][1]
      <4> TAKE x \in DOMAIN a
      <4>1. PICK i \in 1..(k + 1) : 1 \in DOMAIN s[i] /\ a[x] = s[i][1]
        BY <3>6
      <4>2. c[x] = a[x] /\ i \in 1..n /\ i # n
        BY <3>4, <3>5
      <4> QED BY <4>1, <4>2
    <3>9. \A x \in DOMAIN c : Of(c, x, n)
      <4>1. n \in 1..n
        OBVIOUS
      <4> QED BY <3>7, <3>8, <4>1
    <3>10. ASSUME NEW x \in DOMAIN c, NEW y \in DOMAIN c, x # y
           PROVE  \E i, j \in 1..n : /\ i # j /\ 1 \in DOMAIN s[i] /\ 1 \in DOMAIN s[j]
                                     /\ c[x] = s[i][1] /\ c[y] = s[j][1]
      <4>1. n \in 1..n
        OBVIOUS
      <4>2. CASE x \in DOMAIN a /\ y \in DOMAIN a
        <5>1. PICK i, j \in 1..(k + 1) : /\ i # j /\ 1 \in DOMAIN s[i] /\ 1 \in DOMAIN s[j]
                                        /\ a[x] = s[i][1] /\ a[y] = s[j][1]
          BY <3>6, <3>10, <4>2
        <5>2. c[x] = a[x] /\ c[y] = a[y] /\ i \in 1..n /\ j \in 1..n
          BY <3>4, <3>5, <4>2
        <5> QED BY <5>1, <5>2
      <4>3. CASE x \in DOMAIN a /\ y \notin DOMAIN a
        BY <3>7, <3>8, <4>1, <4>3
      <4>4. CASE x \notin DOMAIN a /\ y \in DOMAIN a
        BY <3>7, <3>8, <4>1, <4>4
      <4>5. CASE x \notin DOMAIN a /\ y \notin DOMAIN a
        BY <3>7, <3>10, <4>5
      <4> QED BY <4>2, <4>3, <4>4, <4>5
    <3>11. Good(n)
      BY <3>4, <3>9, <3>10 DEF c
    <3> HIDE DEF Good
    <3> QED BY <3>2, <3>11
  <2>6. Nat \subseteq S
    <3> HIDE DEF S
    <3> QED BY <2>4, <2>5, Induction
  <2>7. Good(Len(s))
    <3>1. Len(s) - 1 \in S /\ (Len(s) - 1) + 1 = Len(s) /\ Len(s) <= Len(s)
      <4> HIDE DEF S
      <4> QED BY <2>1, <2>6
    <3> QED BY <3>1
  <2> QED BY <2>2, <2>7
<1> QED BY <1>1, <1>2

LEMMA FlattenTypes == ASSUME NEW S, NEW s \in Seq(Seq(S)) PROVE Memory!FlattenSeq(s) \in Seq(S)
<1> DEFINE flat == Memory!FlattenSeq(s)
<1>1. IsSequence(s) /\ \A i \in 1..Len(s) : IsSequence(s[i]) /\ \A y \in DOMAIN s[i] : s[i][y] \in S
  <2>1. IsSequence(s)
    BY IsSequenceOf
  <2>2. ASSUME NEW i \in 1..Len(s) PROVE IsSequence(s[i]) /\ \A y \in DOMAIN s[i] : s[i][y] \in S
    <3>1. s[i] \in Seq(S)
      OBVIOUS
    <3> QED BY <3>1, IsSequenceOf
  <2> QED BY <2>1, <2>2
<1>2. IsSequence(flat) /\ \A x \in DOMAIN flat : IsFrom(flat[x], s, Len(s))
  BY <1>1, FlattenFacts
<1> HIDE DEF flat
<1>3. DOMAIN flat = 1..Len(flat) /\ Len(flat) \in Nat /\ flat = [i \in 1..Len(flat) |-> flat[i]]
  BY <1>2, SequenceIs DEF IsSequence
<1>4. \A x \in DOMAIN flat : flat[x] \in S
  BY <1>1, <1>2 DEF IsFrom
<1>5. flat \in [1..Len(flat) -> S]
  BY <1>3, <1>4
<1>6. flat \in Seq(S)
  BY <1>3, <1>5
<1> QED BY <1>6 DEF flat

LEMMA UpToTypes == ASSUME NEW S, NEW s \in Seq(S), NEW n \in Nat PROVE Memory!UpTo(n, s) \in Seq(S)
BY DEF Memory!UpTo

-----------------------------------------------------------------------------
(***************************************************************************)
(* What holds at every step.  Until the blocks of a connection have been    *)
(* brought together no connection is stored or about to be; from then on,    *)
(* unless the table was full, those that are stored and those that are      *)
(* about to be are of different connections.  Their owners' names come from  *)
(* what was taken for a block of a process, and stand there with the         *)
(* number.                                                                  *)
(***************************************************************************)

\* A number that is not 0 stands in a page together with the name.
IsKnown(p) == p.pid # 0 => <<p.pid, p.name>> \in made.truth.known
AreKnown(procs) == IsSequence(procs) /\ \A i \in DOMAIN procs : {"pid", "name"} \subseteq DOMAIN procs[i] /\ IsKnown(procs[i])

ConnFields == {"table", "proto", "local", "remote", "state", "pid", "name"}
\* What a block says of the owner stands in a page, or it says nothing.
IsConn(c) == /\ DOMAIN c = ConnFields /\ c.table = "netscan"
             /\ c.pid # 0 /\ c.name # "" => <<c.pid, c.name>> \in made.truth.known
AreConns(conns) == IsSequence(conns) /\ \A i \in DOMAIN conns : IsConn(conns[i])

ConnsOf(rows) == {i \in DOMAIN rows : rows[i].table = "netscan"}
NoConns(rows) == ConnsOf(rows) = {}
AreOwned(rows) == \A i \in ConnsOf(rows) : rows[i].pid # 0 /\ rows[i].name # "?" => <<rows[i].pid, rows[i].name>> \in made.truth.known
AreApart(rows) == \A i, j \in ConnsOf(rows) : Memory!Key(rows[i]) = Memory!Key(rows[j]) => i = j
ApartFrom(rows, more) == \A i \in ConnsOf(rows), j \in ConnsOf(more) : Memory!Key(rows[i]) # Memory!Key(more[j])

DumpFields == {"runs", "cr3", "profile", "seen", "procs", "scanned", "conns", "mods", "queue"}
BeforeConns == {"open", "cr3", "profile", "walk", "psscan", "net", "conns"}
MemoryOK ==
  /\ made \in Dumps /\ DOMAIN mem = DumpFields
  /\ stage \in BeforeConns \cup {"modules", "malfind", "sysinfo"}
  /\ IsSequence(out) /\ IsSequence(mem.queue)
  /\ IsSequence(mem.runs) /\ \A i \in DOMAIN mem.runs : mem.runs[i].base \in Nat /\ mem.runs[i].count \in Nat
  /\ AreKnown(mem.procs) /\ AreKnown(mem.scanned) /\ AreConns(mem.conns)
  /\ IsSequence(mem.mods) /\ NoConns(mem.mods)
  /\ stage \in BeforeConns => NoConns(out) /\ NoConns(mem.queue)
  /\ stage = "conns" => mem.queue = <<>>
  /\ AreOwned(out) /\ AreOwned(mem.queue)
  /\ Len(mem.conns) < Limits.conns => AreApart(out) /\ AreApart(mem.queue) /\ ApartFrom(out, mem.queue)

LEMMA MemorySteps ==
    ASSUME [Next \/ Stopped]_vars
    PROVE  job' = job /\ (job = "memory" => Memory!Next \/ UNCHANGED Memory!vars)
BY DEF Next, Stopped, Reads, vars, shared, Memory!vars

-----------------------------------------------------------------------------
(* What the pages hold. *)

\* What is read of a region leads to others and what is read of a process to its regions,
\* whatever the page is, and a process's number and name stand in it.
RegionOK(vad) == vad.left \in Seq(Int) /\ vad.right \in Seq(Int)
BlockOK(block) == block.vad \in Seq(Int) /\ IsKnown(block)
PageOK(page) ==
  Memory!IsThere(page) => RegionOK(Memory!As({"vad"}, page)) /\ \A profile : BlockOK(Memory!Block(page, profile))

\* What a read returns is a page of the file, or absent.
LEMMA PhysIs == ASSUME made \in Dumps, NEW p PROVE PageOK(Memory!Phys(p))
<1> DEFINE pages == made.file.pages
<1>1. \A page \in Memory!ToSet(pages) : PageOK(page)
  <2> SUFFICES ASSUME NEW page \in Memory!ToSet(pages) PROVE PageOK(page)
    OBVIOUS
  <2>1. /\ page.kind = "vad" => RegionOK(page)
        /\ page.kind = "eproc" => BlockOK(page)
        /\ RegionOK(page.junk) /\ BlockOK(page.junk)
    BY DecoderAssumptions DEF Memory!DumpAssumption, RegionOK, BlockOK, IsKnown
  <2> QED BY <2>1 DEF PageOK, Memory!As, Memory!Block
<1>2. \A i \in DOMAIN pages : pages[i] \in Memory!ToSet(pages)
  BY DEF Memory!ToSet
<1>3. Memory!Phys(p) = Memory!Absent \/ \E i \in DOMAIN pages : Memory!Phys(p) = pages[i]
  BY DEF Memory!Phys, Memory!file
<1>4. PageOK(Memory!Absent)
  BY DEF PageOK, Memory!Absent, Memory!IsThere
<1> QED BY <1>1, <1>2, <1>3, <1>4

LEMMA ViewIs == ASSUME made \in Dumps, NEW cr3, NEW va PROVE PageOK(Memory!View(cr3, va))
<1>1. PageOK(Memory!Absent)
  BY DEF PageOK, Memory!Absent, Memory!IsThere
<1>2. \A p : PageOK(Memory!Phys(p))
  BY PhysIs
<1>3. Memory!View(cr3, va) = Memory!Absent \/ Memory!View(cr3, va) = Memory!Phys(Memory!Translate[cr3, va])
  BY DEF Memory!View
<1> QED BY <1>1, <1>2, <1>3

LEMMA MemoryConstants == {Limits.conns, Limits.scanned, Limits.depth, MaxRowFaults} \subseteq Nat
BY DecoderAssumptions DEF Memory!DumpAssumption

\* The blocks of processes that a search of the pages finds.
LEMMA BlocksKnown ==
    ASSUME made \in Dumps, IsSequence(mem.runs),
           \A i \in DOMAIN mem.runs : mem.runs[i].base \in Nat /\ mem.runs[i].count \in Nat
    PROVE  AreKnown(Memory!Blocks)
<1> DEFINE P == {Memory!Process(Memory!AsVirtual(q), Memory!Phys(q)) :
                   q \in {r \in Int : Memory!EProc(Memory!Phys(r), mem.profile) /\ Memory!Block(Memory!Phys(r), mem.profile).sane}}
           of(i) == [j \in 1..mem.runs[i].count |-> Memory!BlockAt(mem.runs[i].base + j - 1)]
           found == [i \in DOMAIN mem.runs |-> Memory!FlattenSeq(of(i))]
<1>1. \A q \in Int : Memory!BlockAt(q) \in Seq(P)
  <2> TAKE q \in Int
  <2>1. CASE Memory!EProc(Memory!Phys(q), mem.profile) /\ Memory!Block(Memory!Phys(q), mem.profile).sane
    <3>1. Memory!BlockAt(q) = <<Memory!Process(Memory!AsVirtual(q), Memory!Phys(q))>>
      BY <2>1 DEF Memory!BlockAt
    <3>2. Memory!Process(Memory!AsVirtual(q), Memory!Phys(q)) \in P
      BY <2>1
    <3> HIDE DEF P
    <3> QED BY <3>1, <3>2
  <2>2. CASE ~(Memory!EProc(Memory!Phys(q), mem.profile) /\ Memory!Block(Memory!Phys(q), mem.profile).sane)
    <3>1. Memory!BlockAt(q) = <<>>
      BY <2>2 DEF Memory!BlockAt
    <3> HIDE DEF P
    <3> QED BY <3>1
  <2> QED BY <2>1, <2>2
<1>2. \A p \in P : {"pid", "name"} \subseteq DOMAIN p /\ IsKnown(p)
  <2>1. \A q \in Int : Memory!IsThere(Memory!Phys(q)) => IsKnown(Memory!Block(Memory!Phys(q), mem.profile))
    BY PhysIs DEF PageOK, BlockOK
  <2>2. \A q \in Int : LET p == Memory!Process(Memory!AsVirtual(q), Memory!Phys(q))
                          b == Memory!Block(Memory!Phys(q), mem.profile)
                      IN {"pid", "name"} \subseteq DOMAIN p /\ p.pid = b.pid /\ p.name = b.name
    BY DEF Memory!Process
  <2>3. \A q \in Int : Memory!EProc(Memory!Phys(q), mem.profile) => Memory!IsThere(Memory!Phys(q))
    BY Zenon DEF Memory!EProc
  <2> QED BY <2>1, <2>2, <2>3 DEF IsKnown
<1> HIDE DEF P
<1>3. \A i \in DOMAIN mem.runs : Memory!FlattenSeq(of(i)) \in Seq(P)
  <2> TAKE i \in DOMAIN mem.runs
  <2>1. \A j \in 1..mem.runs[i].count : mem.runs[i].base + j - 1 \in Int
    OBVIOUS
  <2>2. \A j \in 1..mem.runs[i].count : Memory!BlockAt(mem.runs[i].base + j - 1) \in Seq(P)
    BY <1>1, <2>1
  <2>3. of(i) \in Seq(Seq(P))
    BY <2>2
  <2> HIDE DEF of
  <2> QED BY <2>3, FlattenTypes
<1> HIDE DEF of
<1>4. found \in Seq(Seq(P))
  <2>1. DOMAIN mem.runs = 1..Len(mem.runs) /\ Len(mem.runs) \in Nat
    BY SequenceIs
  <2> QED BY <1>3, <2>1
<1>5. Memory!Blocks = Memory!UpTo(Limits.scanned, Memory!FlattenSeq(found))
  BY DEF Memory!Blocks, of
<1> HIDE DEF found
<1>6. Memory!Blocks \in Seq(P)
  BY <1>4, <1>5, FlattenTypes, UpToTypes, MemoryConstants
<1>7. IsSequence(Memory!Blocks) /\ \A i \in DOMAIN Memory!Blocks : Memory!Blocks[i] \in P
  BY <1>6, IsSequenceOf
<1> QED BY <1>2, <1>7 DEF AreKnown

-----------------------------------------------------------------------------
(* What is found of connections. *)

\* The blocks of connections, and the names that they give their owners.
LEMMA ConnIs ==
    ASSUME made \in Dumps, NEW page, NEW e
    PROVE  IsConn(Memory!Conn(page, e))
<1> DEFINE owner == Memory!View(mem.cr3, page.owner)
           c == Memory!Conn(page, e)
           block == Memory!Block(owner, mem.profile)
<1>1. Memory!IsThere(owner) => IsKnown(block)
  BY ViewIs DEF PageOK, BlockOK
<1>2. \/ Memory!PoolOwner(page) = ""
      \/ Memory!IsThere(owner) /\ page.pid \in {0, block.pid} /\ Memory!PoolOwner(page) = block.name
  <2>1. Memory!PoolOwner(page) = IF Memory!IsThere(owner) /\ page.pid \in {0, block.pid} THEN block.name ELSE ""
    BY DEF Memory!PoolOwner
  <2> HIDE DEF owner, block
  <2> QED BY <2>1, Zenon
<1> HIDE DEF owner, block
<1>3. DOMAIN c = ConnFields /\ c.table = "netscan" /\ c.pid = page.pid /\ c.name = Memory!PoolOwner(page)
  BY DEF Memory!Conn, ConnFields
<1> HIDE DEF c
<1>4. c.pid # 0 /\ c.name # "" => <<c.pid, c.name>> \in made.truth.known
  <2> SUFFICES ASSUME c.pid # 0, c.name # "" PROVE <<c.pid, c.name>> \in made.truth.known
    OBVIOUS
  <2>1. Memory!IsThere(owner) /\ page.pid \in {0, block.pid} /\ c.name = block.name
    BY <1>2, <1>3, Zenon
  <2>2. IsKnown(block) /\ c.pid = block.pid
    BY <1>1, <1>3, <2>1
  <2> QED BY <2>1, <2>2 DEF IsKnown
<1> QED BY <1>3, <1>4 DEF IsConn, c

LEMMA EndpointsAre ==
    ASSUME made \in Dumps, IsSequence(mem.runs),
           \A i \in DOMAIN mem.runs : mem.runs[i].base \in Nat /\ mem.runs[i].count \in Nat
    PROVE  AreConns(Memory!Endpoints)
<1> DEFINE at(q) == Memory!Conn(Memory!Phys(q), Memory!Entries(Memory!Phys(q)))
           C == {at(q) : q \in Int}
           of(i) == [j \in 1..mem.runs[i].count |-> Memory!ConnOf(Memory!Phys(mem.runs[i].base + j - 1))]
           found == [i \in DOMAIN mem.runs |-> Memory!FlattenSeq(of(i))]
<1>1. \A q \in Int : Memory!ConnOf(Memory!Phys(q)) \in Seq(C)
  <2> TAKE q \in Int
  <2>1. Memory!ConnOf(Memory!Phys(q)) \in {<<>>, <<at(q)>>}
    BY DEF Memory!ConnOf
  <2>2. at(q) \in C
    OBVIOUS
  <2> HIDE DEF C
  <2>3. <<>> \in Seq(C) /\ \A e \in C : <<e>> \in Seq(C)
    OBVIOUS
  <2> HIDE DEF at
  <2> QED BY <2>1, <2>2, <2>3, Zenon
<1>2. \A c \in C : IsConn(c)
  BY ConnIs
<1> HIDE DEF C, at
<1>3. \A i \in DOMAIN mem.runs : Memory!FlattenSeq(of(i)) \in Seq(C)
  <2> TAKE i \in DOMAIN mem.runs
  <2>1. \A j \in 1..mem.runs[i].count : mem.runs[i].base + j - 1 \in Int
    OBVIOUS
  <2>2. \A j \in 1..mem.runs[i].count : Memory!ConnOf(Memory!Phys(mem.runs[i].base + j - 1)) \in Seq(C)
    BY <1>1, <2>1
  <2>3. of(i) \in Seq(Seq(C))
    BY <2>2
  <2> HIDE DEF of
  <2> QED BY <2>3, FlattenTypes
<1> HIDE DEF of
<1>4. found \in Seq(Seq(C))
  <2>1. DOMAIN mem.runs = 1..Len(mem.runs) /\ Len(mem.runs) \in Nat
    BY SequenceIs
  <2> QED BY <1>3, <2>1
<1>5. Memory!Endpoints = Memory!UpTo(Limits.conns, Memory!FlattenSeq(found))
  BY DEF Memory!Endpoints, of
<1> HIDE DEF found
<1>6. Memory!Endpoints \in Seq(C)
  BY <1>4, <1>5, FlattenTypes, UpToTypes, MemoryConstants
<1>7. IsSequence(Memory!Endpoints) /\ \A i \in DOMAIN Memory!Endpoints : Memory!Endpoints[i] \in C
  BY <1>6, IsSequenceOf
<1> QED BY <1>2, <1>7 DEF AreConns

\* Of the blocks of one connection, one is the best.
LEMMA DistinctIs ==
    ASSUME NEW conns, AreConns(conns)
    PROVE  /\ AreConns(Memory!Distinct(conns))
           /\ \A x, y \in DOMAIN Memory!Distinct(conns) :
                Memory!Key(Memory!Distinct(conns)[x]) = Memory!Key(Memory!Distinct(conns)[y]) => x = y
<1> DEFINE piece(i) == IF Memory!IsBest(conns, i) /\ Memory!IsReal(conns[i]) THEN <<conns[i]>> ELSE <<>>
           s == [i \in DOMAIN conns |-> piece(i)]
           flat == Memory!FlattenSeq(s)
<1>1. IsSequence(conns) /\ DOMAIN conns = 1..Len(conns) /\ Len(conns) \in Nat
  BY SequenceIs DEF AreConns
<1>2. \A i \in DOMAIN conns : /\ IsSequence(piece(i)) /\ Len(piece(i)) <= 1 /\ DOMAIN piece(i) \subseteq {1}
                              /\ 1 \in DOMAIN piece(i) => piece(i)[1] = conns[i] /\ Memory!IsBest(conns, i)
  <2> TAKE i \in DOMAIN conns
  <2>1. CASE Memory!IsBest(conns, i) /\ Memory!IsReal(conns[i])
    <3>1. piece(i) = <<conns[i]>>
      BY <2>1
    <3> HIDE DEF piece
    <3> QED BY <2>1, <3>1 DEF IsSequence
  <2>2. CASE ~(Memory!IsBest(conns, i) /\ Memory!IsReal(conns[i]))
    <3>1. piece(i) = <<>>
      BY <2>2
    <3> HIDE DEF piece
    <3> QED BY <3>1 DEF IsSequence
  <2> QED BY <2>1, <2>2
<1>3. Memory!Distinct(conns) = flat
  BY DEF Memory!Distinct
<1> HIDE DEF piece
<1>4. /\ IsSequence(s) /\ Len(s) = Len(conns)
      /\ \A i \in 1..Len(s) : IsSequence(s[i]) /\ Len(s[i]) <= 1 /\ s[i] = piece(i)
  <2>1. s = [i \in 1..Len(conns) |-> piece(i)]
    BY <1>1
  <2>2. \A n \in Nat : \A f : f = [i \in 1..n |-> f[i]] => Len(f) = n
    OBVIOUS
  <2>3. Len(s) = Len(conns)
    BY <1>1, <2>1, <2>2
  <2> QED BY <1>1, <1>2, <2>1, <2>3 DEF IsSequence
<1> HIDE DEF s
<1>5. /\ IsSequence(flat) /\ \A x \in DOMAIN flat : IsFrom(flat[x], s, Len(s))
      /\ \A x, y \in DOMAIN flat : x # y =>
           \E i, j \in 1..Len(s) : /\ i # j /\ 1 \in DOMAIN s[i] /\ 1 \in DOMAIN s[j]
                                  /\ flat[x] = s[i][1] /\ flat[y] = s[j][1]
  BY <1>4, FlattenFacts, FlattenApart
<1> HIDE DEF flat
<1>6. ASSUME NEW x \in DOMAIN flat PROVE IsConn(flat[x])
  <2>1. PICK i \in 1..Len(s) : \E y \in DOMAIN s[i] : flat[x] = s[i][y]
    BY <1>5 DEF IsFrom
  <2>2. i \in DOMAIN conns /\ flat[x] = conns[i]
    BY <1>1, <1>2, <1>4, <2>1
  <2> QED BY <2>2 DEF AreConns
<1>7. ASSUME NEW x \in DOMAIN flat, NEW y \in DOMAIN flat, x # y
      PROVE  Memory!Key(flat[x]) # Memory!Key(flat[y])
  <2>1. PICK i, j \in 1..Len(s) : /\ i # j /\ 1 \in DOMAIN s[i] /\ 1 \in DOMAIN s[j]
                                  /\ flat[x] = s[i][1] /\ flat[y] = s[j][1]
    BY <1>5, <1>7
  <2>2. /\ i \in DOMAIN conns /\ j \in DOMAIN conns /\ flat[x] = conns[i] /\ flat[y] = conns[j]
        /\ Memory!IsBest(conns, i) /\ Memory!IsBest(conns, j)
    BY <1>1, <1>2, <1>4, <2>1
  <2>3. SUFFICES ASSUME Memory!Key(conns[i]) = Memory!Key(conns[j]) PROVE FALSE
    BY <2>2
  <2> DEFINE a == Memory!Score(conns[i])
             b == Memory!Score(conns[j])
  <2>4. b < a \/ (b = a /\ i < j)
    BY <2>1, <2>2, <2>3 DEF Memory!IsBest, Memory!Worse
  <2>5. a < b \/ (a = b /\ j < i)
    BY <2>1, <2>2, <2>3 DEF Memory!IsBest, Memory!Worse
  <2>6. a \in Int /\ b \in Int
    BY DEF Memory!Score, Memory!StatePri
  <2> HIDE DEF a, b
  <2> QED BY <2>4, <2>5, <2>6
<1>8. AreConns(flat)
  BY <1>5, <1>6 DEF AreConns
<1> QED BY <1>3, <1>7, <1>8

LEMMA GreatestOf ==
    ASSUME NEW n \in Nat, NEW S \in SUBSET (1..n), S # {}
    PROVE  Memory!Max(S) \in S
<1>1. Memory!Max(S) = Registry!Max(S)
  BY DEF Memory!Max, Registry!Max
<1> QED BY <1>1, MaxOf

LEMMA LeastOf == ASSUME NEW S \in SUBSET Nat, S # {} PROVE Memory!Min(S) \in S
<1>1. PICK b \in S : \A c \in S : <<c, b>> \notin OpToRel(<, Nat)
  BY WFMin, NatLessThanWellFounded, Zenon
<1>2. \A c \in S : ~ (c < b)
  BY <1>1, Zenon DEF OpToRel
<1>3. \E x \in S : \A y \in S : x <= y
  BY <1>2
<1>4. Memory!Min(S) = CHOOSE x \in S : \A y \in S : x <= y
  BY DEF Memory!Min
<1> QED BY <1>3, <1>4, Zenon

\* The name that a number has in the list or the search.
LEMMA NameIs ==
    ASSUME AreKnown(mem.procs), AreKnown(mem.scanned), NEW pid, pid # 0
    PROVE  Memory!NameOfPid(pid) = "?" \/ <<pid, Memory!NameOfPid(pid)>> \in made.truth.known
<1> DEFINE listed == {i \in DOMAIN mem.procs : mem.procs[i].pid = pid}
           found == {i \in DOMAIN mem.scanned : mem.scanned[i].pid = pid}
<1>1. listed # {} => Memory!Max(listed) \in listed
  <2>1. Len(mem.procs) \in Nat /\ listed \in SUBSET (1..Len(mem.procs))
    BY SequenceIs DEF AreKnown
  <2> HIDE DEF listed
  <2> QED BY <2>1, GreatestOf
<1>2. found # {} => Memory!Min(found) \in found
  <2>1. DOMAIN mem.scanned = 1..Len(mem.scanned) /\ Len(mem.scanned) \in Nat
    BY SequenceIs DEF AreKnown
  <2>2. found \in SUBSET Nat
    BY <2>1
  <2> HIDE DEF found
  <2> QED BY <2>2, LeastOf
<1>3. \A i \in listed : <<pid, mem.procs[i].name>> \in made.truth.known
  BY DEF AreKnown, IsKnown
<1>4. \A i \in found : <<pid, mem.scanned[i].name>> \in made.truth.known
  BY DEF AreKnown, IsKnown
<1>5. Memory!NameOfPid(pid) = IF listed # {} THEN mem.procs[Memory!Max(listed)].name
                              ELSE IF found # {} THEN mem.scanned[Memory!Min(found)].name ELSE "?"
  BY DEF Memory!NameOfPid
<1> HIDE DEF listed, found
<1> QED BY <1>1, <1>2, <1>3, <1>4, <1>5

\* What is stored of connections: their blocks, with the owners' names.
LEMMA OwnedRows ==
    ASSUME AreKnown(mem.procs), AreKnown(mem.scanned), NEW kept, AreConns(kept)
    PROVE  LET rows == [i \in DOMAIN kept |-> Memory!Owned(kept[i])]
           IN  /\ IsSequence(rows) /\ AreOwned(rows) /\ DOMAIN rows = DOMAIN kept
               /\ \A i \in DOMAIN rows : Memory!Key(rows[i]) = Memory!Key(kept[i])
<1> DEFINE rows == [i \in DOMAIN kept |-> Memory!Owned(kept[i])]
<1>1. DOMAIN kept = 1..Len(kept) /\ Len(kept) \in Nat
  BY SequenceIs DEF AreConns
<1>2. IsSequence(rows)
  <2>1. rows = [i \in 1..Len(kept) |-> Memory!Owned(kept[i])]
    BY <1>1
  <2>2. \A n \in Nat : \A f : f = [i \in 1..n |-> f[i]] => Len(f) = n
    OBVIOUS
  <2>3. Len(rows) = Len(kept)
    BY <1>1, <2>1, <2>2
  <2> QED BY <1>1, <2>1, <2>3 DEF IsSequence
<1>3. ASSUME NEW c, IsConn(c)
      PROVE  LET row == Memory!Owned(c)
             IN  /\ Memory!Key(row) = Memory!Key(c)
                 /\ row.pid # 0 /\ row.name # "?" => <<row.pid, row.name>> \in made.truth.known
  <2>1. CASE c.name = "" /\ c.pid # 0
    <3> DEFINE row == [c EXCEPT !.name = Memory!NameOfPid(c.pid)]
    <3>1. row.pid = c.pid /\ row.name = Memory!NameOfPid(c.pid) /\ Memory!Key(row) = Memory!Key(c)
      BY <1>3 DEF IsConn, ConnFields, Memory!Key
    <3>2. Memory!Owned(c) = row
      BY <2>1 DEF Memory!Owned
    <3> HIDE DEF row
    <3> QED BY <2>1, <3>1, <3>2, NameIs
  <2>2. CASE ~(c.name = "" /\ c.pid # 0)
    BY <1>3, <2>2 DEF IsConn, Memory!Owned
  <2> QED BY <2>1, <2>2
<1>4. \A i \in DOMAIN rows : Memory!Key(rows[i]) = Memory!Key(kept[i])
  BY <1>3 DEF AreConns
<1>5. AreOwned(rows)
  BY <1>3 DEF AreOwned, AreConns, ConnsOf
<1> QED BY <1>2, <1>4, <1>5

-----------------------------------------------------------------------------
(* What is stored of regions. *)

IsHits(rows) == IsSequence(rows) /\ \A i \in DOMAIN rows : rows[i].table = "malfind"

LEMMA HitsJoined == ASSUME NEW a, NEW b, IsHits(a), IsHits(b) PROVE IsHits(a \o b)
<1>1. /\ IsSequence(a \o b) /\ Len(a \o b) = Len(a) + Len(b)
      /\ \A i \in 1..Len(a) : (a \o b)[i] = a[i]
      /\ \A i \in 1..(Len(a) + Len(b)) : i > Len(a) => (a \o b)[i] = b[i - Len(a)] /\ i - Len(a) \in 1..Len(b)
  BY Joined DEF IsHits
<1> DEFINE c == a \o b
<1>2. /\ DOMAIN a = 1..Len(a) /\ Len(a) \in Nat /\ DOMAIN b = 1..Len(b) /\ Len(b) \in Nat
      /\ DOMAIN c = 1..(Len(a) + Len(b))
  <2>1. DOMAIN c = 1..Len(c)
    <3> HIDE DEF c
    <3>1. IsSequence(c)
      BY <1>1 DEF c
    <3> QED BY <3>1, SequenceIs
  <2> QED BY <1>1, <2>1, SequenceIs DEF IsHits
<1>3. \A i \in DOMAIN c : c[i].table = "malfind"
  <2> TAKE i \in DOMAIN c
  <2>1. CASE i \in 1..Len(a)
    <3>1. c[i] = a[i] /\ a[i].table = "malfind"
      BY <1>1, <1>2, <2>1 DEF IsHits
    <3> QED BY <3>1
  <2>2. CASE i \notin 1..Len(a)
    <3>1. i \in 1..(Len(a) + Len(b)) /\ i > Len(a)
      BY <1>2, <2>2
    <3>2. c[i] = b[i - Len(a)] /\ i - Len(a) \in DOMAIN b
      BY <1>1, <1>2, <3>1
    <3>3. b[i - Len(a)].table = "malfind"
      BY <3>2 DEF IsHits
    <3> QED BY <3>2, <3>3
  <2> QED BY <2>1, <2>2
<1> QED BY <1>1, <1>3 DEF IsHits

\* The regions of p in the tree below va, n levels deep.
Branch(n, p, va, below) ==
  LET page == Memory!View(mem.cr3, va)
      vad == Memory!As({"vad"}, page)
  IN IF n = 0 \/ ~Memory!IsKernelAddr(va) \/ ~Memory!IsThere(page) THEN <<>>
     ELSE Memory!Region(p, vad) \o below[vad.left] \o below[vad.right]
IsTree(f, p, k) ==
  f = [n \in 0..k |-> [va \in Seq(Int) |-> Branch(n, p, va, f[n - 1])]]

LEMMA TreeExists == ASSUME NEW p, NEW n \in Nat PROVE \E f : IsTree(f, p, n)
<1> DEFINE S == {k \in Nat : \E f : IsTree(f, p, k)}
           Level(g, i) == [va \in Seq(Int) |-> Branch(i, p, va, g)]
<1>1. 0 \in S
  <2>1. IsTree([i \in 0..0 |-> [va \in Seq(Int) |-> <<>>]], p, 0)
    BY DEF IsTree, Branch
  <2> QED BY <2>1
<1>2. ASSUME NEW k \in Nat, k \in S PROVE k + 1 \in S
  <2>1. PICK f : IsTree(f, p, k)
    BY <1>2
  <2>2. \A i \in 0..k : f[i] = Level(f[i - 1], i)
    BY <2>1 DEF IsTree
  <2> HIDE DEF Level
  <2> DEFINE g == [i \in 0..(k + 1) |-> IF i = k + 1 THEN Level(f[k], k + 1) ELSE f[i]]
  <2>3. \A i \in 0..k : g[i] = f[i]
    OBVIOUS
  <2>4. \A i \in 0..(k + 1) : g[i] = Level(g[i - 1], i)
    <3> TAKE i \in 0..(k + 1)
    <3>1. CASE i = k + 1
      <4>1. g[k + 1] = Level(f[k], k + 1)
        OBVIOUS
      <4>2. g[k] = f[k] /\ i - 1 = k
        BY <2>3, <3>1
      <4> HIDE DEF g
      <4> QED BY <3>1, <4>1, <4>2
    <3>2. CASE i \in 1..k
      <4>1. g[i] = f[i] /\ f[i] = Level(f[i - 1], i)
        BY <2>2, <2>3, <3>2
      <4>2. g[i - 1] = f[i - 1]
        BY <2>3, <3>2
      <4> HIDE DEF g
      <4> QED BY <4>1, <4>2
    <3>3. CASE i = 0
      <4>1. g[0] = f[0] /\ f[0] = Level(f[0 - 1], 0)
        BY <2>2, <2>3
      <4>2. Level(f[0 - 1], 0) = Level(g[0 - 1], 0)
        BY DEF Level, Branch
      <4> HIDE DEF g
      <4> QED BY <3>3, <4>1, <4>2
    <3> QED BY <3>1, <3>2, <3>3
  <2>5. IsTree(g, p, k + 1)
    <3>1. g = [i \in 0..(k + 1) |-> Level(g[i - 1], i)]
      BY <2>4
    <3> HIDE DEF g
    <3> QED BY <3>1 DEF IsTree, Level
  <2>6. \E h : IsTree(h, p, k + 1)
    <3> HIDE DEF g
    <3> QED BY <2>5
  <2> QED BY <2>6
<1>3. Nat \subseteq S
  <2> HIDE DEF S
  <2> QED BY <1>1, <1>2, Induction
<1> QED BY <1>3

LEMMA RegionIs == ASSUME NEW p, NEW vad PROVE IsHits(Memory!Region(p, vad))
<1> DEFINE hit == [table |-> "malfind", pid |-> p.pid, start |-> vad.start]
<1>1. Memory!Region(p, vad) \in {<<>>, <<hit>>}
  BY DEF Memory!Region
<1>2. hit.table = "malfind"
  OBVIOUS
<1> HIDE DEF hit
<1>3. IsHits(<<>>) /\ IsHits(<<hit>>)
  BY <1>2 DEF IsHits, IsSequence
<1> QED BY <1>1, <1>3

LEMMA TreeHits ==
    ASSUME made \in Dumps, NEW p, NEW n \in Nat, NEW f, IsTree(f, p, n)
    PROVE  \A va \in Seq(Int) : IsHits(f[n][va])
<1> DEFINE Good(k) == \A va \in Seq(Int) : IsHits(f[k][va])
           S == {k \in Nat : k <= n => Good(k)}
<1>1. \A k \in 0..n : \A va \in Seq(Int) : f[k][va] = Branch(k, p, va, f[k - 1])
  <2>1. f = [k \in 0..n |-> [va \in Seq(Int) |-> Branch(k, p, va, f[k - 1])]]
    BY DEF IsTree
  <2>2. \A k \in 0..n : f[k] = [va \in Seq(Int) |-> Branch(k, p, va, f[k - 1])]
    BY <2>1, Zenon
  <2> QED BY <2>2, Zenon
<1>2. IsHits(<<>>)
  BY DEF IsHits, IsSequence
<1>3. 0 \in S
  <2>1. \A va \in Seq(Int) : f[0][va] = Branch(0, p, va, f[0 - 1])
    BY <1>1
  <2> QED BY <1>2, <2>1 DEF Branch
<1>4. ASSUME NEW k \in Nat, k \in S PROVE k + 1 \in S
  <2>1. SUFFICES ASSUME k + 1 <= n, NEW va \in Seq(Int) PROVE IsHits(f[k + 1][va])
    OBVIOUS
  <2> DEFINE below == f[k]
             page == Memory!View(mem.cr3, va)
             vad == Memory!As({"vad"}, page)
             own == Memory!Region(p, vad)
             left == below[vad.left]
             right == below[vad.right]
  <2>2. \A a \in Seq(Int) : IsHits(below[a])
    BY <1>4, <2>1
  <2>3. f[k + 1][va] = Branch(k + 1, p, va, below)
    <3>1. k + 1 \in 0..n /\ (k + 1) - 1 = k /\ k + 1 # 0
      BY <2>1
    <3> QED BY <1>1, <3>1
  <2> HIDE DEF below
  <2>4. Memory!IsThere(page) => vad.left \in Seq(Int) /\ vad.right \in Seq(Int)
    BY ViewIs DEF PageOK, RegionOK
  <2>5. Branch(k + 1, p, va, below) = <<>> \/ (Memory!IsThere(page) /\ Branch(k + 1, p, va, below) = (own \o left) \o right)
    BY DEF Branch, Memory!IsThere
  <2>6. IsHits(own)
    BY RegionIs
  <2>7. Memory!IsThere(page) => IsHits(left) /\ IsHits(right)
    BY <2>2, <2>4
  <2> HIDE DEF own, left, right, vad, page
  <2>8. Memory!IsThere(page) => IsHits((own \o left) \o right)
    BY <2>6, <2>7, HitsJoined
  <2> QED BY <1>2, <2>3, <2>5, <2>8
<1>5. Nat \subseteq S
  <2> HIDE DEF S
  <2> QED BY <1>3, <1>4, Induction
<1> QED BY <1>5

LEMMA HitsAre == ASSUME made \in Dumps, NEW p PROVE IsHits(Memory!Hits(p))
<1> DEFINE n == Limits.depth + 1
           f == CHOOSE g : IsTree(g, p, n)
           page == Memory!View(mem.cr3, p.at)
           block == Memory!Block(page, mem.profile)
<1>1. n \in Nat
  BY MemoryConstants
<1>2. IsTree(f, p, n)
  <2>1. \E g : IsTree(g, p, n)
    BY <1>1, TreeExists
  <2> QED BY <2>1
<1>3. Memory!Hits(p) = IF p.at # Memory!Null /\ Memory!IsThere(page) THEN f[n][block.vad] ELSE <<>>
  BY DEF Memory!Hits, IsTree, Branch
<1>4. Memory!IsThere(page) => block.vad \in Seq(Int)
  BY ViewIs DEF PageOK, BlockOK
<1>5. IsHits(<<>>)
  BY DEF IsHits, IsSequence
<1> HIDE DEF f, n, block, page
<1>6. \A va \in Seq(Int) : IsHits(f[n][va])
  BY <1>1, <1>2, TreeHits
<1> QED BY <1>3, <1>4, <1>5, <1>6

\* The regions of the first k of the processes, until they are as many as are asked for.
IsUpTo(c, procs, k) ==
  c = [i \in 0..k |-> IF i = 0 THEN <<>>
                      ELSE IF Len(c[i - 1]) >= Limits.hits THEN c[i - 1] ELSE c[i - 1] \o Memory!Hits(procs[i])]

LEMMA UpToExists == ASSUME NEW procs, NEW n \in Nat PROVE \E c : IsUpTo(c, procs, n)
<1> DEFINE More(a, i) == IF Len(a) >= Limits.hits THEN a ELSE a \o Memory!Hits(procs[i])
           S == {k \in Nat : \E c : IsUpTo(c, procs, k)}
<1>1. 0 \in S
  <2>1. IsUpTo([i \in 0..0 |-> <<>>], procs, 0)
    BY DEF IsUpTo
  <2> QED BY <2>1
<1>2. ASSUME NEW k \in Nat, k \in S PROVE k + 1 \in S
  <2>1. PICK c : IsUpTo(c, procs, k)
    BY <1>2
  <2>2. \A i \in 0..k : c[i] = IF i = 0 THEN <<>> ELSE More(c[i - 1], i)
    <3>1. c = [i \in 0..k |-> IF i = 0 THEN <<>> ELSE More(c[i - 1], i)]
      BY <2>1 DEF IsUpTo
    <3> HIDE DEF More
    <3> QED BY <3>1, Zenon
  <2> HIDE DEF More
  <2> DEFINE d == [i \in 0..(k + 1) |-> IF i = k + 1 THEN More(c[k], k + 1) ELSE c[i]]
  <2>3. \A i \in 0..k : d[i] = c[i]
    OBVIOUS
  <2>4. \A i \in 0..(k + 1) : d[i] = IF i = 0 THEN <<>> ELSE More(d[i - 1], i)
    <3> TAKE i \in 0..(k + 1)
    <3>1. CASE i = k + 1
      <4>1. d[k + 1] = More(c[k], k + 1)
        OBVIOUS
      <4>2. d[k] = c[k] /\ i - 1 = k /\ i # 0
        BY <2>3, <3>1
      <4> HIDE DEF d
      <4> QED BY <3>1, <4>1, <4>2
    <3>2. CASE i \in 0..k
      <4>1. d[i] = c[i] /\ c[i] = IF i = 0 THEN <<>> ELSE More(c[i - 1], i)
        BY <2>2, <2>3, <3>2
      <4>2. i # 0 => d[i - 1] = c[i - 1]
        BY <2>3, <3>2
      <4> HIDE DEF d
      <4> QED BY <4>1, <4>2
    <3> QED BY <3>1, <3>2
  <2>5. IsUpTo(d, procs, k + 1)
    <3>1. d = [i \in 0..(k + 1) |-> IF i = 0 THEN <<>> ELSE More(d[i - 1], i)]
      BY <2>4
    <3> HIDE DEF d
    <3> QED BY <3>1 DEF IsUpTo, More
  <2>6. \E e : IsUpTo(e, procs, k + 1)
    <3> HIDE DEF d
    <3> QED BY <2>5
  <2> QED BY <2>6
<1>3. Nat \subseteq S
  <2> HIDE DEF S
  <2> QED BY <1>1, <1>2, Induction
<1> QED BY <1>3

LEMMA AllHitsAre == ASSUME made \in Dumps, AreKnown(mem.procs), AreKnown(mem.scanned) PROVE IsHits(Memory!AllHits)
<1> DEFINE piece(i) == IF mem.scanned[i].pid \in Memory!Listed THEN <<>> ELSE <<mem.scanned[i]>>
           s == [i \in DOMAIN mem.scanned |-> piece(i)]
           procs == mem.procs \o Memory!Unlisted
           n == Len(procs)
           c == CHOOSE g : IsUpTo(g, procs, n)
<1>1. IsSequence(Memory!Unlisted)
  <2>1. DOMAIN mem.scanned = 1..Len(mem.scanned) /\ Len(mem.scanned) \in Nat
    BY SequenceIs DEF AreKnown
  <2>2. \A i : IsSequence(piece(i))
    BY DEF IsSequence
  <2> HIDE DEF piece
  <2>3. IsSequence(s) /\ \A i \in 1..Len(s) : IsSequence(s[i])
    <3>1. s = [i \in 1..Len(mem.scanned) |-> piece(i)]
      BY <2>1
    <3>2. \A m \in Nat : \A f : f = [i \in 1..m |-> f[i]] => Len(f) = m
      OBVIOUS
    <3>3. Len(s) = Len(mem.scanned)
      BY <2>1, <3>1, <3>2
    <3> QED BY <2>1, <2>2, <3>1, <3>3 DEF IsSequence
  <2>4. Memory!Unlisted = Memory!FlattenSeq(s)
    BY DEF Memory!Unlisted, piece
  <2> HIDE DEF s
  <2> QED BY <2>3, <2>4, FlattenFacts
<1>2. n \in Nat
  <2>1. IsSequence(procs)
    BY <1>1, Joined DEF AreKnown
  <2> HIDE DEF procs
  <2> QED BY <2>1 DEF IsSequence
<1>3. IsUpTo(c, procs, n)
  <2>1. \E g : IsUpTo(g, procs, n)
    <3> HIDE DEF procs
    <3> QED BY <1>2, UpToExists
  <2> QED BY <2>1
<1>4. Memory!AllHits = c[n]
  BY DEF Memory!AllHits, IsUpTo
<1> HIDE DEF c, n, procs
<1> DEFINE S == {k \in Nat : k <= n => IsHits(c[k])}
<1>5. \A i \in 0..n : c[i] = IF i = 0 THEN <<>>
                             ELSE IF Len(c[i - 1]) >= Limits.hits THEN c[i - 1] ELSE c[i - 1] \o Memory!Hits(procs[i])
  <2>1. c = [i \in 0..n |-> IF i = 0 THEN <<>>
                            ELSE IF Len(c[i - 1]) >= Limits.hits THEN c[i - 1] ELSE c[i - 1] \o Memory!Hits(procs[i])]
    BY <1>3 DEF IsUpTo
  <2> QED BY <2>1, Zenon
<1>6. 0 \in S
  <2>1. c[0] = <<>> /\ IsHits(<<>>)
    BY <1>2, <1>5 DEF IsHits, IsSequence
  <2> QED BY <2>1
<1>7. ASSUME NEW k \in Nat, k \in S PROVE k + 1 \in S
  <2>1. SUFFICES ASSUME k + 1 <= n PROVE IsHits(c[k + 1])
    OBVIOUS
  <2>2. k + 1 \in 0..n /\ k + 1 # 0 /\ (k + 1) - 1 = k /\ IsHits(c[k])
    BY <1>2, <1>7, <2>1
  <2>3. c[k + 1] = c[k] \/ c[k + 1] = c[k] \o Memory!Hits(procs[k + 1])
    BY <1>5, <2>2
  <2>4. IsHits(Memory!Hits(procs[k + 1]))
    BY HitsAre
  <2> QED BY <2>2, <2>3, <2>4, HitsJoined
<1>8. Nat \subseteq S
  <2> HIDE DEF S
  <2> QED BY <1>6, <1>7, Induction
<1> QED BY <1>2, <1>4, <1>8

\* The rows of a list of processes have no connection among them.
LEMMA ListRowsAre ==
    ASSUME NEW procs, IsSequence(procs)
    PROVE  LET rows == Memory!FlattenSeq([i \in DOMAIN procs |-> <<Memory!ListRow(procs[i])>> \o Memory!CommandLine(procs[i])])
           IN  IsSequence(rows) /\ NoConns(rows)
<1> DEFINE piece(i) == <<Memory!ListRow(procs[i])>> \o Memory!CommandLine(procs[i])
           s == [i \in DOMAIN procs |-> piece(i)]
           rows == Memory!FlattenSeq(s)
<1>1. \A i : IsSequence(piece(i)) /\ \A y \in DOMAIN piece(i) : piece(i)[y].table # "netscan"
  <2> TAKE i
  <2> DEFINE row == Memory!ListRow(procs[i])
             line == Memory!CommandLine(procs[i])
  <2>1. row.table # "netscan"
    BY DEF Memory!ListRow
  <2> HIDE DEF row
  <2>2. \E e : e.table # "netscan" /\ line \in {<<>>, <<e>>}
    <3> DEFINE page == IF Memory!IsUserAddr(procs[i].peb) THEN Memory!View(procs[i].cr3, procs[i].peb) ELSE Memory!Absent
               e == [table |-> "cmdline", pid |-> procs[i].pid, cmd |-> page.cmd]
    <3>1. line \in {<<>>, <<e>>}
      BY DEF Memory!CommandLine
    <3>2. e.table # "netscan"
      OBVIOUS
    <3> HIDE DEF e, line
    <3> QED BY <3>1, <3>2
  <2>3. PICK e : e.table # "netscan" /\ line \in {<<>>, <<e>>}
    BY <2>2
  <2> HIDE DEF line
  <2> DEFINE first == <<row>>
             both == first \o line
  <2>4. IsSequence(first) /\ Len(first) = 1 /\ first[1] = row
    BY DEF IsSequence
  <2>5. IsSequence(line) /\ \A y \in 1..Len(line) : line[y].table # "netscan"
    <3>1. CASE line = <<>>
      BY <3>1 DEF IsSequence
    <3>2. CASE line = <<e>>
      <4>1. IsSequence(<<e>>) /\ Len(<<e>>) = 1 /\ <<e>>[1] = e
        BY DEF IsSequence
      <4> QED BY <2>3, <3>2, <4>1
    <3> QED BY <2>3, <3>1, <3>2
  <2>6. piece(i) = both
    BY DEF row, line
  <2> HIDE DEF first
  <2>7. /\ IsSequence(both) /\ Len(both) = 1 + Len(line) /\ both[1] = row
        /\ \A y \in 1..(1 + Len(line)) : y > 1 => both[y] = line[y - 1] /\ y - 1 \in 1..Len(line)
    <3>1. /\ IsSequence(both) /\ Len(both) = Len(first) + Len(line)
          /\ \A y \in 1..Len(first) : both[y] = first[y]
          /\ \A y \in 1..(Len(first) + Len(line)) : y > Len(first) => both[y] = line[y - Len(first)] /\ y - Len(first) \in 1..Len(line)
      BY <2>4, <2>5, Joined
    <3> HIDE DEF both
    <3> QED BY <2>4, <3>1
  <2> HIDE DEF both, piece
  <2>8. Len(line) \in Nat /\ DOMAIN both = 1..Len(both)
    BY <2>5, <2>7, SequenceIs DEF IsSequence
  <2> QED BY <2>1, <2>5, <2>6, <2>7, <2>8
<1>2. DOMAIN procs = 1..Len(procs) /\ Len(procs) \in Nat
  BY SequenceIs
<1> HIDE DEF piece
<1>3. IsSequence(s) /\ \A i \in 1..Len(s) : s[i] = piece(i)
  <2>1. s = [i \in 1..Len(procs) |-> piece(i)]
    BY <1>2
  <2>2. \A m \in Nat : \A f : f = [i \in 1..m |-> f[i]] => Len(f) = m
    OBVIOUS
  <2>3. Len(s) = Len(procs)
    BY <1>2, <2>1, <2>2
  <2> QED BY <1>2, <2>1, <2>3 DEF IsSequence
<1>4. rows = Memory!FlattenSeq([i \in DOMAIN procs |-> <<Memory!ListRow(procs[i])>> \o Memory!CommandLine(procs[i])])
  BY DEF piece
<1> HIDE DEF s
<1>5. IsSequence(rows) /\ \A x \in DOMAIN rows : IsFrom(rows[x], s, Len(s))
  BY <1>1, <1>3, FlattenFacts
<1> HIDE DEF rows
<1>6. NoConns(rows)
  BY <1>1, <1>3, <1>5 DEF NoConns, ConnsOf, IsFrom
<1> QED BY <1>4, <1>5, <1>6

-----------------------------------------------------------------------------
(* The steps. *)

LEMMA NothingThere ==
    /\ IsSequence(<<>>) /\ NoConns(<<>>) /\ AreOwned(<<>>) /\ AreApart(<<>>)
    /\ \A rows : ApartFrom(rows, <<>>)
BY DEF IsSequence, NoConns, ConnsOf, AreOwned, AreApart, ApartFrom

LEMMA ElementOf == ASSUME NEW S, NEW s \in Seq(S), NEW i \in DOMAIN s PROVE s[i] \in S
OBVIOUS

LEMMA RunsAre ==
    ASSUME made \in Dumps
    PROVE  /\ IsSequence(Memory!RunsOf)
           /\ \A i \in DOMAIN Memory!RunsOf : Memory!RunsOf[i].base \in Nat /\ Memory!RunsOf[i].count \in Nat
<1>1. made.file.runs \in Seq([base : Nat, count : Nat]) /\ made.file.pages \in Seq(Memory!ToSet(made.file.pages))
  BY DecoderAssumptions DEF Memory!DumpAssumption
<1>2. CASE made.file.paged
  <2> DEFINE runs == made.file.runs
             of(i) == [base |-> runs[i].base, count |-> runs[i].count, start |-> Memory!Starts[i]]
             all == [i \in DOMAIN runs |-> of(i)]
  <2>1. DOMAIN runs = 1..Len(runs) /\ Len(runs) \in Nat
    BY <1>1
  <2>2. \A i \in DOMAIN runs : of(i).base \in Nat /\ of(i).count \in Nat
    <3> TAKE i \in DOMAIN runs
    <3>1. runs[i] \in [base : Nat, count : Nat]
      BY <1>1, ElementOf
    <3>2. of(i).base = runs[i].base /\ of(i).count = runs[i].count
      OBVIOUS
    <3> QED BY <3>1, <3>2
  <2>3. Memory!RunsOf = all
    BY <1>2 DEF Memory!RunsOf, Memory!file
  <2> HIDE DEF of
  <2>4. IsSequence(all)
    <3>1. all = [i \in 1..Len(runs) |-> of(i)]
      BY <2>1
    <3>2. \A m \in Nat : \A f : f = [i \in 1..m |-> f[i]] => Len(f) = m
      OBVIOUS
    <3>3. Len(all) = Len(runs)
      BY <2>1, <3>1, <3>2
    <3> QED BY <2>1, <3>1, <3>3 DEF IsSequence
  <2> QED BY <2>2, <2>3, <2>4
<1>3. CASE ~made.file.paged
  <2> DEFINE run == [base |-> 0, count |-> Len(made.file.pages), start |-> 1]
  <2>1. Memory!RunsOf = <<run>>
    BY <1>3 DEF Memory!RunsOf, Memory!file
  <2>2. run.base \in Nat /\ run.count \in Nat
    BY <1>1
  <2> HIDE DEF run
  <2> QED BY <2>1, <2>2 DEF IsSequence
<1> QED BY <1>2, <1>3

LEMMA MemoryInit == ASSUME Memory!Init PROVE MemoryOK
<1>1. /\ made \in Dumps /\ stage = "open" /\ out = <<>>
      /\ mem = [runs |-> <<>>, cr3 |-> 0, profile |-> "", seen |-> {}, procs |-> <<>>,
                scanned |-> <<>>, conns |-> <<>>, mods |-> <<>>, queue |-> <<>>]
  BY DEF Memory!Init
<1>2. /\ DOMAIN mem = DumpFields /\ mem.runs = <<>> /\ mem.procs = <<>> /\ mem.scanned = <<>>
      /\ mem.conns = <<>> /\ mem.mods = <<>> /\ mem.queue = <<>>
  BY <1>1 DEF DumpFields
<1>3. AreKnown(<<>>) /\ AreConns(<<>>)
  BY NothingThere DEF AreKnown, AreConns
<1>4. stage \in BeforeConns /\ stage # "conns"
  BY <1>1 DEF BeforeConns
<1>5. ApartFrom(<<>>, <<>>)
  BY NothingThere
<1>6. IsSequence(mem.runs) /\ \A i \in DOMAIN mem.runs : mem.runs[i].base \in Nat /\ mem.runs[i].count \in Nat
  BY <1>2 DEF IsSequence
<1> QED BY <1>1, <1>2, <1>3, <1>4, <1>5, <1>6, NothingThere DEF MemoryOK

LEMMA MachineKept ==
    ASSUME UNCHANGED made, AreKnown(mem'.procs), AreKnown(mem'.scanned), AreConns(mem'.conns)
    PROVE  AreKnown(mem.procs)' /\ AreKnown(mem.scanned)' /\ AreConns(mem.conns)'
BY DEF AreKnown, AreConns, IsKnown, IsConn

\* A step that stores nothing and only adds to the queue what is no connection.
LEMMA OtherRows ==
    ASSUME MemoryOK, UNCHANGED <<made, out>>, DOMAIN mem' = DumpFields,
           stage' \in BeforeConns \cup {"modules", "malfind", "sysinfo"},
           stage \notin BeforeConns => stage' \notin BeforeConns,
           stage' = "conns" => mem'.queue = <<>>,
           IsSequence(mem'.runs) /\ \A i \in DOMAIN mem'.runs : mem'.runs[i].base \in Nat /\ mem'.runs[i].count \in Nat,
           AreKnown(mem'.procs), AreKnown(mem'.scanned), AreConns(mem'.conns),
           IsSequence(mem'.mods), NoConns(mem'.mods), IsSequence(mem'.queue),
           mem'.queue = mem.queue \/ NoConns(mem'.queue),
           mem'.conns = mem.conns \/ stage \in BeforeConns
    PROVE  MemoryOK'
<1>1. NoConns(out)' = NoConns(out) /\ AreOwned(out)' = AreOwned(out) /\ AreApart(out)' = AreApart(out)
  BY DEF NoConns, AreOwned, AreApart, ConnsOf
<1>2. /\ AreKnown(mem.procs)' /\ AreKnown(mem.scanned)' /\ AreConns(mem.conns)'
      /\ AreOwned(mem.queue)' <=> AreOwned(mem'.queue)
  BY DEF AreKnown, AreConns, IsKnown, IsConn, AreOwned
<1>3. CASE NoConns(mem'.queue)
  <2>1. AreOwned(mem'.queue) /\ AreApart(mem'.queue) /\ ApartFrom(out, mem'.queue)
    BY <1>3 DEF NoConns, AreOwned, AreApart, ApartFrom
  <2>2. NoConns(out) => AreApart(out)
    BY DEF NoConns, AreApart
  <2> QED BY <1>1, <1>2, <1>3, <2>1, <2>2 DEF MemoryOK
<1>4. CASE mem'.queue = mem.queue /\ ~NoConns(mem.queue)
  <2>1. stage \notin BeforeConns /\ mem'.conns = mem.conns
    BY <1>4 DEF MemoryOK
  <2> QED BY <1>1, <1>2, <1>4, <2>1 DEF MemoryOK
<1> QED BY <1>3, <1>4

\* A row is stored, or it is left out.
LEMMA StoringOfDump == ASSUME MemoryOK, Memory!StoreRow PROVE MemoryOK'
<1> DEFINE queue == mem.queue
           row == queue[1]
           rest == Tail(queue)
<1>1. /\ IsSequence(queue) /\ queue # <<>> /\ IsSequence(rest) /\ Head(queue) = row
      /\ DOMAIN rest = 1..(Len(queue) - 1) /\ Len(queue) \in Nat \ {0} /\ DOMAIN queue = 1..Len(queue)
      /\ \A i \in 1..(Len(queue) - 1) : rest[i] = queue[i + 1]
  <2>1. IsSequence(queue) /\ queue # <<>>
    BY DEF MemoryOK, Memory!StoreRow
  <2> HIDE DEF queue
  <2> QED BY <2>1, TailOf
<1>2. /\ made' = made /\ stage' = stage /\ (out' = Append(out, row) \/ out' = out)
      /\ mem' = [mem EXCEPT !.queue = rest]
  BY <1>1 DEF Memory!StoreRow
<1> HIDE DEF rest
<1>3. /\ DOMAIN mem' = DumpFields /\ mem'.queue = rest /\ mem'.runs = mem.runs /\ mem'.procs = mem.procs
      /\ mem'.scanned = mem.scanned /\ mem'.conns = mem.conns /\ mem'.mods = mem.mods
  BY <1>2 DEF MemoryOK, DumpFields
<1>4. \A i \in DOMAIN rest : i + 1 \in DOMAIN queue /\ i + 1 # 1 /\ rest[i] = queue[i + 1] /\ i \in Nat
  <2> HIDE DEF queue
  <2> QED BY <1>1
<1>5. IsSequence(out) /\ DOMAIN out = 1..Len(out) /\ Len(out) \in Nat
  BY SequenceIs DEF MemoryOK
<1>6. /\ IsSequence(out') /\ \A i \in DOMAIN out : out'[i] = out[i]
      /\ \A i \in DOMAIN out' : i \in DOMAIN out \/ (i = Len(out) + 1 /\ out'[i] = row)
  <2>1. CASE out' = out
    BY <1>5, <2>1
  <2>2. CASE out' = Append(out, row)
    <3> HIDE DEF row
    <3>1. /\ IsSequence(out') /\ DOMAIN out' = 1..(Len(out) + 1) /\ out'[Len(out) + 1] = row
          /\ \A i \in 1..Len(out) : out'[i] = out[i]
      BY <1>5, <2>2, Appended
    <3>2. \A i \in DOMAIN out' : i \in 1..Len(out) \/ i = Len(out) + 1
      BY <1>5, <3>1
    <3> QED BY <1>5, <3>1, <3>2
  <2> QED BY <1>2, <2>1, <2>2
<1>7. 1 \in DOMAIN queue
  BY <1>1
<1> HIDE DEF queue
<1>8. ConnsOf(rest) = {i \in DOMAIN rest : i + 1 \in ConnsOf(queue)}
  BY <1>4 DEF ConnsOf
<1>9. \A i \in ConnsOf(out') : \/ i \in ConnsOf(out) /\ out'[i] = out[i]
                               \/ i = Len(out) + 1 /\ 1 \in ConnsOf(queue) /\ out'[i] = queue[1]
  <2> TAKE i \in ConnsOf(out')
  <2>1. i \in DOMAIN out' /\ out'[i].table = "netscan"
    BY DEF ConnsOf
  <2>2. CASE i \in DOMAIN out
    <3>1. out'[i] = out[i]
      BY <1>6, <2>2
    <3>2. out[i].table = "netscan"
      BY <2>1, <3>1
    <3>3. i \in ConnsOf(out)
      BY <2>2, <3>2 DEF ConnsOf
    <3> QED BY <3>1, <3>3
  <2>3. CASE i \notin DOMAIN out
    <3>1. i = Len(out) + 1 /\ out'[i] = row
      BY <1>6, <2>1, <2>3
    <3>2. row.table = "netscan"
      BY <2>1, <3>1
    <3>3. 1 \in ConnsOf(queue)
      BY <1>7, <3>2 DEF ConnsOf
    <3> QED BY <3>1, <3>3
  <2> QED BY <2>2, <2>3
<1>10. AreKnown(mem.procs)' /\ AreKnown(mem.scanned)' /\ AreConns(mem.conns)'
  <2>1. AreKnown(mem.procs) /\ AreKnown(mem.scanned) /\ AreConns(mem.conns)
    BY DEF MemoryOK
  <2>2. made' = made /\ mem'.procs = mem.procs /\ mem'.scanned = mem.scanned /\ mem'.conns = mem.conns
    BY <1>2, <1>3
  <2> QED BY <2>1, <2>2, MachineKept
<1>11. stage \in BeforeConns => NoConns(out') /\ NoConns(rest)
  <2>1. stage \in BeforeConns => ConnsOf(out) = {} /\ ConnsOf(queue) = {}
    BY DEF MemoryOK, NoConns, queue
  <2> QED BY <1>8, <1>9, <2>1 DEF NoConns
<1>12. stage # "conns"
  BY <1>1 DEF MemoryOK, queue
<1>13. AreOwned(out)' /\ AreOwned(mem.queue)'
  <2>1. AreOwned(out) /\ AreOwned(queue)
    BY DEF MemoryOK, queue
  <2>2. AreOwned(out')
    BY <1>9, <2>1 DEF AreOwned
  <2>3. AreOwned(rest)
    BY <1>4, <1>8, <2>1 DEF AreOwned
  <2>4. AreOwned(out)' = AreOwned(out') /\ AreOwned(mem.queue)' = AreOwned(rest)
    BY <1>2, <1>3 DEF AreOwned
  <2> QED BY <2>2, <2>3, <2>4
<1>14. ASSUME Len(mem.conns) < Limits.conns PROVE AreApart(out') /\ AreApart(rest) /\ ApartFrom(out', rest)
  <2>1. AreApart(out) /\ AreApart(queue) /\ ApartFrom(out, queue)
    BY <1>14 DEF MemoryOK, queue
  <2>2. ASSUME NEW i \in ConnsOf(out'), NEW j \in ConnsOf(out'), i # j
        PROVE  Memory!Key(out'[i]) # Memory!Key(out'[j])
    <3>1. CASE i \in ConnsOf(out) /\ j \in ConnsOf(out)
      <4>1. out'[i] = out[i] /\ out'[j] = out[j]
        BY <1>6, <1>5, <3>1 DEF ConnsOf
      <4> QED BY <2>1, <2>2, <3>1, <4>1 DEF AreApart
    <3>2. CASE i \in ConnsOf(out) /\ j \notin ConnsOf(out)
      <4>1. 1 \in ConnsOf(queue) /\ out'[j] = queue[1] /\ out'[i] = out[i]
        BY <1>9, <1>6, <1>5, <3>2 DEF ConnsOf
      <4> QED BY <2>1, <3>2, <4>1 DEF ApartFrom
    <3>3. CASE i \notin ConnsOf(out) /\ j \in ConnsOf(out)
      <4>1. 1 \in ConnsOf(queue) /\ out'[i] = queue[1] /\ out'[j] = out[j]
        BY <1>9, <1>6, <1>5, <3>3 DEF ConnsOf
      <4> QED BY <2>1, <3>3, <4>1 DEF ApartFrom
    <3>4. CASE i \notin ConnsOf(out) /\ j \notin ConnsOf(out)
      BY <1>9, <2>2, <3>4
    <3> QED BY <3>1, <3>2, <3>3, <3>4
  <2>3. ASSUME NEW i \in ConnsOf(rest), NEW j \in ConnsOf(rest), Memory!Key(rest[i]) = Memory!Key(rest[j])
        PROVE  i = j
    <3>1. i + 1 \in ConnsOf(queue) /\ j + 1 \in ConnsOf(queue) /\ rest[i] = queue[i + 1] /\ rest[j] = queue[j + 1]
      BY <1>4, <1>8
    <3>2. i + 1 = j + 1
      BY <2>1, <2>3, <3>1 DEF AreApart
    <3>3. i \in Nat /\ j \in Nat
      BY <1>4 DEF ConnsOf
    <3> QED BY <3>2, <3>3
  <2>4. ASSUME NEW i \in ConnsOf(out'), NEW j \in ConnsOf(rest) PROVE Memory!Key(out'[i]) # Memory!Key(rest[j])
    <3>1. j + 1 \in ConnsOf(queue) /\ rest[j] = queue[j + 1] /\ j + 1 # 1
      BY <1>4, <1>8
    <3>2. CASE i \in ConnsOf(out) /\ out'[i] = out[i]
      BY <2>1, <3>1, <3>2 DEF ApartFrom
    <3>3. CASE 1 \in ConnsOf(queue) /\ out'[i] = queue[1]
      BY <2>1, <3>1, <3>3 DEF AreApart
    <3> QED BY <1>9, <3>2, <3>3
  <2> QED BY <2>2, <2>3, <2>4 DEF AreApart, ApartFrom
<1>15. NoConns(out)' = NoConns(out') /\ AreApart(out)' = AreApart(out')
  BY DEF NoConns, AreApart, ConnsOf
<1> QED BY <1>1, <1>2, <1>3, <1>6, <1>10, <1>11, <1>12, <1>13, <1>14, <1>15 DEF MemoryOK

LEMMA SameLength ==
    ASSUME NEW s, IsSequence(s), NEW f, f = [i \in DOMAIN s |-> f[i]]
    PROVE  IsSequence(f) /\ DOMAIN f = DOMAIN s
<1>1. DOMAIN s = 1..Len(s) /\ Len(s) \in Nat
  BY SequenceIs
<1>2. f = [i \in 1..Len(s) |-> f[i]]
  BY <1>1
<1>3. \A n \in Nat : \A g : g = [i \in 1..n |-> g[i]] => Len(g) = n
  OBVIOUS
<1>4. Len(f) = Len(s)
  BY <1>1, <1>2, <1>3
<1> QED BY <1>1, <1>2, <1>4 DEF IsSequence

\* The part of it that is not about rows stored or about to be.
MachineOK == /\ made \in Dumps /\ DOMAIN mem = DumpFields /\ IsSequence(mem.queue)
             /\ IsSequence(mem.runs) /\ \A i \in DOMAIN mem.runs : mem.runs[i].base \in Nat /\ mem.runs[i].count \in Nat
             /\ AreKnown(mem.procs) /\ AreKnown(mem.scanned) /\ AreConns(mem.conns)
             /\ IsSequence(mem.mods) /\ NoConns(mem.mods)

LEMMA MemoryIs == ASSUME MemoryOK PROVE MachineOK
BY DEF MemoryOK, MachineOK

\* The kernel's tables and the layout are looked for, and the lists followed.
LEMMA Opening == ASSUME MemoryOK, Memory!OpenDump \/ Memory!FindCR3 PROVE MemoryOK'
<1>1. /\ UNCHANGED <<made, out>> /\ stage \in BeforeConns /\ stage' \in BeforeConns /\ stage' # "conns"
      /\ \/ mem' = [mem EXCEPT !.runs = Memory!RunsOf]
         \/ mem' = [mem EXCEPT !.cr3 = Memory!KernelCR3]
  BY DEF Memory!OpenDump, Memory!FindCR3, BeforeConns
<1>2. MachineOK
  BY MemoryIs
<1>3. /\ DOMAIN mem' = DumpFields /\ mem'.runs \in {mem.runs, Memory!RunsOf} /\ mem'.procs = mem.procs
      /\ mem'.scanned = mem.scanned /\ mem'.conns = mem.conns /\ mem'.mods = mem.mods /\ mem'.queue = mem.queue
  BY <1>1, <1>2 DEF MachineOK, DumpFields
<1>4. IsSequence(mem'.runs) /\ \A i \in DOMAIN mem'.runs : mem'.runs[i].base \in Nat /\ mem'.runs[i].count \in Nat
  BY <1>2, <1>3, RunsAre DEF MachineOK
<1> QED BY <1>1, <1>2, <1>3, <1>4, OtherRows DEF MachineOK

LEMMA FollowingProcesses == ASSUME MemoryOK, Memory!ChooseProfile \/ Memory!WalkProcess PROVE MemoryOK'
<1> DEFINE page == Memory!View(mem.cr3, pos)
           more == Append(mem.procs, Memory!Process(pos, page))
<1>1. /\ UNCHANGED <<made, out>> /\ stage \in BeforeConns /\ stage' \in BeforeConns /\ stage' # "conns"
      /\ \/ mem' = [mem EXCEPT !.profile = Memory!Chosen, !.seen = {Memory!file.head}]
         \/ mem' = [mem EXCEPT !.seen = @ \cup {pos}, !.procs = mem.procs]
         \/ Memory!IsThere(page) /\ mem' = [mem EXCEPT !.seen = @ \cup {pos}, !.procs = more]
  <2>1. CASE Memory!ChooseProfile
    BY <2>1 DEF Memory!ChooseProfile, BeforeConns
  <2>2. CASE Memory!WalkProcess
    <3>1. Memory!EProc(page, mem.profile) => Memory!IsThere(page)
      BY Zenon DEF Memory!EProc
    <3>2. mem' = [mem EXCEPT !.seen = @ \cup {pos},
                             !.procs = IF Memory!EProc(page, mem.profile) THEN more ELSE mem.procs]
      BY <2>2 DEF Memory!WalkProcess
    <3>3. UNCHANGED <<made, out, stage>> /\ stage = "walk"
      BY <2>2 DEF Memory!WalkProcess, Memory!At
    <3>4. \/ Memory!IsThere(page) /\ mem' = [mem EXCEPT !.seen = @ \cup {pos}, !.procs = more]
          \/ mem' = [mem EXCEPT !.seen = @ \cup {pos}, !.procs = mem.procs]
      BY <3>1, <3>2, Zenon
    <3> QED BY <3>3, <3>4 DEF BeforeConns
  <2> QED BY <2>1, <2>2
<1>2. MachineOK
  BY MemoryIs
<1>3. Memory!IsThere(page) => AreKnown(more)
  <2> SUFFICES ASSUME Memory!IsThere(page) PROVE AreKnown(more)
    OBVIOUS
  <2> DEFINE p == Memory!Process(pos, page)
  <2>1. {"pid", "name"} \subseteq DOMAIN p /\ IsKnown(p)
    <3> DEFINE block == Memory!Block(page, mem.profile)
    <3>1. IsKnown(block)
      BY <1>2, ViewIs DEF PageOK, BlockOK, MachineOK
    <3>2. {"pid", "name"} \subseteq DOMAIN p /\ p.pid = block.pid /\ p.name = block.name
      BY DEF Memory!Process
    <3> HIDE DEF p, block
    <3> QED BY <3>1, <3>2 DEF IsKnown
  <2> HIDE DEF p, page
  <2>2. /\ IsSequence(mem.procs) /\ DOMAIN mem.procs = 1..Len(mem.procs) /\ Len(mem.procs) \in Nat
        /\ \A i \in DOMAIN mem.procs : {"pid", "name"} \subseteq DOMAIN mem.procs[i] /\ IsKnown(mem.procs[i])
    BY <1>2, SequenceIs DEF MachineOK, AreKnown
  <2>3. /\ IsSequence(Append(mem.procs, p)) /\ DOMAIN Append(mem.procs, p) = 1..(Len(mem.procs) + 1)
        /\ Append(mem.procs, p)[Len(mem.procs) + 1] = p
        /\ \A i \in 1..Len(mem.procs) : Append(mem.procs, p)[i] = mem.procs[i]
    BY <2>2, Appended
  <2>4. \A i \in 1..(Len(mem.procs) + 1) : i \in 1..Len(mem.procs) \/ i = Len(mem.procs) + 1
    BY <2>2
  <2>5. AreKnown(Append(mem.procs, p))
    BY <2>1, <2>2, <2>3, <2>4 DEF AreKnown
  <2> QED BY <2>5 DEF p
<1> HIDE DEF more, page
<1>4. /\ DOMAIN mem' = DumpFields /\ mem'.runs = mem.runs /\ mem'.scanned = mem.scanned
      /\ mem'.conns = mem.conns /\ mem'.mods = mem.mods /\ mem'.queue = mem.queue
      /\ mem'.procs = mem.procs \/ (Memory!IsThere(page) /\ mem'.procs = more)
  BY <1>1, <1>2 DEF MachineOK, DumpFields
<1>5. AreKnown(mem'.procs)
  BY <1>2, <1>3, <1>4 DEF MachineOK
<1> QED BY <1>1, <1>2, <1>4, <1>5, OtherRows DEF MachineOK

LEMMA EndingWalk == ASSUME MemoryOK, Memory!EndWalk PROVE MemoryOK'
<1> DEFINE procs == IF mem.procs = <<>> THEN Memory!Blocks ELSE mem.procs
           rows == Memory!FlattenSeq([i \in DOMAIN procs |-> <<Memory!ListRow(procs[i])>> \o Memory!CommandLine(procs[i])])
<1>1. /\ UNCHANGED <<made, out>> /\ stage \in BeforeConns /\ stage' \in BeforeConns /\ stage' # "conns"
      /\ mem' = [mem EXCEPT !.procs = procs, !.queue = rows]
  BY DEF Memory!EndWalk, Memory!At, BeforeConns
<1>2. MachineOK
  BY MemoryIs
<1>3. AreKnown(procs)
  BY <1>2, BlocksKnown DEF MachineOK
<1> HIDE DEF procs
<1>4. IsSequence(rows) /\ NoConns(rows)
  BY <1>3, ListRowsAre DEF AreKnown
<1> HIDE DEF rows
<1>5. /\ DOMAIN mem' = DumpFields /\ mem'.runs = mem.runs /\ mem'.scanned = mem.scanned
      /\ mem'.conns = mem.conns /\ mem'.mods = mem.mods /\ mem'.queue = rows /\ mem'.procs = procs
  BY <1>1, <1>2 DEF MachineOK, DumpFields
<1> QED BY <1>1, <1>2, <1>3, <1>4, <1>5, OtherRows DEF MachineOK

LEMMA ScanningPool == ASSUME MemoryOK, Memory!ScanPool PROVE MemoryOK'
<1> DEFINE blocks == Memory!Blocks
           judged == [i \in DOMAIN blocks |-> [blocks[i] EXCEPT !.stale = Memory!IsStale(blocks[i])]]
           rows == [i \in DOMAIN judged |-> Memory!ScanRow(judged[i])]
<1>1. /\ UNCHANGED <<made, out>> /\ stage \in BeforeConns /\ stage' \in BeforeConns /\ stage' # "conns"
      /\ mem' = [mem EXCEPT !.scanned = judged, !.queue = rows]
  BY DEF Memory!ScanPool, Memory!At, BeforeConns
<1>2. MachineOK
  BY MemoryIs
<1>3. AreKnown(blocks)
  BY <1>2, BlocksKnown DEF MachineOK
<1> HIDE DEF blocks
<1>4. AreKnown(judged)
  <2>1. \A i \in DOMAIN judged : {"pid", "name"} \subseteq DOMAIN judged[i] /\ IsKnown(judged[i])
    BY <1>3 DEF AreKnown, IsKnown
  <2>2. judged = [i \in DOMAIN blocks |-> judged[i]]
    OBVIOUS
  <2> HIDE DEF judged
  <2>3. IsSequence(judged)
    BY <1>3, <2>2, SameLength DEF AreKnown
  <2> QED BY <2>1, <2>3 DEF AreKnown
<1> HIDE DEF judged
<1>5. IsSequence(rows) /\ NoConns(rows)
  <2>1. \A i \in DOMAIN rows : rows[i].table = "psscan"
    BY DEF Memory!ScanRow
  <2>2. rows = [i \in DOMAIN judged |-> rows[i]]
    OBVIOUS
  <2> HIDE DEF rows
  <2>3. IsSequence(rows)
    BY <1>4, <2>2, SameLength DEF AreKnown
  <2> QED BY <2>1, <2>3 DEF NoConns, ConnsOf
<1> HIDE DEF rows
<1>6. /\ DOMAIN mem' = DumpFields /\ mem'.runs = mem.runs /\ mem'.scanned = judged
      /\ mem'.conns = mem.conns /\ mem'.mods = mem.mods /\ mem'.queue = rows /\ mem'.procs = mem.procs
  BY <1>1, <1>2 DEF MachineOK, DumpFields
<1> QED BY <1>1, <1>2, <1>4, <1>5, <1>6, OtherRows DEF MachineOK

LEMMA ScanningNetwork == ASSUME MemoryOK, Memory!ScanNetwork PROVE MemoryOK'
<1>1. /\ UNCHANGED <<made, out>> /\ stage \in BeforeConns /\ stage' \in BeforeConns /\ mem.queue = <<>>
      /\ mem' = [mem EXCEPT !.conns = Memory!Endpoints]
  BY DEF Memory!ScanNetwork, Memory!At, BeforeConns
<1>2. MachineOK
  BY MemoryIs
<1>3. AreConns(Memory!Endpoints)
  BY <1>2, EndpointsAre DEF MachineOK
<1>4. /\ DOMAIN mem' = DumpFields /\ mem'.runs = mem.runs /\ mem'.scanned = mem.scanned
      /\ mem'.conns = Memory!Endpoints /\ mem'.mods = mem.mods /\ mem'.queue = mem.queue /\ mem'.procs = mem.procs
  BY <1>1, <1>2 DEF MachineOK, DumpFields
<1> QED BY <1>1, <1>2, <1>3, <1>4, OtherRows DEF MachineOK

\* The queue is given the connections: of a table that is not full, each one time.
LEMMA Deduplicating == ASSUME MemoryOK, Memory!DedupConns PROVE MemoryOK'
<1> DEFINE kept == IF Len(mem.conns) >= Limits.conns THEN mem.conns ELSE Memory!Distinct(mem.conns)
           rows == [i \in DOMAIN kept |-> Memory!Owned(kept[i])]
<1>1. /\ made' = made /\ out' = out /\ stage = "conns" /\ stage' = "modules"
      /\ mem' = [mem EXCEPT !.queue = rows, !.seen = {Memory!file.mods}]
  BY DEF Memory!DedupConns, Memory!At
<1>2. MachineOK /\ IsSequence(out) /\ NoConns(out) /\ AreOwned(out)
  BY <1>1, MemoryIs DEF MemoryOK, BeforeConns
<1>3. /\ AreConns(kept)
      /\ Len(mem.conns) < Limits.conns => \A x, y \in DOMAIN kept : Memory!Key(kept[x]) = Memory!Key(kept[y]) => x = y
  <2>1. AreConns(mem.conns) /\ Len(mem.conns) \in Nat /\ Limits.conns \in Nat
    BY <1>2, SequenceIs, MemoryConstants DEF MachineOK, AreConns
  <2>2. CASE Len(mem.conns) >= Limits.conns
    <3>1. kept = mem.conns /\ ~(Len(mem.conns) < Limits.conns)
      BY <2>1, <2>2
    <3> HIDE DEF kept
    <3> QED BY <2>1, <3>1
  <2>3. CASE ~(Len(mem.conns) >= Limits.conns)
    <3>1. kept = Memory!Distinct(mem.conns)
      BY <2>3
    <3> HIDE DEF kept
    <3> QED BY <2>1, <3>1, DistinctIs
  <2> QED BY <2>2, <2>3
<1> HIDE DEF kept
<1>4. /\ IsSequence(rows) /\ AreOwned(rows) /\ DOMAIN rows = DOMAIN kept
      /\ \A i \in DOMAIN rows : Memory!Key(rows[i]) = Memory!Key(kept[i])
  BY <1>2, <1>3, OwnedRows DEF MachineOK
<1> HIDE DEF rows
<1>5. Len(mem.conns) < Limits.conns => AreApart(rows)
  BY <1>3, <1>4 DEF AreApart, ConnsOf
<1>6. AreApart(out) /\ ApartFrom(out, rows)
  BY <1>2 DEF NoConns, AreApart, ApartFrom
<1>7. /\ DOMAIN mem' = DumpFields /\ mem'.runs = mem.runs /\ mem'.scanned = mem.scanned
      /\ mem'.conns = mem.conns /\ mem'.mods = mem.mods /\ mem'.queue = rows /\ mem'.procs = mem.procs
  BY <1>1, <1>2 DEF MachineOK, DumpFields
<1>8. AreKnown(mem.procs)' /\ AreKnown(mem.scanned)' /\ AreConns(mem.conns)'
  <2>1. AreKnown(mem'.procs) /\ AreKnown(mem'.scanned) /\ AreConns(mem'.conns)
    BY <1>2, <1>7 DEF MachineOK
  <2> QED BY <1>1, <2>1, MachineKept
<1>9. AreOwned(out)' /\ AreOwned(mem.queue)'
  <2>1. AreOwned(out)' = AreOwned(out) /\ AreOwned(mem.queue)' = AreOwned(rows)
    BY <1>1, <1>7 DEF AreOwned
  <2> QED BY <1>2, <1>4, <2>1
<1>10. Len(mem'.conns) < Limits.conns => AreApart(out') /\ AreApart(mem'.queue) /\ ApartFrom(out', mem'.queue)
  BY <1>1, <1>5, <1>6, <1>7
<1>11. stage' \notin BeforeConns /\ stage' # "conns"
  BY <1>1 DEF BeforeConns
<1>12. made' \in Dumps /\ IsSequence(out') /\ IsSequence(mem'.queue)
  BY <1>1, <1>2, <1>4, <1>7 DEF MachineOK
<1>13. IsSequence(mem'.runs) /\ \A i \in DOMAIN mem'.runs : mem'.runs[i].base \in Nat /\ mem'.runs[i].count \in Nat
  BY <1>2, <1>7 DEF MachineOK
<1>14. IsSequence(mem'.mods) /\ NoConns(mem'.mods)
  BY <1>2, <1>7 DEF MachineOK
<1> QED BY <1>1, <1>7, <1>8, <1>9, <1>10, <1>11, <1>12, <1>13, <1>14 DEF MemoryOK

LEMMA FollowingModules == ASSUME MemoryOK, Memory!WalkModule \/ Memory!EndModules PROVE MemoryOK'
<1> DEFINE page == Memory!View(mem.cr3, pos)
           more == mem.mods \o Memory!ModuleOf(page)
<1>1. /\ UNCHANGED <<made, out>> /\ stage \notin BeforeConns /\ stage' \in {"modules", "malfind"}
      /\ \/ mem' = [mem EXCEPT !.seen = @ \cup {pos}, !.mods = more]
         \/ mem' = [mem EXCEPT !.queue = mem.mods]
  BY DEF Memory!WalkModule, Memory!EndModules, Memory!At, BeforeConns
<1>2. MachineOK
  BY MemoryIs
<1>3. IsSequence(more) /\ NoConns(more)
  <2> DEFINE own == Memory!ModuleOf(page)
             row(name) == Memory!ModuleRow(name)
  <2>1. own = <<>> \/ \E name : own = <<row(name)>>
    <3>1. own \in {<<>>, <<row(page.name)>>, <<row("")>>}
      BY DEF Memory!ModuleOf, Memory!IsThere
    <3> HIDE DEF own, row
    <3> QED BY <3>1
  <2>2. \A name : row(name).table # "netscan"
    BY DEF Memory!ModuleRow
  <2> HIDE DEF own, row
  <2>3. IsSequence(own) /\ NoConns(own)
    <3>1. CASE own = <<>>
      BY <3>1 DEF IsSequence, NoConns, ConnsOf
    <3>2. ASSUME NEW name, own = <<row(name)>> PROVE IsSequence(own) /\ NoConns(own)
      BY <2>2, <3>2 DEF IsSequence, NoConns, ConnsOf
    <3> QED BY <2>1, <3>1, <3>2
  <2>4. IsSequence(mem.mods) /\ NoConns(mem.mods)
    BY <1>2 DEF MachineOK
  <2> DEFINE both == mem.mods \o own
  <2>5. /\ IsSequence(both) /\ DOMAIN both = 1..Len(both) /\ Len(both) = Len(mem.mods) + Len(own)
        /\ DOMAIN mem.mods = 1..Len(mem.mods) /\ DOMAIN own = 1..Len(own) /\ Len(mem.mods) \in Nat /\ Len(own) \in Nat
        /\ \A i \in 1..Len(mem.mods) : both[i] = mem.mods[i]
        /\ \A i \in 1..(Len(mem.mods) + Len(own)) :
             i > Len(mem.mods) => both[i] = own[i - Len(mem.mods)] /\ i - Len(mem.mods) \in 1..Len(own)
    <3>1. IsSequence(both)
      BY <2>3, <2>4, Joined
    <3> QED BY <3>1, <2>3, <2>4, Joined, SequenceIs
  <2> HIDE DEF both
  <2>6. IsSequence(both) /\ NoConns(both)
    <3>1. \A i \in DOMAIN both : both[i].table # "netscan"
      <4> TAKE i \in DOMAIN both
      <4>1. i \in 1..Len(mem.mods) \/ (i \in 1..(Len(mem.mods) + Len(own)) /\ i > Len(mem.mods))
        BY <2>5
      <4> QED BY <4>1, <2>3, <2>4, <2>5 DEF NoConns, ConnsOf
    <3> QED BY <3>1, <2>5 DEF NoConns, ConnsOf
  <2> QED BY <2>6 DEF both, own
<1> HIDE DEF more, page
<1>4. /\ DOMAIN mem' = DumpFields /\ mem'.runs = mem.runs /\ mem'.scanned = mem.scanned
      /\ mem'.conns = mem.conns /\ mem'.mods \in {mem.mods, more} /\ mem'.queue \in {mem.queue, mem.mods}
      /\ mem'.procs = mem.procs
  BY <1>1, <1>2 DEF MachineOK, DumpFields
<1>5. IsSequence(mem'.mods) /\ NoConns(mem'.mods)
  BY <1>2, <1>3, <1>4 DEF MachineOK
<1>6. stage' # "conns" /\ stage' \notin BeforeConns
  BY <1>1 DEF BeforeConns
<1> QED BY <1>1, <1>2, <1>4, <1>5, <1>6, OtherRows DEF MachineOK

LEMMA SearchingRegions == ASSUME MemoryOK, Memory!ScanMalfind PROVE MemoryOK'
<1>1. /\ UNCHANGED <<made, out>> /\ stage \notin BeforeConns /\ stage' = "sysinfo" /\ stage' \notin BeforeConns
      /\ mem' = [mem EXCEPT !.queue = Memory!AllHits]
  BY DEF Memory!ScanMalfind, Memory!At, BeforeConns
<1>2. MachineOK
  BY MemoryIs
<1>3. IsSequence(Memory!AllHits) /\ NoConns(Memory!AllHits)
  <2>1. IsHits(Memory!AllHits)
    BY <1>2, AllHitsAre DEF MachineOK
  <2> QED BY <2>1 DEF IsHits, NoConns, ConnsOf
<1>4. /\ DOMAIN mem' = DumpFields /\ mem'.runs = mem.runs /\ mem'.scanned = mem.scanned
      /\ mem'.conns = mem.conns /\ mem'.mods = mem.mods /\ mem'.queue = Memory!AllHits /\ mem'.procs = mem.procs
  BY <1>1, <1>2 DEF MachineOK, DumpFields
<1> QED BY <1>1, <1>2, <1>3, <1>4, OtherRows DEF MachineOK

LEMMA EndingDump == ASSUME MemoryOK, Memory!InsertSysInfo PROVE MemoryOK'
<1> DEFINE row == [table |-> "sysinfo", profile |-> mem.profile]
<1>1. made' = made /\ stage' = stage /\ mem' = mem /\ stage \notin BeforeConns /\ out' = Append(out, row)
  BY DEF Memory!InsertSysInfo, Memory!At, BeforeConns
<1>2. row.table # "netscan"
  OBVIOUS
<1> HIDE DEF row
<1>3. IsSequence(out) /\ DOMAIN out = 1..Len(out) /\ Len(out) \in Nat
  BY SequenceIs DEF MemoryOK
<1>4. /\ IsSequence(out') /\ DOMAIN out' = 1..(Len(out) + 1) /\ out'[Len(out) + 1] = row
      /\ \A i \in 1..Len(out) : out'[i] = out[i]
  BY <1>1, <1>3, Appended
<1>5. \A i \in 1..(Len(out) + 1) : i \in 1..Len(out) \/ i = Len(out) + 1
  BY <1>3
<1>6. \A i \in ConnsOf(out') : i \in ConnsOf(out) /\ out'[i] = out[i]
  <2> TAKE i \in ConnsOf(out')
  <2>1. i \in DOMAIN out' /\ out'[i].table = "netscan"
    BY DEF ConnsOf
  <2>2. i \in DOMAIN out /\ out'[i] = out[i]
    BY <1>2, <1>3, <1>4, <1>5, <2>1
  <2>3. out[i].table = "netscan"
    BY <2>1, <2>2
  <2>4. i \in ConnsOf(out)
    BY <2>2, <2>3 DEF ConnsOf
  <2> QED BY <2>2, <2>4
<1>7. AreOwned(out) /\ AreOwned(mem.queue)
  BY DEF MemoryOK
<1>8. AreOwned(out)' /\ AreOwned(mem.queue)'
  <2>1. AreOwned(out')
    BY <1>6, <1>7 DEF AreOwned
  <2>2. AreOwned(out)' = AreOwned(out') /\ AreOwned(mem.queue)' = AreOwned(mem.queue)
    BY <1>1 DEF AreOwned
  <2> QED BY <1>7, <2>1, <2>2
<1>9. AreKnown(mem.procs)' /\ AreKnown(mem.scanned)' /\ AreConns(mem.conns)'
  <2>1. AreKnown(mem'.procs) /\ AreKnown(mem'.scanned) /\ AreConns(mem'.conns)
    BY <1>1 DEF MemoryOK
  <2> QED BY <1>1, <2>1, MachineKept
<1>10. Len(mem.conns) < Limits.conns => AreApart(out') /\ AreApart(mem.queue) /\ ApartFrom(out', mem.queue)
  <2> SUFFICES ASSUME Len(mem.conns) < Limits.conns PROVE AreApart(out') /\ AreApart(mem.queue) /\ ApartFrom(out', mem.queue)
    OBVIOUS
  <2>1. AreApart(out) /\ AreApart(mem.queue) /\ ApartFrom(out, mem.queue)
    BY DEF MemoryOK
  <2>2. AreApart(out')
    BY <1>6, <2>1 DEF AreApart
  <2>3. ApartFrom(out', mem.queue)
    BY <1>6, <2>1 DEF ApartFrom
  <2> QED BY <2>1, <2>2, <2>3
<1>11. MachineOK /\ stage \in BeforeConns \cup {"modules", "malfind", "sysinfo"} /\ stage # "conns"
  BY <1>1, MemoryIs DEF MemoryOK, BeforeConns
<1> QED BY <1>1, <1>4, <1>8, <1>9, <1>10, <1>11 DEF MemoryOK, MachineOK

LEMMA MemoryStays == ASSUME MemoryOK, UNCHANGED <<made, stage, mem, out>> PROVE MemoryOK'
<1>1. AreKnown(mem.procs)' /\ AreKnown(mem.scanned)' /\ AreConns(mem.conns)'
  <2>1. AreKnown(mem'.procs) /\ AreKnown(mem'.scanned) /\ AreConns(mem'.conns)
    BY DEF MemoryOK
  <2> QED BY <2>1, MachineKept
<1>2. AreOwned(out)' = AreOwned(out) /\ AreOwned(mem.queue)' = AreOwned(mem.queue)
  BY DEF AreOwned
<1> QED BY <1>1, <1>2 DEF MemoryOK

LEMMA MemoryStep == ASSUME MemoryOK, Memory!Next PROVE MemoryOK'
<1>1. CASE Memory!OpenFails
  <2>1. UNCHANGED <<made, stage, mem, out>>
    BY <1>1 DEF Memory!OpenFails
  <2> QED BY <2>1, MemoryStays
<1>2. CASE Memory!OpenDump \/ Memory!FindCR3
  BY <1>2, Opening
<1>3. CASE Memory!ChooseProfile \/ Memory!WalkProcess
  BY <1>3, FollowingProcesses
<1>4. CASE Memory!EndWalk
  BY <1>4, EndingWalk
<1>5. CASE Memory!StoreRow
  BY <1>5, StoringOfDump
<1>6. CASE Memory!ScanPool
  BY <1>6, ScanningPool
<1>7. CASE Memory!ScanNetwork
  BY <1>7, ScanningNetwork
<1>8. CASE Memory!DedupConns
  BY <1>8, Deduplicating
<1>9. CASE Memory!WalkModule \/ Memory!EndModules
  BY <1>9, FollowingModules
<1>10. CASE Memory!ScanMalfind
  BY <1>10, SearchingRegions
<1>11. CASE Memory!InsertSysInfo
  BY <1>11, EndingDump
<1> QED BY <1>1, <1>2, <1>3, <1>4, <1>5, <1>6, <1>7, <1>8, <1>9, <1>10, <1>11 DEF Memory!Next

\* scanNetwork and the storing of what it finds, whatever the pages are, in which the same
\* connection has any number of blocks, and whichever inserts fail.
THEOREM ConnectionsOwned == Spec => []ConnectionsAreOwned
<1> DEFINE Inv == job = "memory" => MemoryOK
<1>1. Init => Inv
  BY MemoryInit DEF Init
<1>2. Inv /\ [Next \/ Stopped]_vars => Inv'
  <2>1. UNCHANGED Memory!vars => UNCHANGED <<made, stage, mem, out>>
    BY DEF Memory!vars
  <2> QED BY <2>1, MemorySteps, MemoryStep, MemoryStays
<1>3. Inv => ConnectionsAreOwned
  <2>1. MemoryOK => AreOwned(out) /\ (Len(mem.conns) < Limits.conns => AreApart(out))
    BY DEF MemoryOK
  <2>2. ASSUME MemoryOK PROVE Memory!ConnectionsAreOwned
    <3>1. \A i \in {j \in DOMAIN out : out[j].table = "netscan"} :
            out[i].pid # 0 /\ out[i].name # "?" => <<out[i].pid, out[i].name>> \in made.truth.known
      BY <2>1, <2>2 DEF AreOwned, ConnsOf
    <3>2. Len(mem.conns) < Limits.conns =>
            \A i, j \in {k \in DOMAIN out : out[k].table = "netscan"} : Memory!Key(out[i]) = Memory!Key(out[j]) => i = j
      BY <2>1, <2>2 DEF AreApart, ConnsOf
    <3> QED BY <3>1, <3>2 DEF Memory!ConnectionsAreOwned, Memory!Truth
  <2> QED BY <2>2 DEF ConnectionsAreOwned
<1> QED BY <1>1, <1>2, <1>3, PTL DEF Spec
=============================================================================
