----------------------------- MODULE ProgressProofs -----------------------------
(***************************************************************************)
(* The progress display, for any parsers, groups, events and ticks, as long *)
(* as no signal arrives: unless the animation draws when Stop comes, every  *)
(* frame covers the one before it and the last one is the rows'.            *)
(***************************************************************************)
EXTENDS Progress, FiniteSetTheorems, SequenceTheorems, TLAPS

-----------------------------------------------------------------------------
(* The lines of a frame: they grow with the rows, and depend on the names alone. *)

LEMMA LineType ==
    ASSUME NEW rs, NEW i \in Nat
    PROVE  /\ IsFiniteSet({j \in 1..i : Opens(rs, j)}) /\ Cardinality({j \in 1..i : Opens(rs, j)}) \in Nat
           /\ LineOf(rs, i) \in Nat
<1>1. IsFiniteSet(1..i)
  BY FS_Interval
<1>2. IsFiniteSet({j \in 1..i : Opens(rs, j)})
  BY <1>1, FS_Subset
<1>3. Cardinality({j \in 1..i : Opens(rs, j)}) \in Nat
  BY <1>2, FS_CardinalityType
<1> QED BY <1>2, <1>3 DEF LineOf

LEMMA LineZero == \A rs : LineOf(rs, 0) = 0
<1> SUFFICES ASSUME NEW rs PROVE LineOf(rs, 0) = 0
  OBVIOUS
<1>1. {j \in 1..0 : Opens(rs, j)} = {}
  OBVIOUS
<1>2. Cardinality({j \in 1..0 : Opens(rs, j)}) = 0
  BY <1>1, FS_EmptySet
<1> QED BY <1>2 DEF LineOf

LEMMA LineNext ==
    ASSUME NEW rs, NEW i \in Nat
    PROVE  LineOf(rs, i + 1) = LineOf(rs, i) + (IF Opens(rs, i + 1) THEN 2 ELSE 1)
<1> DEFINE O(n) == {j \in 1..n : Opens(rs, j)}
<1>1. IsFiniteSet(O(i)) /\ Cardinality(O(i)) \in Nat /\ i + 1 \notin O(i)
  <2>1. i + 1 \notin 1..i
    OBVIOUS
  <2> QED BY <2>1, LineType
<1>2. O(i + 1) = IF Opens(rs, i + 1) THEN O(i) \cup {i + 1} ELSE O(i)
  <2>1. 1..(i + 1) = (1..i) \cup {i + 1}
    OBVIOUS
  <2> QED BY <2>1
<1>3. LineOf(rs, i) = i + Cardinality(O(i)) /\ LineOf(rs, i + 1) = i + 1 + Cardinality(O(i + 1))
  BY DEF LineOf
<1> HIDE DEF O
<1>4. Cardinality(O(i + 1)) = IF Opens(rs, i + 1) THEN Cardinality(O(i)) + 1 ELSE Cardinality(O(i))
  BY <1>1, <1>2, FS_AddElement
<1> QED BY <1>1, <1>3, <1>4

LEMMA LineMono ==
    ASSUME NEW rs, NEW i \in Nat, NEW k \in Nat, i <= k
    PROVE  LineOf(rs, i) <= LineOf(rs, k) /\ (i < k => LineOf(rs, i) < LineOf(rs, k))
<1> DEFINE O(n) == {j \in 1..n : Opens(rs, j)}
<1>1. IsFiniteSet(O(k)) /\ Cardinality(O(k)) \in Nat /\ Cardinality(O(i)) \in Nat
  BY LineType
<1>2. O(i) \subseteq O(k)
  OBVIOUS
<1>3. LineOf(rs, i) = i + Cardinality(O(i)) /\ LineOf(rs, k) = k + Cardinality(O(k))
  BY DEF LineOf
<1> HIDE DEF O
<1>4. Cardinality(O(i)) <= Cardinality(O(k))
  BY <1>1, <1>2, FS_Subset
<1> QED BY <1>1, <1>3, <1>4

\* Two rows' lines are apart, and there is room for the group's line between them.
LEMMA LinesApart ==
    ASSUME NEW rs, NEW i \in Nat, NEW k \in Nat \ {0}, i < k
    PROVE  LineOf(rs, i) < LineOf(rs, k) /\ (Opens(rs, k) => LineOf(rs, i) + 1 < LineOf(rs, k))
<1>1. k - 1 \in Nat /\ i <= k - 1 /\ (k - 1) + 1 = k
  OBVIOUS
<1>2. LineOf(rs, i) <= LineOf(rs, k - 1)
  BY <1>1, LineMono
<1>3. LineOf(rs, k) = LineOf(rs, k - 1) + (IF Opens(rs, k) THEN 2 ELSE 1)
  BY <1>1, LineNext
<1>4. LineOf(rs, i) \in Nat /\ LineOf(rs, k - 1) \in Nat
  BY <1>1, LineType
<1> QED BY <1>2, <1>3, <1>4

LEMMA LineKept ==
    ASSUME NEW rs, NEW qs, NEW i \in Nat, \A j \in 1..i : qs[j].name = rs[j].name
    PROVE  LineOf(qs, i) = LineOf(rs, i) /\ \A j \in 1..i : Opens(qs, j) <=> Opens(rs, j)
<1>1. \A j \in 1..i : Opens(qs, j) <=> Opens(rs, j)
  <2> SUFFICES ASSUME NEW j \in 1..i PROVE Opens(qs, j) <=> Opens(rs, j)
    OBVIOUS
  <2>1. j = 1 \/ j - 1 \in 1..i
    OBVIOUS
  <2> QED BY <2>1 DEF Opens
<1>2. {j \in 1..i : Opens(qs, j)} = {j \in 1..i : Opens(rs, j)}
  BY <1>1
<1> QED BY <1>1, <1>2 DEF LineOf

-----------------------------------------------------------------------------
(* A frame as it is built. *)

Texts == Status \cup {"parsers", ""} \cup {GroupOf(name) : name \in Names}
Lines == {Above[k] : k \in 1..Len(Above)} \cup ((Names \cup {"group", "bar", "blank"}) \X Texts)
Rows == [name : Names, status : Status]

\* Line k is of the first i rows: a row's own, with its status if exact, or its group's.
Covered(rs, line, k, i, exact) ==
    \E j \in 1..i :
      \/ k = LineOf(rs, j) /\ line[1] = rs[j].name /\ (exact => line = <<rs[j].name, rs[j].status>>)
      \/ k + 1 = LineOf(rs, j) /\ Opens(rs, j) /\ line = <<"group", GroupOf(rs[j].name)>>
Covers(rs, ls, i, exact) == \A k \in 1..LineOf(rs, i) : Covered(rs, ls[k], k, i, exact)
Complete(rs, ls, n, exact) ==
    Len(ls) = LineOf(rs, n) + 1 /\ ls[Len(ls)] = <<"bar", "parsers">> /\ Covers(rs, ls, n, exact)
Distinct(rs) == \A i, j \in DOMAIN rs : rs[i].name = rs[j].name => i = j
Unique(ls) == \A j, k \in 1..Len(ls) : ls[j][1] = ls[k][1] /\ ls[j][1] \in Names \cup {"bar"} => j = k

LEMMA TwoLines ==
    ASSUME NEW S, NEW a \in S, NEW b \in S
    PROVE  <<a>> \o <<b>> \in Seq(S) /\ Len(<<a>> \o <<b>>) = 2 /\ (<<a>> \o <<b>>)[1] = a /\ (<<a>> \o <<b>>)[2] = b
<1>1. /\ <<a>> \o <<b>> \in Seq(S)
      /\ Len(<<a>> \o <<b>>) = Len(<<a>>) + Len(<<b>>)
      /\ \A i \in 1..(Len(<<a>>) + Len(<<b>>)) : (<<a>> \o <<b>>)[i] = IF i <= Len(<<a>>) THEN <<a>>[i] ELSE <<b>>[i - Len(<<a>>)]
  BY ConcatProperties
<1>2. Len(<<a>>) = 1 /\ Len(<<b>>) = 1 /\ <<a>>[1] = a /\ <<b>>[1] = b
  OBVIOUS
<1> QED BY <1>1, <1>2

LEMMA CoversNext ==
    ASSUME NEW rs \in Seq(Rows), NEW i \in Nat, i + 1 <= Len(rs), NEW ls \in Seq(Lines),
           Len(ls) = LineOf(rs, i), NEW exact \in BOOLEAN, Covers(rs, ls, i, exact), NEW more,
           more = (IF Opens(rs, i + 1) THEN <<<<"group", GroupOf(rs[i + 1].name)>>>> ELSE <<>>)
                  \o <<<<rs[i + 1].name, rs[i + 1].status>>>>
    PROVE  ls \o more \in Seq(Lines) /\ Len(ls \o more) = LineOf(rs, i + 1) /\ Covers(rs, ls \o more, i + 1, exact)
<1> DEFINE r == rs[i + 1]
           h == LineOf(rs, i)
<1>1. r \in Rows /\ i + 1 \in 1..Len(rs) /\ i + 1 \in 1..(i + 1) /\ h \in Nat
  BY LineType
<1>2. <<r.name, r.status>> \in Lines /\ <<"group", GroupOf(r.name)>> \in Lines
  BY <1>1 DEF Lines, Texts, Rows
<1>3. LineOf(rs, i + 1) = h + (IF Opens(rs, i + 1) THEN 2 ELSE 1)
  BY LineNext
<1> HIDE DEF r, h
<1>4. /\ more \in Seq(Lines)
      /\ IF Opens(rs, i + 1)
         THEN Len(more) = 2 /\ more[1] = <<"group", GroupOf(r.name)>> /\ more[2] = <<r.name, r.status>>
         ELSE Len(more) = 1 /\ more[1] = <<r.name, r.status>>
  <2> DEFINE a == <<"group", GroupOf(r.name)>>
             b == <<r.name, r.status>>
  <2>0. a \in Lines /\ b \in Lines /\ more = (IF Opens(rs, i + 1) THEN <<a>> ELSE <<>>) \o <<b>>
    BY <1>2 DEF r
  <2> HIDE DEF a, b
  <2>1. CASE Opens(rs, i + 1)
    <3>0. more = <<a>> \o <<b>>
      BY <2>0, <2>1
    <3>1. more \in Seq(Lines) /\ Len(more) = 2 /\ more[1] = a /\ more[2] = b
      <4>1. <<a>> \o <<b>> \in Seq(Lines) /\ Len(<<a>> \o <<b>>) = 2 /\ (<<a>> \o <<b>>)[1] = a /\ (<<a>> \o <<b>>)[2] = b
        BY <2>0, TwoLines
      <4> QED BY <3>0, <4>1, Zenon
    <3> QED BY <2>1, <3>1 DEF a, b
  <2>2. CASE ~Opens(rs, i + 1)
    <3>1. more = <<b>>
      BY <2>0, <2>2
    <3> QED BY <2>0, <2>2, <3>1 DEF a, b
  <2> QED BY <2>1, <2>2
<1>5. /\ ls \o more \in Seq(Lines) /\ Len(ls \o more) = h + Len(more)
      /\ \A k \in 1..h : (ls \o more)[k] = ls[k]
      /\ \A k \in 1..Len(more) : (ls \o more)[h + k] = more[k]
  BY <1>1, <1>4 DEF h
<1>6. ASSUME NEW k \in 1..LineOf(rs, i + 1) PROVE Covered(rs, (ls \o more)[k], k, i + 1, exact)
  <2>1. CASE k \in 1..h
    <3>1. Covered(rs, ls[k], k, i, exact)
      BY <2>1 DEF Covers, h
    <3>2. \A j \in 1..i : j \in 1..(i + 1)
      OBVIOUS
    <3> QED BY <1>5, <2>1, <3>1, <3>2 DEF Covered
  <2>2. CASE k = LineOf(rs, i + 1)
    <3>1. (ls \o more)[k] = <<r.name, r.status>>
      BY <1>1, <1>3, <1>4, <1>5, <2>2
    <3> DEFINE line == (ls \o more)[k]
    <3>2. line = <<rs[i + 1].name, rs[i + 1].status>> /\ k = LineOf(rs, i + 1) /\ i + 1 \in 1..(i + 1)
      BY <1>1, <2>2, <3>1 DEF r
    <3> HIDE DEF line
    <3>3. line[1] = rs[i + 1].name
      BY <3>2
    <3>4. Covered(rs, line, k, i + 1, exact)
      BY <3>2, <3>3 DEF Covered
    <3> QED BY <3>4 DEF line
  <2>3. CASE k + 1 = LineOf(rs, i + 1) /\ Opens(rs, i + 1)
    <3>1. (ls \o more)[k] = <<"group", GroupOf(r.name)>>
      <4>1. k = h + 1 /\ 1 \in 1..Len(more)
        BY <1>1, <1>3, <1>4, <2>3
      <4> QED BY <1>4, <1>5, <2>3, <4>1
    <3> QED BY <1>1, <2>3, <3>1 DEF Covered, r
  <2>4. k \in 1..h \/ k = LineOf(rs, i + 1) \/ (k + 1 = LineOf(rs, i + 1) /\ Opens(rs, i + 1))
    <3>1. CASE Opens(rs, i + 1)
      <4>1. LineOf(rs, i + 1) = h + 2
        BY <1>3, <3>1
      <4> QED BY <1>1, <3>1, <4>1
    <3>2. CASE ~Opens(rs, i + 1)
      <4>1. LineOf(rs, i + 1) = h + 1
        BY <1>3, <3>2
      <4> QED BY <1>1, <4>1
    <3> QED BY <3>1, <3>2
  <2> QED BY <2>1, <2>2, <2>3, <2>4
<1>7. Len(ls \o more) = LineOf(rs, i + 1)
  BY <1>1, <1>3, <1>4, <1>5
<1> QED BY <1>5, <1>6, <1>7 DEF Covers

LEMMA CoversKept ==
    ASSUME NEW rs, NEW qs, NEW i \in Nat, \A j \in 1..i : qs[j].name = rs[j].name,
           NEW ls, Covers(rs, ls, i, FALSE)
    PROVE  Covers(qs, ls, i, FALSE) /\ LineOf(qs, i) = LineOf(rs, i)
<1>1. \A j \in 1..i : LineOf(qs, j) = LineOf(rs, j)
  <2> SUFFICES ASSUME NEW j \in 1..i PROVE LineOf(qs, j) = LineOf(rs, j)
    OBVIOUS
  <2>1. j \in Nat /\ \A k \in 1..j : qs[k].name = rs[k].name
    OBVIOUS
  <2> QED BY <2>1, LineKept
<1>2. LineOf(qs, i) = LineOf(rs, i) /\ \A j \in 1..i : Opens(qs, j) <=> Opens(rs, j)
  BY LineKept
<1> QED BY <1>1, <1>2 DEF Covers, Covered

\* A frame has one line of a parser and one bar.
LEMMA CompleteIsUnique ==
    ASSUME NEW rs \in Seq(Rows), Distinct(rs), NEW n \in 0..Len(rs), NEW ls \in Seq(Lines), NEW exact,
           Complete(rs, ls, n, exact)
    PROVE  Unique(ls)
<1> DEFINE h == LineOf(rs, n)
<1>0. n \in Nat /\ \A j \in 1..n : j \in 1..Len(rs)
  OBVIOUS
<1>1. h \in Nat /\ Len(ls) = h + 1 /\ ls[h + 1] = <<"bar", "parsers">>
      /\ \A k \in 1..h : Covered(rs, ls[k], k, n, exact)
  <2>1. h \in Nat
    BY <1>0, LineType
  <2>2. Len(ls) = h + 1 /\ ls[Len(ls)] = <<"bar", "parsers">> /\ \A k \in 1..h : Covered(rs, ls[k], k, n, exact)
    BY DEF Complete, Covers
  <2> HIDE DEF h
  <2> QED BY <2>1, <2>2
<1>2. \A j \in 1..n : j \in DOMAIN rs /\ rs[j].name \in Names
  <2>1. \A j \in 1..Len(rs) : j \in DOMAIN rs /\ rs[j] \in Rows
    OBVIOUS
  <2> QED BY <1>0, <2>1 DEF Rows
<1> HIDE DEF h
<1>3. ASSUME NEW k \in 1..h, ls[k][1] \in Names \cup {"bar"}
      PROVE  \E j \in 1..n : k = LineOf(rs, j) /\ ls[k][1] = rs[j].name
  <2>1. ls[k][1] # "group"
    BY <1>3, ProgressAssumption
  <2> QED BY <1>1, <1>3, <2>1 DEF Covered
<1>4. \A k \in 1..h : ls[k][1] \in Names \cup {"bar"} => ls[k][1] \in Names /\ ls[k][1] # "bar"
  BY <1>2, <1>3, ProgressAssumption
<1> SUFFICES ASSUME NEW j \in 1..Len(ls), NEW k \in 1..Len(ls), ls[j][1] = ls[k][1], ls[j][1] \in Names \cup {"bar"}
             PROVE  j = k
  BY DEF Unique
<1>5. (j \in 1..h \/ j = h + 1) /\ (k \in 1..h \/ k = h + 1)
  BY <1>1
<1>6. CASE j \in 1..h /\ k \in 1..h
  <2>1. PICK a \in 1..n : j = LineOf(rs, a) /\ ls[j][1] = rs[a].name
    BY <1>3, <1>6
  <2>2. PICK b \in 1..n : k = LineOf(rs, b) /\ ls[k][1] = rs[b].name
    BY <1>3, <1>6
  <2> QED BY <1>2, <2>1, <2>2 DEF Distinct
<1>7. CASE j = h + 1 \/ k = h + 1
  <2>1. ls[j][1] = "bar"
    BY <1>1, <1>7
  <2> QED BY <1>1, <1>4, <1>5, <2>1
<1> QED BY <1>5, <1>6, <1>7

LEMMA CompleteIsFrame ==
    ASSUME NEW rs \in Seq(Rows), NEW ls \in Seq(Lines), Complete(rs, ls, Len(rs), TRUE)
    PROVE  ls = FrameOf(rs)
<1> DEFINE n == Len(rs)
           h == LineOf(rs, n)
           On(l) == {i \in DOMAIN rs : l = LineOf(rs, i)}
           r(l) == rs[CHOOSE i \in On(l) : TRUE]
<1>1. n \in Nat /\ h \in Nat /\ Len(ls) = h + 1 /\ ls[h + 1] = <<"bar", "parsers">> /\ DOMAIN rs = 1..n
      /\ \A k \in 1..h : Covered(rs, ls[k], k, n, TRUE)
  <2>1. n \in Nat /\ DOMAIN rs = 1..n
    OBVIOUS
  <2>2. h \in Nat
    <3> HIDE DEF n
    <3> QED BY <2>1, LineType
  <2>3. Len(ls) = h + 1 /\ ls[Len(ls)] = <<"bar", "parsers">> /\ \A k \in 1..h : Covered(rs, ls[k], k, n, TRUE)
    BY DEF Complete, Covers
  <2> HIDE DEF h, n
  <2> QED BY <2>1, <2>2, <2>3
<1>2. ASSUME NEW a \in 1..n, NEW b \in 1..n, LineOf(rs, a) = LineOf(rs, b) PROVE a = b
  <2>0. a \in Nat \ {0} /\ b \in Nat \ {0}
    BY <1>1
  <2>1. LineOf(rs, a) \in Nat /\ LineOf(rs, b) \in Nat
    BY <2>0, LineType
  <2>2. ~ (a < b) /\ ~ (b < a)
    BY <1>2, <2>0, <2>1, LinesApart
  <2> QED BY <2>0, <2>2
<1>3. ASSUME NEW a \in 1..n PROVE On(LineOf(rs, a)) = {a} /\ r(LineOf(rs, a)) = rs[a]
  <2>1. On(LineOf(rs, a)) = {a}
    BY <1>1, <1>2
  <2> QED BY <2>1
<1>4. FrameOf(rs) = [k \in 1..(h + 1) |-> IF k = h + 1 THEN <<"bar", "parsers">>
                                          ELSE IF On(k) # {} THEN <<r(k).name, r(k).status>>
                                          ELSE <<"group", GroupOf(r(k + 1).name)>>]
  BY DEF FrameOf
<1> HIDE DEF n, h, On, r
<1>5. ASSUME NEW k \in 1..h
      PROVE  ls[k] = IF On(k) # {} THEN <<r(k).name, r(k).status>> ELSE <<"group", GroupOf(r(k + 1).name)>>
  <2>1. PICK j \in 1..n :
          \/ k = LineOf(rs, j) /\ ls[k] = <<rs[j].name, rs[j].status>>
          \/ k + 1 = LineOf(rs, j) /\ Opens(rs, j) /\ ls[k] = <<"group", GroupOf(rs[j].name)>>
    BY <1>1 DEF Covered
  <2>2. CASE k = LineOf(rs, j) /\ ls[k] = <<rs[j].name, rs[j].status>>
    BY <1>3, <2>2
  <2>3. CASE k + 1 = LineOf(rs, j) /\ Opens(rs, j) /\ ls[k] = <<"group", GroupOf(rs[j].name)>>
    <3>1. On(k) = {}
      <4> SUFFICES ASSUME NEW i \in 1..n, k = LineOf(rs, i) PROVE FALSE
        BY <1>1 DEF On
      <4>0. i \in Nat \ {0} /\ j \in Nat \ {0}
        BY <1>1
      <4>1. i \in Nat \ {0} /\ j \in Nat \ {0} /\ LineOf(rs, i) \in Nat /\ LineOf(rs, j) \in Nat
        BY <4>0, LineType
      <4>2. ~ (i < j)
        BY <2>3, <4>1, LinesApart
      <4>3. ~ (j < i)
        BY <2>3, <4>1, LinesApart
      <4>4. i # j
        BY <2>3, <4>1
      <4> QED BY <4>1, <4>2, <4>3, <4>4
    <3> QED BY <1>3, <2>3, <3>1
  <2> QED BY <2>1, <2>2, <2>3
<1>6. \A k \in 1..(h + 1) : k = h + 1 \/ k \in 1..h
  BY <1>1
<1>7. ls = [k \in 1..(h + 1) |-> ls[k]]
  BY <1>1
<1>8. \A k \in 1..(h + 1) : ls[k] = IF k = h + 1 THEN <<"bar", "parsers">>
                                    ELSE IF On(k) # {} THEN <<r(k).name, r(k).status>>
                                    ELSE <<"group", GroupOf(r(k + 1).name)>>
  BY <1>1, <1>5, <1>6
<1> QED BY <1>4, <1>7, <1>8

-----------------------------------------------------------------------------
(***************************************************************************)
(* The invariant.  A frame is never lower than the one it goes up over, and *)
(* unless the animation was drawing when Stop came, one goroutine draws at a *)
(* time: what is below Above is then the last frame that was written, and   *)
(* lines is its height, or that of the frame about to be.                   *)
(***************************************************************************)
Renderers == {Main, Loop}
Built == {"build", "publish", "write"}
Height == LineOf(rows, Len(rows)) + 1

Places ==
    /\ DOMAIN pc = {Main, Loop, Signal} /\ pc[Signal] = "notify"
    /\ pc[Main] \in {"start", "update", "show", "returned", "snapshot"} \cup Built
    /\ pc[Loop] \in {"none", "select", "ended", "snapshot"} \cup Built
    /\ stopped <=> pc[Main] \notin {"start", "update"}
    /\ pc[Loop] = "none" <=> pc[Main] = "start"
    /\ pc[Loop] = "ended" => stopped
    /\ late \in BOOLEAN /\ (late => stopped)
    /\ ~late /\ Drawing(Loop) => pc[Main] = "update"

Types ==
    /\ rows \in Seq(Rows) /\ Distinct(rows)
    /\ lines \in Nat /\ lines <= Height
    /\ frame \in [Renderers -> [n : Nat, up : Nat, i : Nat, buf : Seq(Lines)]]
    /\ screen \in Seq(Lines) /\ cursor \in 0..Len(screen)
    /\ visible \in BOOLEAN /\ stopped \in BOOLEAN

FrameOK(x) ==
    /\ frame[x].i <= frame[x].n /\ frame[x].n <= Len(rows)
    /\ pc[x] = "build" => /\ Len(frame[x].buf) = LineOf(rows, frame[x].i)
                          /\ Covers(rows, frame[x].buf, frame[x].i, x = Main)
    /\ pc[x] \in {"publish", "write"} => Complete(rows, frame[x].buf, frame[x].n, x = Main)
    /\ pc[x] \in Built => frame[x].up <= LineOf(rows, frame[x].n) + 1
    /\ x = Main /\ pc[x] \in Built => frame[x].n = Len(rows)

Top == Len(Above)
Clean ==
    /\ Top <= Len(screen) /\ \A k \in 1..Top : screen[k] = Above[k]
    /\ \A j, k \in (Top + 1)..Len(screen) :
         screen[j][1] = screen[k][1] /\ screen[j][1] \in Names \cup {"bar"} => j = k
Covering(x) ==
    /\ pc[x] \in {"build", "publish"} => frame[x].up = lines
    /\ pc[x] = "write" => Len(screen) = Top + frame[x].up /\ lines = Len(frame[x].buf)
ScreenOK ==
    /\ Clean
    /\ pc[Main] # "returned" => cursor = Len(screen)
    /\ \A x \in Renderers : Covering(x)
    /\ pc[Main] \notin {"write", "returned"} /\ pc[Loop] # "write" => Len(screen) = Top + lines
    /\ pc[Main] = "show" => screen = Above \o FrameOf(rows)
    /\ pc[Main] = "returned" => screen = Final /\ visible

Frames == Places /\ Types /\ \A x \in Renderers : FrameOK(x)
ProgressInv == Frames /\ (~late => ScreenOK)

LEMMA AboveType == Above \in Seq(Lines) /\ Top \in Nat
<1>1. Above \in Seq(STRING \X STRING) /\ Top \in Nat
  BY ProgressAssumption DEF Top
<1>2. \A k \in 1..Len(Above) : Above[k] \in Lines
  BY DEF Lines
<1> QED BY <1>1, <1>2

LEMMA InvInit == Init => ProgressInv
<1> SUFFICES ASSUME Init PROVE ProgressInv
  OBVIOUS
<1>1. Places
  BY DEF Init, Places, Main, Loop, Signal, Built, Drawing
<1>2. Types
  <2>1. rows = <<>> /\ lines = 0 /\ screen = Above /\ cursor = Len(Above) /\ visible = TRUE /\ stopped = FALSE
        /\ frame = [x \in {Main, Loop} |-> NoFrame]
    BY DEF Init
  <2>2. lines <= Height
    BY <2>1, LineZero DEF Height
  <2>3. NoFrame \in [n : Nat, up : Nat, i : Nat, buf : Seq(Lines)]
    BY DEF NoFrame
  <2>4. rows \in Seq(Rows) /\ Distinct(rows)
    BY <2>1 DEF Distinct
  <2>5. screen \in Seq(Lines) /\ cursor \in 0..Len(screen)
    BY <2>1, AboveType
  <2> QED BY <2>1, <2>2, <2>3, <2>4, <2>5 DEF Types, Renderers
<1>3. \A x \in Renderers : FrameOK(x)
  BY DEF Init, FrameOK, Renderers, NoFrame, Built, Main, Loop, Signal
<1>4. ScreenOK
  <2>1. screen = Above /\ cursor = Len(Above) /\ lines = 0 /\ pc[Main] = "start" /\ pc[Loop] = "none" /\ Len(screen) = Top
    BY DEF Init, Main, Loop, Signal, Top
  <2>2. Clean
    BY <2>1, AboveType DEF Clean
  <2> QED BY <2>1, <2>2, AboveType DEF ScreenOK, Covering, Renderers
<1> QED BY <1>1, <1>2, <1>3, <1>4 DEF ProgressInv, Frames

LEMMA PlacesKeep == Places /\ [Quietly]_vars => Places'
<1> SUFFICES ASSUME Places, [Quietly]_vars PROVE Places'
  OBVIOUS
<1> USE DEF Places, Drawing, Built, Goto, At
<1>1. CASE Hide \/ Stop \/ Show
  <2>1. CASE Hide
    BY <2>1 DEF Hide, Main, Loop, Signal
  <2>2. CASE Stop
    <3>1. /\ pc[Main] = "update" /\ pc' = [pc EXCEPT ![Main] = "snapshot"] /\ stopped' = TRUE
          /\ late' = (pc[Loop] # "select") /\ stopped = FALSE /\ pc[Loop] \notin {"none", "ended"}
      BY <2>2 DEF Stop
    <3>3. ~late' => pc'[Loop] = "select"
      BY <3>1 DEF Main, Loop
    <3>4. late' \in BOOLEAN
      BY <3>1
    <3> QED BY <3>1, <3>3, <3>4 DEF Main, Loop, Signal
  <2>3. CASE Show
    BY <2>3 DEF Show, Main, Loop, Signal
  <2> QED BY <1>1, <2>1, <2>2, <2>3
<1>2. CASE \E name \in Names, done, err \in BOOLEAN : Update(name, done, err)
  BY <1>2 DEF Update
<1>3. CASE Tick \/ LoopEnd
  <2>1. CASE Tick
    <3>1. /\ pc[Loop] = "select" /\ pc' = [pc EXCEPT ![Loop] = "snapshot"] /\ stopped' = stopped
          /\ late' = (late \/ stopped)
      BY <2>1 DEF Tick
    <3>2. late' \in BOOLEAN /\ (late' => stopped) /\ (~late' => ~stopped)
      BY <3>1
    <3> QED BY <3>1, <3>2 DEF Main, Loop, Signal
  <2>2. CASE LoopEnd
    BY <2>2 DEF LoopEnd, Main, Loop, Signal
  <2> QED BY <1>3, <2>1, <2>2
<1>4. ASSUME NEW x \in Renderers, Render(x) PROVE Places'
  <2> USE DEF Renderers, Main, Loop, Signal
  <2>1. CASE Snapshot(x)
    BY <1>4, <2>1 DEF Snapshot
  <2>2. CASE BuildRow(x)
    BY <1>4, <2>2 DEF BuildRow
  <2>3. CASE BuildBar(x)
    BY <1>4, <2>3 DEF BuildBar
  <2>4. CASE Publish(x)
    BY <1>4, <2>4 DEF Publish
  <2>5. CASE WriteFrame(x)
    BY <1>4, <2>5 DEF WriteFrame
  <2> QED BY <1>4, <2>1, <2>2, <2>3, <2>4, <2>5 DEF Render
<1>5. CASE UNCHANGED vars
  BY <1>5 DEF vars
<1> QED BY <1>1, <1>2, <1>3, <1>4, <1>5 DEF Quietly, MainStep, LoopStep, Renderers

LEMMA WriteType ==
    ASSUME Types, NEW up \in Nat, NEW ls \in Seq(Lines), Write(up, ls)
    PROVE  screen' \in Seq(Lines) /\ cursor' \in 0..Len(screen')
<1> DEFINE top == IF cursor < up THEN 0 ELSE cursor - up
           end == top + Len(ls)
           n == IF end > Len(screen) THEN end ELSE Len(screen)
<1>1. /\ screen' = [k \in 1..n |-> IF k > top /\ k <= end THEN ls[k - top] ELSE screen[k]]
      /\ cursor' = end
  BY DEF Write
<1>2. Len(screen) \in Nat /\ Len(ls) \in Nat /\ cursor \in 0..Len(screen)
      /\ (\A k \in 1..Len(ls) : ls[k] \in Lines) /\ (\A k \in 1..Len(screen) : screen[k] \in Lines)
  BY DEF Types
<1>3. top \in Nat /\ top <= Len(screen)
  BY <1>2
<1> HIDE DEF top
<1>4. end \in Nat /\ end = top + Len(ls) /\ n \in Nat /\ end <= n /\ (n > end => n = Len(screen)) /\ Len(screen) <= n /\ (n > Len(screen) => n = end)
  BY <1>2, <1>3
<1> HIDE DEF end, n
<1>5. ASSUME NEW k \in 1..n PROVE (IF k > top /\ k <= end THEN ls[k - top] ELSE screen[k]) \in Lines
  <2>1. CASE k > top /\ k <= end
    <3>1. k - top \in 1..Len(ls)
      BY <1>2, <1>3, <1>4, <2>1
    <3> QED BY <1>2, <2>1, <3>1
  <2>2. CASE ~ (k > top /\ k <= end)
    <3>1. k \in 1..Len(screen)
      BY <1>2, <1>3, <1>4, <2>2
    <3> QED BY <1>2, <2>2, <3>1
  <2> QED BY <2>1, <2>2
<1>6. screen' \in Seq(Lines) /\ Len(screen') = n
  BY <1>1, <1>4, <1>5
<1> QED BY <1>1, <1>4, <1>6

LEMMA NewLineType ==
    ASSUME Types, NewLine
    PROVE  screen' \in Seq(Lines) /\ cursor' \in 0..Len(screen')
<1>1. <<"blank", "">> \in Lines
  BY DEF Lines, Texts
<1>2. screen \in Seq(Lines) /\ cursor \in 0..Len(screen)
  BY DEF Types
<1>3. CASE cursor < Len(screen)
  BY <1>2, <1>3 DEF NewLine
<1>4. CASE ~ (cursor < Len(screen))
  <2> DEFINE l == <<"blank", "">>
  <2>1. screen' = Append(screen, l) /\ cursor' = cursor + 1 /\ l \in Lines
    BY <1>1, <1>4 DEF NewLine
  <2> HIDE DEF l
  <2> QED BY <1>2, <1>4, <2>1
<1> QED BY <1>3, <1>4

\* An event keeps the rows that are there, and registers a parser once.
LEMMA RowsKeep ==
    ASSUME Types, NEW name \in Names, NEW done \in BOOLEAN, NEW err \in BOOLEAN, Update(name, done, err)
    PROVE  /\ rows' \in Seq(Rows) /\ Distinct(rows') /\ Len(rows) <= Len(rows')
           /\ \A j \in 1..Len(rows) : rows'[j].name = rows[j].name
<1>1. rows \in Seq(Rows) /\ Distinct(rows) /\ Len(rows) \in Nat /\ DOMAIN rows = 1..Len(rows)
      /\ \A j \in 1..Len(rows) : rows[j] \in Rows
  BY DEF Types
<1>2. \A s \in Status : After(s, done, err) \in Status
  BY DEF After, Status
<1>3. CASE Row(name) = {}
  <2> DEFINE r == [name |-> name, status |-> After("running", done, err)]
  <2>1. rows' = Append(rows, r) /\ r \in Rows /\ r.name = name
    BY <1>2, <1>3 DEF Update, Rows, Status
  <2>2. \A j \in 1..Len(rows) : rows[j].name # name
    BY <1>1, <1>3 DEF Row
  <2> HIDE DEF r
  <2>3. /\ rows' \in Seq(Rows) /\ Len(rows') = Len(rows) + 1 /\ DOMAIN rows' = 1..(Len(rows) + 1)
        /\ (\A j \in 1..Len(rows) : rows'[j] = rows[j]) /\ rows'[Len(rows) + 1] = r
    BY <1>1, <2>1
  <2>4. \A j \in 1..(Len(rows) + 1) : j \in 1..Len(rows) \/ j = Len(rows) + 1
    BY <1>1
  <2>5. Distinct(rows')
    BY <1>1, <2>1, <2>2, <2>3, <2>4 DEF Distinct
  <2> QED BY <1>1, <2>3, <2>5
<1>4. CASE Row(name) # {}
  <2>1. rows' = [i \in 1..Len(rows) |-> IF i \in Row(name) THEN [rows[i] EXCEPT !.status = After(@, done, err)] ELSE rows[i]]
    BY <1>1, <1>4 DEF Update
  <2>2. \A i \in 1..Len(rows) : rows'[i] \in Rows /\ rows'[i].name = rows[i].name
    BY <1>1, <1>2, <2>1 DEF Rows
  <2>3. rows' \in Seq(Rows) /\ Len(rows') = Len(rows) /\ DOMAIN rows' = 1..Len(rows)
    BY <1>1, <2>1, <2>2
  <2>4. Distinct(rows')
    BY <1>1, <2>2, <2>3 DEF Distinct
  <2> QED BY <1>1, <2>2, <2>3, <2>4
<1> QED BY <1>3, <1>4

LEMMA FrameStays ==
    ASSUME NEW x \in Renderers, FrameOK(x), UNCHANGED rows, frame'[x] = frame[x],
           pc'[x] = pc[x] \/ pc'[x] \notin Built
    PROVE  FrameOK(x)'
BY DEF FrameOK, Built

LEMMA UpdateKeeps ==
    ASSUME Frames, NEW name \in Names, NEW done \in BOOLEAN, NEW err \in BOOLEAN, Update(name, done, err)
    PROVE  Types' /\ \A x \in Renderers : FrameOK(x)'
<1>1. Types /\ pc[Main] = "update" /\ UNCHANGED <<pc, lines, frame, screen, cursor, visible, stopped>>
  BY DEF Frames, Update, At, term
<1>2. /\ rows' \in Seq(Rows) /\ Distinct(rows') /\ Len(rows) <= Len(rows')
      /\ \A j \in 1..Len(rows) : rows'[j].name = rows[j].name
  BY <1>1, RowsKeep
<1>3. Len(rows) \in Nat /\ Len(rows') \in Nat
  BY <1>1, <1>2 DEF Types
<1>4. ASSUME NEW i \in Nat, i <= Len(rows)
      PROVE  LineOf(rows', i) = LineOf(rows, i) /\ \A ls : Covers(rows, ls, i, FALSE) => Covers(rows', ls, i, FALSE)
  <2>1. \A j \in 1..i : rows'[j].name = rows[j].name
    BY <1>2, <1>3, <1>4
  <2> QED BY <2>1, CoversKept, LineKept
<1>5. lines' <= Height'
  <2>0. Len(rows) <= Len(rows)
    BY <1>3
  <2>1. LineOf(rows', Len(rows)) = LineOf(rows, Len(rows))
    BY <1>3, <1>4, <2>0
  <2>2. LineOf(rows', Len(rows)) <= LineOf(rows', Len(rows'))
    BY <1>2, <1>3, LineMono
  <2>3. LineOf(rows', Len(rows)) \in Nat /\ LineOf(rows', Len(rows')) \in Nat
    BY <1>3, LineType
  <2> QED BY <1>1, <2>1, <2>2, <2>3 DEF Types, Height
<1>6. Types'
  BY <1>1, <1>2, <1>5 DEF Types
<1>7. \A x \in Renderers : FrameOK(x)'
  <2> SUFFICES ASSUME NEW x \in Renderers PROVE FrameOK(x)'
    OBVIOUS
  <2>1. /\ FrameOK(x) /\ frame[x].i \in Nat /\ frame[x].n \in Nat /\ frame'[x] = frame[x] /\ pc'[x] = pc[x]
        /\ frame[x].i <= frame[x].n /\ frame[x].n <= Len(rows)
    BY <1>1 DEF Frames, Types, FrameOK
  <2>2. frame[x].n <= Len(rows') /\ frame[x].i <= Len(rows)
    BY <1>2, <1>3, <2>1
  <2>3. CASE x = Main
    BY <1>1, <2>1, <2>2, <2>3 DEF FrameOK, Built
  <2>4. CASE x = Loop
    <3>1. x # Main
      BY <2>4 DEF Main, Loop
    <3>2. /\ LineOf(rows', frame[x].i) = LineOf(rows, frame[x].i) /\ LineOf(rows', frame[x].n) = LineOf(rows, frame[x].n)
          /\ \A ls : Covers(rows, ls, frame[x].i, FALSE) => Covers(rows', ls, frame[x].i, FALSE)
          /\ \A ls : Covers(rows, ls, frame[x].n, FALSE) => Covers(rows', ls, frame[x].n, FALSE)
      BY <1>4, <2>1, <2>2
    <3>3. (x = Main) = FALSE
      BY <3>1
    <3> QED BY <2>1, <2>2, <3>1, <3>2, <3>3 DEF FrameOK, Complete
  <2> QED BY <2>3, <2>4 DEF Renderers
<1> QED BY <1>6, <1>7

LEMMA FrameEdit ==
    ASSUME NEW f \in [n : Nat, up : Nat, i : Nat, buf : Seq(Lines)], NEW a, NEW b
    PROVE  [f EXCEPT !.i = a, !.buf = b] = [n |-> f.n, up |-> f.up, i |-> a, buf |-> b]
<1>1. [f EXCEPT !.i = a, !.buf = b] = [[f EXCEPT !.i = a] EXCEPT !.buf = b]
  OBVIOUS
<1>2. [f EXCEPT !.i = a] = [n |-> f.n, up |-> f.up, i |-> a, buf |-> f.buf]
  OBVIOUS
<1>3. [[n |-> f.n, up |-> f.up, i |-> a, buf |-> f.buf] EXCEPT !.buf = b]
        = [n |-> f.n, up |-> f.up, i |-> a, buf |-> b]
  OBVIOUS
<1> QED BY <1>1, <1>2, <1>3

\* The steps of a render, for the one that draws.
LEMMA RenderKeeps ==
    ASSUME Frames, NEW x \in Renderers, Render(x)
    PROVE  Types' /\ \A y \in Renderers : FrameOK(y)'
<1>1. /\ Types /\ FrameOK(x) /\ rows \in Seq(Rows) /\ Len(rows) \in Nat /\ UNCHANGED rows
      /\ frame \in [Renderers -> [n : Nat, up : Nat, i : Nat, buf : Seq(Lines)]]
      /\ DOMAIN pc = Renderers \cup {Signal}
  <2>1. Types /\ FrameOK(x) /\ DOMAIN pc = Renderers \cup {Signal}
    BY DEF Frames, Places, Renderers
  <2>2. UNCHANGED rows
    BY DEF Render, Snapshot, BuildRow, BuildBar, Publish, WriteFrame
  <2>3. rows \in Seq(Rows) /\ frame \in [Renderers -> [n : Nat, up : Nat, i : Nat, buf : Seq(Lines)]]
    BY <2>1 DEF Types
  <2>4. Len(rows) \in Nat
    BY <2>3
  <2> QED BY <2>1, <2>2, <2>3, <2>4
<1> DEFINE f == frame[x]
<1>2. /\ f \in [n : Nat, up : Nat, i : Nat, buf : Seq(Lines)]
      /\ f.n \in Nat /\ f.up \in Nat /\ f.i \in Nat /\ f.buf \in Seq(Lines) /\ f.i <= f.n /\ f.n <= Len(rows)
  BY <1>1 DEF FrameOK
<1>3. ASSUME NEW y \in Renderers, y # x, frame'[y] = frame[y], pc'[y] = pc[y] PROVE FrameOK(y)'
  BY <1>1, <1>3, FrameStays DEF Frames
<1>4. CASE Snapshot(x)
  <2>1. /\ pc' = [pc EXCEPT ![x] = "build"] /\ pc[x] = "snapshot"
        /\ frame' = [frame EXCEPT ![x] = [n |-> Len(rows), up |-> lines, i |-> 0, buf |-> <<>>]]
        /\ UNCHANGED <<rows, lines, stopped, screen, cursor, visible>>
    BY <1>4 DEF Snapshot, At, Goto, term
  <2>2. Types'
    BY <1>1, <2>1 DEF Types, Height
  <2>3. FrameOK(x)'
    <3>1. frame'[x] = [n |-> Len(rows), up |-> lines, i |-> 0, buf |-> <<>>] /\ pc'[x] = "build"
      BY <1>1, <2>1
    <3>2. LineOf(rows, 0) = 0 /\ \A exact : Covers(rows, <<>>, 0, exact)
      BY LineZero DEF Covers
    <3>3. lines <= LineOf(rows, Len(rows)) + 1
      BY <1>1 DEF Types, Height
    <3> QED BY <1>1, <3>1, <3>2, <3>3 DEF FrameOK, Built
  <2> QED BY <1>1, <1>3, <2>1, <2>2, <2>3
<1>5. CASE BuildRow(x)
  <2> DEFINE more == RowLines(f, f.i + 1)
             g == [f EXCEPT !.i = f.i + 1, !.buf = f.buf \o more]
  <2>1. /\ pc[x] = "build" /\ f.i < f.n
        /\ UNCHANGED <<pc, rows, lines, stopped, screen, cursor, visible>>
    BY <1>5 DEF BuildRow, At, term
  <2>2. frame' = [frame EXCEPT ![x] = g]
    BY <1>1, <1>2, <1>5 DEF BuildRow
  <2>3. /\ Len(f.buf) = LineOf(rows, f.i) /\ Covers(rows, f.buf, f.i, x = Main)
        /\ f.up <= LineOf(rows, f.n) + 1 /\ (x = Main => f.n = Len(rows))
    BY <1>1, <2>1 DEF FrameOK, Built
  <2>4. more = (IF Opens(rows, f.i + 1) THEN <<<<"group", GroupOf(rows[f.i + 1].name)>>>> ELSE <<>>)
               \o <<<<rows[f.i + 1].name, rows[f.i + 1].status>>>>
    BY DEF RowLines
  <2>5. f.i + 1 <= Len(rows) /\ f.i + 1 <= f.n /\ f.i + 1 \in Nat /\ (x = Main) \in BOOLEAN
    BY <1>1, <1>2, <2>1
  <2>6. /\ g.i = f.i + 1 /\ g.n = f.n /\ g.up = f.up /\ g.buf = f.buf \o more
        /\ g = [n |-> f.n, up |-> f.up, i |-> f.i + 1, buf |-> f.buf \o more]
    <3> HIDE DEF f, more
    <3>1. \A a, b : [f EXCEPT !.i = a, !.buf = b] = [n |-> f.n, up |-> f.up, i |-> a, buf |-> b]
      BY <1>2, FrameEdit
    <3>2. g = [n |-> f.n, up |-> f.up, i |-> f.i + 1, buf |-> f.buf \o more]
      BY <3>1
    <3> QED BY <3>2
  <2> HIDE DEF f, more, g
  <2>7. /\ f.buf \o more \in Seq(Lines) /\ Len(f.buf \o more) = LineOf(rows, f.i + 1)
        /\ Covers(rows, f.buf \o more, f.i + 1, x = Main)
    <3> DEFINE ls == f.buf
               i == f.i
               exact == (x = Main)
    <3>1. /\ rows \in Seq(Rows) /\ i \in Nat /\ i + 1 <= Len(rows) /\ ls \in Seq(Lines)
          /\ Len(ls) = LineOf(rows, i) /\ exact \in BOOLEAN /\ Covers(rows, ls, i, exact)
          /\ more = (IF Opens(rows, i + 1) THEN <<<<"group", GroupOf(rows[i + 1].name)>>>> ELSE <<>>)
                    \o <<<<rows[i + 1].name, rows[i + 1].status>>>>
      BY <1>1, <1>2, <2>3, <2>4, <2>5
    <3> HIDE DEF ls, i, exact
    <3>2. ls \o more \in Seq(Lines) /\ Len(ls \o more) = LineOf(rows, i + 1) /\ Covers(rows, ls \o more, i + 1, exact)
      BY <3>1, CoversNext
    <3> QED BY <3>2 DEF ls, i, exact
  <2>8. g \in [n : Nat, up : Nat, i : Nat, buf : Seq(Lines)]
    BY <1>2, <2>5, <2>6, <2>7
  <2>9. Types'
    BY <1>1, <2>1, <2>2, <2>8 DEF Types, Height
  <2>10. frame'[x] = g /\ pc'[x] = "build"
    BY <1>1, <2>1, <2>2
  <2>11. FrameOK(x)'
    BY <1>1, <1>2, <2>1, <2>3, <2>5, <2>6, <2>7, <2>10 DEF FrameOK
  <2> QED BY <1>1, <1>3, <2>1, <2>2, <2>9, <2>11
<1>6. CASE BuildBar(x)
  <2> DEFINE bar == <<"bar", "parsers">>
             g == [f EXCEPT !.buf = Append(f.buf, bar)]
  <2>1. /\ pc[x] = "build" /\ f.i = f.n /\ pc' = [pc EXCEPT ![x] = "publish"]
        /\ UNCHANGED <<rows, lines, stopped, screen, cursor, visible>>
    BY <1>6 DEF BuildBar, At, Goto, term
  <2>2. frame' = [frame EXCEPT ![x] = g]
    BY <1>1, <1>2, <1>6 DEF BuildBar
  <2>3. /\ Len(f.buf) = LineOf(rows, f.n) /\ Covers(rows, f.buf, f.n, x = Main)
        /\ f.up <= LineOf(rows, f.n) + 1 /\ (x = Main => f.n = Len(rows))
    BY <1>1, <2>1 DEF FrameOK, Built
  <2>4. bar \in Lines
    BY DEF Lines, Texts
  <2>5. /\ g.i = f.i /\ g.n = f.n /\ g.up = f.up /\ g.buf = Append(f.buf, bar)
        /\ g = [n |-> f.n, up |-> f.up, i |-> f.i, buf |-> Append(f.buf, bar)]
    <3> HIDE DEF f, bar
    <3>1. f = [n |-> f.n, up |-> f.up, i |-> f.i, buf |-> f.buf]
      BY <1>2
    <3>2. g = [n |-> f.n, up |-> f.up, i |-> f.i, buf |-> Append(f.buf, bar)]
      BY <3>1
    <3> QED BY <3>2
  <2> HIDE DEF f, g, bar
  <2>6. /\ Append(f.buf, bar) \in Seq(Lines) /\ Len(Append(f.buf, bar)) = Len(f.buf) + 1
        /\ \A k \in 1..Len(f.buf) : Append(f.buf, bar)[k] = f.buf[k]
        /\ Append(f.buf, bar)[Len(f.buf) + 1] = bar
    BY <1>2, <2>4
  <2>7. Complete(rows, Append(f.buf, bar), f.n, x = Main)
    BY <2>3, <2>6 DEF Complete, Covers, bar
  <2>8. g \in [n : Nat, up : Nat, i : Nat, buf : Seq(Lines)]
    BY <1>2, <2>5, <2>6
  <2>9. Types'
    BY <1>1, <2>1, <2>2, <2>8 DEF Types, Height
  <2>10. frame'[x] = g /\ pc'[x] = "publish"
    BY <1>1, <2>1, <2>2
  <2>11. FrameOK(x)'
    BY <1>1, <1>2, <2>1, <2>3, <2>5, <2>7, <2>10 DEF FrameOK
  <2> QED BY <1>1, <1>3, <2>1, <2>2, <2>9, <2>11
<1>7. CASE Publish(x)
  <2>1. /\ pc[x] = "publish" /\ pc' = [pc EXCEPT ![x] = "write"] /\ lines' = Len(f.buf)
        /\ UNCHANGED <<rows, frame, stopped, screen, cursor, visible>>
    BY <1>7 DEF Publish, At, Goto, term
  <2>2. Complete(rows, f.buf, f.n, x = Main) /\ f.up <= LineOf(rows, f.n) + 1 /\ (x = Main => f.n = Len(rows))
    BY <1>1, <2>1 DEF FrameOK, Built
  <2> HIDE DEF f
  <2>3. lines' \in Nat /\ lines' <= Height
    <3>1. LineOf(rows, f.n) \in Nat /\ LineOf(rows, Len(rows)) \in Nat /\ LineOf(rows, f.n) <= LineOf(rows, Len(rows))
      BY <1>1, <1>2, LineType, LineMono
    <3>2. lines' = LineOf(rows, f.n) + 1
      BY <2>1, <2>2 DEF Complete
    <3> QED BY <3>1, <3>2 DEF Height
  <2>4. Types'
    BY <1>1, <2>1, <2>3 DEF Types, Height
  <2>5. frame'[x] = f /\ pc'[x] = "write"
    BY <1>1, <2>1 DEF f
  <2>6. FrameOK(x)'
    BY <1>1, <1>2, <2>1, <2>2, <2>5 DEF FrameOK
  <2> QED BY <1>1, <1>3, <2>1, <2>4, <2>6
<1>8. CASE WriteFrame(x)
  <2>1. /\ Write(f.up, f.buf) /\ frame' = [frame EXCEPT ![x] = NoFrame]
        /\ \E l \in {"select", "show"} : pc' = [pc EXCEPT ![x] = l]
        /\ UNCHANGED <<rows, lines, stopped, visible>>
    BY <1>8 DEF WriteFrame, Goto
  <2>2. screen' \in Seq(Lines) /\ cursor' \in 0..Len(screen')
    BY <1>1, <1>2, <2>1, WriteType
  <2>3. NoFrame \in [n : Nat, up : Nat, i : Nat, buf : Seq(Lines)] /\ NoFrame.n = 0 /\ NoFrame.i = 0
    BY DEF NoFrame
  <2>4. Types'
    BY <1>1, <2>1, <2>2, <2>3 DEF Types, Height
  <2>5. frame'[x] = NoFrame /\ pc'[x] \in {"select", "show"}
    BY <1>1, <2>1
  <2>6. FrameOK(x)'
    BY <1>1, <2>1, <2>3, <2>5 DEF FrameOK, Built
  <2> QED BY <1>1, <1>3, <2>1, <2>4, <2>6
<1> QED BY <1>4, <1>5, <1>6, <1>7, <1>8 DEF Render

LEMMA FramesKeep == Frames /\ [Quietly]_vars => Frames'
<1> SUFFICES ASSUME Frames, [Quietly]_vars PROVE Frames'
  OBVIOUS
<1>1. Places'
  BY PlacesKeep DEF Frames
<1>2. CASE Hide \/ Stop \/ Show \/ Tick \/ LoopEnd \/ UNCHANGED vars
  <2>1. /\ UNCHANGED <<rows, lines, frame>> /\ visible' \in BOOLEAN /\ stopped' \in BOOLEAN
        /\ UNCHANGED <<screen, cursor>> \/ NewLine
        /\ \A x \in Renderers : pc'[x] = pc[x] \/ pc'[x] \notin Built
    BY <1>2 DEF Frames, Types, Places, Hide, Stop, Show, Tick, LoopEnd, vars, term, At, Goto, Renderers, Main, Loop, Signal, Built
  <2>2. Types'
    BY <2>1, NewLineType DEF Frames, Types, Height
  <2>3. \A x \in Renderers : FrameOK(x)'
    BY <2>1, FrameStays DEF Frames
  <2> QED BY <1>1, <2>2, <2>3 DEF Frames
<1>3. CASE \E name \in Names, done, err \in BOOLEAN : Update(name, done, err)
  BY <1>1, <1>3, UpdateKeeps DEF Frames
<1>4. CASE \E x \in Renderers : Render(x)
  BY <1>1, <1>4, RenderKeeps DEF Frames
<1> QED BY <1>2, <1>3, <1>4 DEF Quietly, MainStep, LoopStep, Renderers

-----------------------------------------------------------------------------
(* The terminal. *)

\* A frame written from the end of a clean terminal stands right below Above.
LEMMA WriteCovers ==
    ASSUME Types, Clean, cursor = Len(screen), NEW up \in Nat, Len(screen) = Top + up,
           NEW ls \in Seq(Lines), up <= Len(ls), Write(up, ls)
    PROVE  screen' = Above \o ls /\ Len(screen') = Top + Len(ls) /\ cursor' = Len(screen')
<1> DEFINE end == Top + Len(ls)
<1>1. /\ Top \in Nat /\ Len(ls) \in Nat /\ Len(screen) \in Nat /\ cursor - up = Top /\ ~ (cursor < up)
      /\ end \in Nat /\ Len(screen) <= end /\ Above \in Seq(Lines) /\ Len(Above) = Top
      /\ \A k \in 1..Top : screen[k] = Above[k]
  <2>1. Top \in Nat /\ Above \in Seq(Lines) /\ Len(Above) = Top /\ Len(ls) \in Nat
    BY AboveType DEF Top
  <2>2. \A k \in 1..Top : screen[k] = Above[k]
    BY DEF Clean
  <2> QED BY <2>1, <2>2
<1>2. screen' = [k \in 1..end |-> IF k > Top /\ k <= end THEN ls[k - Top] ELSE screen[k]] /\ cursor' = end
  <2>1. /\ screen' = [k \in 1..(IF Top + Len(ls) > Len(screen) THEN Top + Len(ls) ELSE Len(screen)) |->
                        IF k > Top /\ k <= Top + Len(ls) THEN ls[k - Top] ELSE screen[k]]
        /\ cursor' = Top + Len(ls)
    BY <1>1 DEF Write
  <2>2. (IF Top + Len(ls) > Len(screen) THEN Top + Len(ls) ELSE Len(screen)) = end
    BY <1>1
  <2> QED BY <2>1, <2>2
<1> HIDE DEF end
<1>3. /\ Above \o ls \in Seq(Lines) /\ Len(Above \o ls) = end
      /\ \A k \in 1..end : (Above \o ls)[k] = IF k <= Top THEN Above[k] ELSE ls[k - Top]
  <2>1. /\ Above \o ls \in Seq(Lines) /\ Len(Above \o ls) = Len(Above) + Len(ls)
        /\ \A k \in 1..(Len(Above) + Len(ls)) :
             (Above \o ls)[k] = IF k <= Len(Above) THEN Above[k] ELSE ls[k - Len(Above)]
    BY <1>1, ConcatProperties
  <2>2. Len(Above) = Top /\ end = Len(Above) + Len(ls)
    BY <1>1 DEF end
  <2> QED BY <2>1, <2>2
<1>4. Above \o ls = [k \in 1..end |-> (Above \o ls)[k]]
  <2>1. \A s \in Seq(Lines) : s = [k \in 1..Len(s) |-> s[k]]
    OBVIOUS
  <2> QED BY <1>3, <2>1
<1>5. \A k \in 1..end : (Above \o ls)[k] = IF k > Top /\ k <= end THEN ls[k - Top] ELSE screen[k]
  BY <1>1, <1>3
<1>6. screen' = Above \o ls
  BY <1>2, <1>4, <1>5
<1> QED BY <1>2, <1>3, <1>6 DEF end

LEMMA CleanFrame ==
    ASSUME NEW ls \in Seq(Lines), Unique(ls), screen' = Above \o ls
    PROVE  Clean'
<1>1. Top \in Nat /\ Above \in Seq(Lines) /\ Len(Above) = Top /\ Len(ls) \in Nat
  BY AboveType DEF Top
<1>2. /\ Len(Above \o ls) = Top + Len(ls)
      /\ \A k \in 1..(Top + Len(ls)) : (Above \o ls)[k] = IF k <= Top THEN Above[k] ELSE ls[k - Top]
  BY <1>1, ConcatProperties
<1>3. ASSUME NEW j \in (Top + 1)..Len(screen'), NEW k \in (Top + 1)..Len(screen'),
             screen'[j][1] = screen'[k][1], screen'[j][1] \in Names \cup {"bar"}
      PROVE  j = k
  <2>1. j - Top \in 1..Len(ls) /\ k - Top \in 1..Len(ls) /\ ls[j - Top] = screen'[j] /\ ls[k - Top] = screen'[k]
    BY <1>1, <1>2
  <2>2. j - Top = k - Top
    BY <1>3, <2>1 DEF Unique
  <2> QED BY <1>1, <2>2
<1>4. Top <= Len(screen') /\ \A k \in 1..Top : screen'[k] = Above[k]
  BY <1>1, <1>2
<1>5. Top' = Top
  BY DEF Top
<1> QED BY <1>3, <1>4, <1>5 DEF Clean

\* The newline after the last frame: the blank line is no parser's.
LEMMA CleanBlank ==
    ASSUME Types, Clean, cursor = Len(screen), NewLine
    PROVE  Clean' /\ screen' = screen \o <<<<"blank", "">>>> /\ cursor' = Len(screen')
<1> DEFINE b == <<"blank", "">>
<1>1. screen \in Seq(Lines) /\ Len(screen) \in Nat /\ Top \in Nat /\ b \in Lines /\ b[1] \notin Names \cup {"bar"}
  <2>1. screen \in Seq(Lines) /\ Top \in Nat
    BY AboveType DEF Types
  <2>2. b \in Lines
    BY DEF Lines, Texts
  <2>3. b[1] = "blank" /\ "blank" \notin Names \cup {"bar"}
    BY ProgressAssumption
  <2> HIDE DEF b
  <2> QED BY <2>1, <2>2, <2>3
<1>2. screen' = Append(screen, b) /\ cursor' = Len(screen) + 1
  <2>1. Len(screen) \in Nat
    BY <1>1
  <2>2. ~ (cursor < Len(screen))
    BY <2>1
  <2> QED BY <2>2 DEF NewLine
<1> HIDE DEF b
<1>3. /\ Append(screen, b) = screen \o <<b>> /\ Len(screen') = Len(screen) + 1
      /\ \A k \in 1..Len(screen) : screen'[k] = screen[k]
      /\ screen'[Len(screen) + 1] = b
  BY <1>1, <1>2
<1>4. Top <= Len(screen) /\ \A k \in 1..Top : screen[k] = Above[k] /\ k \in 1..Len(screen)
  BY <1>1 DEF Clean
<1>5. ASSUME NEW j \in (Top + 1)..Len(screen'), NEW k \in (Top + 1)..Len(screen'),
             screen'[j][1] = screen'[k][1], screen'[j][1] \in Names \cup {"bar"}
      PROVE  j = k
  <2>1. j # Len(screen) + 1 /\ k # Len(screen) + 1
    BY <1>1, <1>3, <1>5
  <2>2. j \in (Top + 1)..Len(screen) /\ k \in (Top + 1)..Len(screen) /\ screen'[j] = screen[j] /\ screen'[k] = screen[k]
    BY <1>1, <1>3, <2>1
  <2> QED BY <1>5, <2>2 DEF Clean
<1>6. Clean'
  <2>1. Top <= Len(screen') /\ \A k \in 1..Top : screen'[k] = Above[k]
    BY <1>1, <1>3, <1>4
  <2> QED BY <1>5, <2>1 DEF Clean, Top
<1> QED BY <1>2, <1>3, <1>6 DEF b

LEMMA ScreenStays ==
    ASSUME ScreenOK, UNCHANGED <<lines, frame, screen, cursor>>,
           \A x \in Renderers : \/ pc'[x] = pc[x]
                                \/ pc'[x] \notin Built \cup {"show", "returned"} /\ pc[x] \notin {"write", "returned"},
           UNCHANGED <<rows, visible>> \/ pc'[Main] \notin {"show", "returned"}
    PROVE  ScreenOK'
<1>1. Clean'
  BY DEF ScreenOK, Clean, Top
<1>2. \A x \in Renderers : Covering(x)'
  BY DEF ScreenOK, Covering, Built, Top
<1>3. /\ pc'[Main] # "returned" => pc[Main] # "returned"
      /\ pc'[Main] \notin {"write", "returned"} => pc[Main] \notin {"write", "returned"}
      /\ pc'[Loop] # "write" => pc[Loop] # "write"
      /\ pc'[Main] \in {"show", "returned"} => pc[Main] = pc'[Main] /\ UNCHANGED <<rows, visible>>
  BY DEF Renderers
<1>4. pc'[Main] # "returned" => cursor' = Len(screen')
  BY <1>3 DEF ScreenOK
<1>5. pc'[Main] \notin {"write", "returned"} /\ pc'[Loop] # "write" => Len(screen') = Top' + lines'
  BY <1>3 DEF ScreenOK, Top
<1>6. pc'[Main] = "show" => screen' = Above \o FrameOf(rows')
  BY <1>3 DEF ScreenOK
<1>7. pc'[Main] = "returned" => screen' = Final' /\ visible'
  <2> SUFFICES ASSUME pc'[Main] = "returned" PROVE screen' = Final' /\ visible'
    OBVIOUS
  <2>1. pc[Main] = "returned" /\ rows' = rows /\ visible' = visible /\ screen' = screen
    BY <1>3
  <2>2. screen = Final /\ visible
    BY <2>1 DEF ScreenOK
  <2> QED BY <2>1, <2>2 DEF Final
<1> QED BY <1>1, <1>2, <1>4, <1>5, <1>6, <1>7 DEF ScreenOK

\* Of two renderers one draws: what it does to the terminal and to lines is all there is.
LEMMA ScreenDrawn ==
    ASSUME Frames, ~late, ScreenOK, NEW x \in Renderers, Render(x)
    PROVE  ScreenOK'
<1>1. Places /\ Types /\ FrameOK(x) /\ UNCHANGED <<rows, visible>> /\ DOMAIN pc = Renderers \cup {Signal} /\ DOMAIN frame = Renderers
  <2>1. Places /\ Types /\ FrameOK(x)
    BY DEF Frames
  <2>2. UNCHANGED <<rows, visible>>
    BY DEF Render, Snapshot, BuildRow, BuildBar, Publish, WriteFrame, term
  <2> QED BY <2>1, <2>2 DEF Places, Types, Renderers
<1>2. /\ Drawing(x) /\ Main \in Renderers /\ Loop \in Renderers
      /\ \A y \in Renderers \ {x} : ~Drawing(y)
      /\ pc[Main] \notin {"show", "returned"}
  <2>1. Drawing(x)
    BY DEF Render, Snapshot, BuildRow, BuildBar, Publish, WriteFrame, At, Drawing
  <2> QED BY <1>1, <2>1 DEF Places, Renderers, Drawing, Built
<1>3. /\ Clean /\ cursor = Len(screen) /\ Covering(x) /\ Len(screen) \in Nat /\ lines \in Nat
      /\ (pc[x] # "write" => Len(screen) = Top + lines)
  <2>1. Clean /\ cursor = Len(screen) /\ Covering(x)
    BY <1>2 DEF ScreenOK
  <2>2. pc[x] # "write" => pc[Main] \notin {"write", "returned"} /\ pc[Loop] # "write"
    BY <1>2 DEF Renderers, Drawing
  <2>3. Len(screen) \in Nat /\ lines \in Nat
    BY <1>1 DEF Types
  <2> QED BY <2>1, <2>2, <2>3 DEF ScreenOK
<1>4. ASSUME \A y \in Renderers \ {x} : pc'[y] = pc[y]
      PROVE  \A y \in Renderers \ {x} : Covering(y)'
  BY <1>2, <1>4 DEF Covering, Drawing
<1>5. CASE Snapshot(x) \/ BuildRow(x) \/ BuildBar(x)
  <2>1. /\ UNCHANGED <<screen, cursor, lines>> /\ pc[x] \in {"snapshot", "build"} /\ pc'[x] \in {"build", "publish"}
        /\ \A y \in Renderers \ {x} : pc'[y] = pc[y]
    BY <1>1, <1>5 DEF Snapshot, BuildRow, BuildBar, At, Goto, term
  <2>2. frame'[x].up = lines
    <3>1. CASE Snapshot(x)
      BY <1>1, <3>1 DEF Snapshot
    <3>2. CASE BuildRow(x) \/ BuildBar(x)
      <4>1. frame[x].up = lines
        BY <1>3, <3>2 DEF Covering, BuildRow, BuildBar, At
      <4>2. frame[x] \in [n : Nat, up : Nat, i : Nat, buf : Seq(Lines)]
        BY <1>1 DEF Types
      <4>3. frame'[x].up = frame[x].up
        BY <1>1, <3>2, <4>2 DEF BuildRow, BuildBar
      <4> QED BY <4>1, <4>3
    <3> QED BY <1>5, <3>1, <3>2
  <2>3. Covering(x)'
    BY <2>1, <2>2 DEF Covering
  <2>4. Clean'
    BY <1>3, <2>1 DEF Clean, Top
  <2>5. Len(screen') = Top' + lines' /\ cursor' = Len(screen') /\ pc'[Main] \notin {"show", "returned"}
    BY <1>2, <1>3, <2>1 DEF Top, Renderers
  <2> QED BY <1>4, <2>1, <2>3, <2>4, <2>5 DEF ScreenOK
<1>6. CASE Publish(x)
  <2>1. /\ UNCHANGED <<screen, cursor, frame>> /\ pc[x] = "publish" /\ pc'[x] = "write" /\ lines' = Len(frame[x].buf)
        /\ \A y \in Renderers \ {x} : pc'[y] = pc[y]
    BY <1>1, <1>6 DEF Publish, At, Goto, term
  <2>2. Len(screen) = Top + frame[x].up
    BY <1>3, <2>1 DEF Covering
  <2>3. Covering(x)'
    BY <2>1, <2>2 DEF Covering, Top
  <2>4. Clean'
    BY <1>3, <2>1 DEF Clean, Top
  <2>5. (pc'[Main] = "write" \/ pc'[Loop] = "write") /\ cursor' = Len(screen') /\ pc'[Main] \notin {"show", "returned"}
    BY <1>2, <1>3, <2>1 DEF Renderers
  <2> QED BY <1>4, <2>1, <2>3, <2>4, <2>5 DEF ScreenOK
<1>7. CASE WriteFrame(x)
  <2> DEFINE up == frame[x].up
             ls == frame[x].buf
             n == frame[x].n
  <2>1. /\ UNCHANGED lines /\ pc[x] = "write" /\ Write(up, ls) /\ pc'[x] = (IF x = Loop THEN "select" ELSE "show")
        /\ \A y \in Renderers \ {x} : pc'[y] = pc[y]
    BY <1>1, <1>7 DEF WriteFrame, At, Goto
  <2>2. up \in Nat /\ ls \in Seq(Lines) /\ n \in Nat /\ n <= Len(rows) /\ rows \in Seq(Rows) /\ Distinct(rows)
    BY <1>1 DEF Types, FrameOK
  <2>3. /\ Complete(rows, ls, n, x = Main) /\ up <= LineOf(rows, n) + 1 /\ (x = Main => n = Len(rows))
        /\ Len(screen) = Top + up /\ lines = Len(ls)
    BY <1>1, <1>3, <2>1 DEF FrameOK, Built, Covering
  <2> HIDE DEF up, ls, n
  <2>4. up <= Len(ls) /\ n \in 0..Len(rows)
    BY <2>2, <2>3 DEF Complete
  <2>5. screen' = Above \o ls /\ Len(screen') = Top + Len(ls) /\ cursor' = Len(screen')
    BY <1>1, <1>3, <2>1, <2>2, <2>3, <2>4, WriteCovers
  <2>6. Unique(ls)
    BY <2>2, <2>3, <2>4, CompleteIsUnique
  <2>7. Clean'
    BY <2>2, <2>5, <2>6, CleanFrame
  <2>8. x = Main => screen' = Above \o FrameOf(rows')
    <3>1. x = Main => Complete(rows, ls, Len(rows), TRUE)
      BY <2>3
    <3>2. x = Main => ls = FrameOf(rows)
      BY <2>2, <3>1, CompleteIsFrame
    <3> QED BY <1>1, <2>5, <3>2
  <2>9. /\ Covering(x)' /\ pc'[Main] \notin {"write", "returned"} /\ pc'[Loop] # "write" /\ pc'[Main] # "returned"
        /\ (pc'[Main] = "show" => x = Main) /\ Len(screen') = Top' + lines'
    <3>1. Covering(x)'
      BY <2>1 DEF Covering
    <3>2. Len(screen') = Top' + lines'
      BY <2>1, <2>3, <2>5 DEF Top
    <3> QED BY <1>2, <2>1, <3>1, <3>2 DEF Renderers, Drawing, Main, Loop
  <2> QED BY <1>4, <2>1, <2>5, <2>7, <2>8, <2>9 DEF ScreenOK
<1> QED BY <1>5, <1>6, <1>7 DEF Render

LEMMA ScreenShown ==
    ASSUME Frames, ~late', ScreenOK, Places', Show
    PROVE  ScreenOK'
<1>1. /\ pc[Main] = "show" /\ pc' = [pc EXCEPT ![Main] = "returned"] /\ NewLine /\ visible' = TRUE
      /\ UNCHANGED <<rows, lines, frame, late>> /\ Types /\ DOMAIN pc = {Main, Loop, Signal}
  BY DEF Show, At, Goto, Frames, Places
<1>2. Clean /\ cursor = Len(screen) /\ screen = Above \o FrameOf(rows)
  BY <1>1 DEF ScreenOK
<1>3. Clean' /\ screen' = screen \o <<<<"blank", "">>>> /\ cursor' = Len(screen')
  BY <1>1, <1>2, CleanBlank
<1>4. pc'[Main] = "returned" /\ ~Drawing(Loop)'
  BY <1>1 DEF Places, Drawing, Main, Loop
<1>5. \A x \in Renderers : Covering(x)'
  BY <1>4 DEF Covering, Renderers, Drawing
<1>6. screen' = Final'
  BY <1>1, <1>2, <1>3 DEF Final
<1> QED BY <1>1, <1>3, <1>4, <1>5, <1>6 DEF ScreenOK

LEMMA InvKeep == ProgressInv /\ [Quietly]_vars => ProgressInv'
<1> SUFFICES ASSUME ProgressInv, [Quietly]_vars PROVE ProgressInv'
  OBVIOUS
<1>1. Frames /\ Frames' /\ Places /\ Places'
  BY FramesKeep DEF ProgressInv, Frames
<1>2. SUFFICES ASSUME ~late' PROVE ScreenOK'
  BY <1>1 DEF ProgressInv
<1>3. ~late /\ ScreenOK
  <2>1. ~late
    <3>1. CASE Stop
      BY <1>1, <3>1 DEF Stop, Places, At
    <3>2. CASE ~Stop
      <4>1. late' = late \/ late' = (late \/ stopped)
        BY <3>2 DEF Quietly, MainStep, LoopStep, Hide, Show, Update, Render, Snapshot, BuildRow, BuildBar,
                    Publish, WriteFrame, Tick, LoopEnd, vars
      <4> QED BY <1>2, <4>1
    <3> QED BY <3>1, <3>2
  <2> QED BY <2>1 DEF ProgressInv
<1>4. DOMAIN pc = {Main, Loop, Signal}
  BY <1>1 DEF Places
<1>5. CASE Hide \/ Stop \/ Tick \/ LoopEnd \/ UNCHANGED vars
  <2>1. /\ UNCHANGED <<lines, frame, screen, cursor, rows>> /\ (Hide \/ UNCHANGED visible)
        /\ (Hide => pc'[Main] = "update")
    BY <1>4, <1>5 DEF Hide, Stop, Tick, LoopEnd, vars, term, Main, Loop
  <2>2. \A x \in Renderers : \/ pc'[x] = pc[x]
                             \/ pc'[x] \notin Built \cup {"show", "returned"} /\ pc[x] \notin {"write", "returned"}
    <3>1. CASE Hide
      <4>1. pc[Main] = "start" /\ pc[Loop] = "none" /\ pc'[Main] = "update" /\ pc'[Loop] = "select"
        BY <1>1, <1>4, <3>1 DEF Hide, Places, At, Main, Loop
      <4> QED BY <4>1 DEF Renderers, Built
    <3>2. CASE Stop \/ Tick \/ LoopEnd \/ UNCHANGED vars
      BY <1>4, <3>2 DEF Stop, Tick, LoopEnd, vars, At, Goto, Main, Loop, Renderers, Built
    <3> QED BY <1>5, <3>1, <3>2
  <2> QED BY <1>3, <2>1, <2>2, ScreenStays
<1>6. CASE Show
  BY <1>1, <1>2, <1>3, <1>6, ScreenShown
<1>7. CASE \E name \in Names, done, err \in BOOLEAN : Update(name, done, err)
  <2>1. pc[Main] = "update" /\ UNCHANGED <<pc, lines, frame, screen, cursor>>
    BY <1>7 DEF Update, At, term
  <2> QED BY <1>3, <2>1, ScreenStays
<1>8. CASE \E x \in Renderers : Render(x)
  BY <1>1, <1>3, <1>8, ScreenDrawn
<1> QED BY <1>5, <1>6, <1>7, <1>8 DEF Quietly, MainStep, LoopStep, Renderers

-----------------------------------------------------------------------------
(* The theorems: runs in which no signal arrives. *)

THEOREM FramesBuilt == CalmSpec => []ProgressInv
BY InvInit, InvKeep, PTL DEF CalmSpec

\* A parser has one row, a row a status of three; a frame under construction never runs
\* past the rows it was begun with (render's snapshot and the loop over the rows).
THEOREM DisplayTypes == CalmSpec => []TypeOK
<1>1. ProgressInv => TypeOK
  <2> SUFFICES ASSUME ProgressInv PROVE TypeOK
    OBVIOUS
  <2>1. Types /\ \A x \in Renderers : FrameOK(x)
    BY DEF ProgressInv, Frames
  <2>2. \A x \in Renderers : frame[x].i \in Nat /\ frame[x].n \in Nat
    BY <2>1 DEF Types
  <2>3. \A x \in {Main, Loop} : frame[x].i \in 0..frame[x].n /\ frame[x].n <= Len(rows)
    BY <2>1, <2>2 DEF FrameOK, Renderers
  <2>4. rows \in Seq([name : Names, status : Status])
    BY <2>1 DEF Types, Rows
  <2> QED BY <2>1, <2>3, <2>4 DEF TypeOK, Types, Distinct
<1> QED BY <1>1, FramesBuilt, PTL

\* Unless the animation was drawing when Stop came, every frame covers the one before it
\* exactly: one line of a parser, one bar, and nothing above the display touched.
THEOREM FramesReplace == CalmSpec => []OneFrame
<1>1. ProgressInv => OneFrame
  <2> SUFFICES ASSUME ProgressInv, ~late PROVE /\ SubSeq(screen, 1, Len(Above)) = Above
                                             /\ Clean
    BY DEF OneFrame, Clean, Top
  <2>1. Clean /\ screen \in Seq(Lines)
    BY DEF ProgressInv, ScreenOK, Frames, Types
  <2>2. Above \in Seq(Lines) /\ Top \in Nat /\ Len(Above) = Top /\ Top <= Len(screen) /\ \A k \in 1..Top : screen[k] = Above[k]
    BY <2>1, AboveType DEF Clean, Top
  <2>3. SubSeq(screen, 1, Len(Above)) = [k \in 1..Top |-> screen[k]]
    BY <2>1, <2>2
  <2>4. Above = [k \in 1..Top |-> Above[k]]
    BY <2>2
  <2> QED BY <2>1, <2>2, <2>3, <2>4
<1> QED BY <1>1, FramesBuilt, PTL

\* When Run has returned and the animation has ended, and it drew nothing late, the
\* terminal shows the rows as they are, below what was there, and the cursor.
THEOREM LastFrame == CalmSpec => []FinalFrame
<1>1. ProgressInv => FinalFrame
  BY DEF ProgressInv, ScreenOK, FinalFrame, Over
<1> QED BY <1>1, FramesBuilt, PTL
=============================================================================
