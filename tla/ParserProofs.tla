------------------------------ MODULE ParserProofs ------------------------------
(***************************************************************************)
(* What the parsers of artifacts store, and the hits of the rule engines.   *)
(***************************************************************************)
EXTENDS Decoders, WellFoundedInduction, TLAPS

-----------------------------------------------------------------------------
(* Journals, logs and tables of files. *)

\* Which of the records lie before the parser's position: in a journal, ...
UsnBefore == {k \in DOMAIN made.at : made.at[k].cell < pos}
\* ... in a log, ...
LogBefore == {k \in DOMAIN made.at : \/ made.at[k].page < stage
                                     \/ made.at[k].page = stage /\ made.at[k].cell < pos}
\* ... and in an MFT.
MftBefore == 1..(pos - 1)

\* s was collected from the elements of all that B has: in order, and each once if they differ.
Collected(s, all, B) ==
  /\ s \in Seq({all[k] : k \in B})
  /\ \A x, y \in DOMAIN s : x < y => \E k, l \in DOMAIN all : k < l /\ all[k] = s[x] /\ all[l] = s[y]

\* s is all that B has of the elements of all.
Complete(s, all, B) ==
  /\ Len(s) <= Len(all) /\ B = 1..Len(s)
  /\ \A x \in 1..Len(s) : s[x] = all[x]

\* The parser of a journal is at no place within a whole record, and what it stored is from
\* before that place.
UsnOK ==
  /\ stage = 1 /\ pos \in Nat
  /\ ~Journals!Within(made, pos)
  /\ Collected(out, made.holds, UsnBefore)
  /\ aux = 0 => \A k \in Journals!Whole(made) \cap UsnBefore : made.holds[k] \in {out[x] : x \in DOMAIN out}
  /\ done = "eof" => Journals!Whole(made) \subseteq UsnBefore

\* The parser of a log is behind the first record of a page and at no place within one.
LogOK ==
  LET pages == made.file.pages
  IN /\ stage \in Nat /\ stage >= Journals!FirstPage /\ pos \in Nat
     /\ stage <= Len(pages) => pos >= Journals!LogStart(pages, stage)
     /\ \A k \in DOMAIN made.at : made.at[k].page = stage => pos <= made.at[k].cell \/ made.at[k].cell + LogCells <= pos
     /\ Collected(mem, made.holds, LogBefore)
     /\ aux = 0 => Complete(mem, made.holds, LogBefore)
     /\ done = "eof" => stage > Len(pages) /\ out = mem

MftOK ==
  /\ stage = 1 /\ pos \in 1..(Len(made.holds) + 1)
  /\ Collected(mem, made.holds, MftBefore)
  /\ aux = 0 => Complete(mem, made.holds, MftBefore)
  /\ done = "eof" => pos > Len(made.holds) /\ out = mem

EventTables == {"evtx_events", "auth_events", "kerberos_events", "ps_scriptblock", "defender_events", "proc_creation",
                "sysmon_process", "sysmon_network", "sysmon_imageload", "sysmon_file", "sysmon_dns"}
EventRows == [table : EventTables, no : Nat]
EventRow(no) == [table |-> "evtx_events", no |-> no]

\* A row of another table stands behind its event, and the events before the parser's position
\* have their rows.
EvtxOK ==
  LET chunks == made.file.chunks
  IN /\ stage \in Nat \ {0} /\ pos \in Nat \ {0}
     /\ mem \in Seq(EventRows)
     /\ \A x \in DOMAIN mem : mem[x].table # "evtx_events" =>
          x > 1 /\ mem[x - 1] = EventRow(mem[x].no)
     /\ aux = 0 => \A c \in DOMAIN chunks : \A x \in DOMAIN chunks[c].records :
          LET r == chunks[c].records[x]
          IN chunks[c].ok /\ r.event /\ (c < stage \/ (c = stage /\ x < pos)) =>
               \E y \in DOMAIN mem : mem[y] = EventRow(r.no)
     /\ done = "eof" => stage > Len(chunks)

JournalOK ==
  /\ made \in JournalFiles /\ aux \in 0..MaxRowFaults /\ done \in {"no", "eof", "err"}
  /\ made.file.kind = "usn" => UsnOK
  /\ made.file.kind = "log" => LogOK
  /\ made.file.kind = "mft" => MftOK
  /\ made.file.kind = "evtx" => EvtxOK

\* What the steps of a case have to do with a journal.
LEMMA JournalSteps ==
    ASSUME [Next \/ Stopped]_vars
    PROVE  job' = job /\ (job = "journals" => Journals!Next \/ UNCHANGED Journals!vars)
BY DEF Next, Stopped, Reads, vars, shared, Journals!vars

LEMMA JournalConstants ==
    /\ BlockCells \in Nat \ {0} /\ MinCells \in Nat \ {0} /\ LogCells \in Nat \ {0}
    /\ LogHeader \in Nat /\ LogFirst \in Nat /\ MaxRowFaults \in Nat
BY DecoderAssumptions DEF Journals!JournalAssumption

\* What was collected from some elements was collected from more.
LEMMA CollectMore ==
    ASSUME NEW s, NEW all, NEW B, NEW C, B \subseteq C, Collected(s, all, B)
    PROVE  Collected(s, all, C)
<1>1. {all[k] : k \in B} \subseteq {all[k] : k \in C}
  OBVIOUS
<1>2. s \in Seq({all[k] : k \in C})
  BY <1>1 DEF Collected
<1> QED BY <1>2 DEF Collected

\* The next element is collected behind those before it.
LEMMA CollectNext ==
    ASSUME NEW s, NEW all, DOMAIN all \subseteq Nat, NEW B, NEW C, NEW i,
           B \cup {i} \subseteq C, C \subseteq DOMAIN all, \A k \in B : k < i,
           Collected(s, all, B)
    PROVE  Collected(Append(s, all[i]), all, C)
<1> DEFINE t == Append(s, all[i])
           S == {all[k] : k \in C}
<1>1. s \in Seq(S) /\ all[i] \in S
  <2>1. {all[k] : k \in B} \subseteq S
    OBVIOUS
  <2> QED BY <2>1 DEF Collected
<1>2. t \in Seq(S) /\ DOMAIN t = 1..(Len(s) + 1) /\ t[Len(s) + 1] = all[i] /\ \A x \in 1..Len(s) : t[x] = s[x]
  <2> HIDE DEF S
  <2> QED BY <1>1
<1>3. ASSUME NEW x \in DOMAIN t, NEW y \in DOMAIN t, x < y
      PROVE  \E k, l \in DOMAIN all : k < l /\ all[k] = t[x] /\ all[l] = t[y]
  <2>1. x \in DOMAIN s /\ t[x] = s[x]
    BY <1>1, <1>2, <1>3
  <2>2. CASE y \in DOMAIN s
    <3>1. t[y] = s[y]
      BY <1>1, <1>2, <2>2
    <3> QED BY <1>3, <2>1, <2>2, <3>1 DEF Collected
  <2>3. CASE y = Len(s) + 1
    <3>1. PICK k \in B : all[k] = s[x]
      <4>1. s \in Seq({all[k] : k \in B})
        BY DEF Collected
      <4>2. s[x] \in {all[k] : k \in B}
        BY <2>1, <4>1
      <4> QED BY <4>2
    <3>2. t[y] = all[i] /\ k \in DOMAIN all /\ i \in DOMAIN all /\ k < i
      BY <1>2, <2>3
    <3> QED BY <2>1, <3>1, <3>2
  <2> QED BY <1>1, <1>2, <2>2, <2>3
<1> QED BY <1>2, <1>3 DEF Collected

\* The same of all elements.
LEMMA CompleteNext ==
    ASSUME NEW S, NEW s \in Seq(S), NEW all, NEW i \in DOMAIN all, Len(all) \in Nat, DOMAIN all = 1..Len(all),
           NEW B, NEW C, C = B \cup {i}, i \notin B, \A k \in DOMAIN all : k < i => k \in B,
           Complete(s, all, B)
    PROVE  Complete(Append(s, all[i]), all, C)
<1>1. B = 1..Len(s) /\ Len(s) \in Nat /\ Len(s) <= Len(all)
  BY DEF Complete
<1>2. i = Len(s) + 1
  <2>1. i > Len(s)
    BY <1>1
  <2>2. ~ (Len(s) + 1 < i)
    BY <1>1
  <2> QED BY <1>1, <2>1, <2>2
<1>3. Len(Append(s, all[i])) = i /\ \A x \in 1..i : Append(s, all[i])[x] = all[x]
  BY <1>1, <1>2 DEF Complete
<1>4. C = 1..i
  BY <1>1, <1>2
<1> QED BY <1>2, <1>3, <1>4 DEF Complete

-----------------------------------------------------------------------------
(* The change journal. *)

\* What a journal is made like, piece by piece.
LEMMA UsnFacts ==
    ASSUME NEW m \in JournalFiles, m.file.kind = "usn"
    PROVE  LET d == m.file.data
           IN  /\ Len(d) \in Nat /\ DOMAIN d = 1..Len(d) /\ \A p \in 0..(Len(d) - 1) : d[p + 1].len \in Nat
               /\ Len(m.holds) \in Nat /\ DOMAIN m.holds = 1..Len(m.holds) /\ DOMAIN m.at = DOMAIN m.holds
               /\ Journals!Whole(m) \subseteq DOMAIN m.at
               /\ \A i \in DOMAIN m.at : m.at[i].cell \in 0..(Len(d) - 1)
               /\ \A i \in Journals!Whole(m) : /\ Journals!End(m, i) \in Nat /\ m.at[i].cell < Journals!End(m, i)
                                               /\ m.at[i].cell + MinCells <= Len(d)
<1> DEFINE d == m.file.data
<1>1. Journals!IsJournal(m)
  BY DecoderAssumptions DEF Journals!JournalAssumption
<1>2. /\ d \in Seq([len : Nat, major : Nat, usn : STRING]) /\ m.holds \in Seq(STRING)
      /\ m.at \in Seq([page : Nat, cell : 0..(Len(d) - 1)]) /\ Len(m.at) = Len(m.holds)
      /\ \A i \in Journals!Whole(m) : Journals!IsRecord(d, m.at[i].cell)
  BY <1>1 DEF Journals!IsJournal, Journals!Whole
<1>3. Len(d) \in Nat /\ DOMAIN d = 1..Len(d) /\ \A p \in 0..(Len(d) - 1) : d[p + 1].len \in Nat
  <2> DEFINE C == [len : Nat, major : Nat, usn : STRING]
  <2>1. Len(d) \in Nat /\ DOMAIN d = 1..Len(d) /\ \A x \in DOMAIN d : d[x] \in C
    <3>1. d \in Seq(C)
      BY <1>2
    <3> HIDE DEF d, C
    <3> QED BY <3>1
  <2>2. \A x \in C : x.len \in Nat
    OBVIOUS
  <2> HIDE DEF d, C
  <2> QED BY <2>1, <2>2
<1>4. Len(m.holds) \in Nat /\ DOMAIN m.holds = 1..Len(m.holds) /\ DOMAIN m.at = DOMAIN m.holds
  BY <1>2
<1>5. \A i \in DOMAIN m.at : m.at[i].cell \in 0..(Len(d) - 1)
  <2> DEFINE C == [page : Nat, cell : 0..(Len(d) - 1)]
  <2>1. \A x \in C : x.cell \in 0..(Len(d) - 1)
    OBVIOUS
  <2>2. m.at \in Seq(C)
    BY <1>2
  <2>3. \A i \in DOMAIN m.at : m.at[i] \in C
    <3> HIDE DEF C
    <3> QED BY <2>2
  <2> HIDE DEF d, C
  <2> QED BY <2>1, <2>3
<1>6. Journals!Whole(m) \subseteq DOMAIN m.at
  BY DEF Journals!Whole, Journals!Intact
<1>7. ASSUME NEW i \in Journals!Whole(m)
      PROVE  /\ Journals!End(m, i) \in Nat /\ m.at[i].cell < Journals!End(m, i) /\ m.at[i].cell + MinCells <= Len(d)
  <2> DEFINE c == m.at[i].cell
  <2>1. c \in 0..(Len(d) - 1) /\ Journals!IsRecord(d, c)
    BY <1>2, <1>5, <1>6
  <2>2. d[c + 1].len \in Nat /\ d[c + 1].len >= MinCells /\ c + d[c + 1].len <= Len(d)
    BY <1>3, <2>1 DEF Journals!IsRecord
  <2>3. Journals!End(m, i) = c + d[c + 1].len
    BY DEF Journals!End
  <2>4. c \in Nat /\ c < c + d[c + 1].len /\ c + MinCells <= Len(d) /\ c + d[c + 1].len \in Nat
    <3> HIDE DEF c, d
    <3> QED BY <1>3, <2>1, <2>2, JournalConstants
  <2> QED BY <2>3, <2>4
<1> QED BY <1>3, <1>4, <1>5, <1>6, <1>7

\* A number is no less than its whole blocks.
LEMMA Quotient ==
    ASSUME NEW a \in Nat, NEW d \in Nat \ {0}
    PROVE  a \div d \in Nat /\ (a \div d) * d <= a
OBVIOUS

\* Where the parser may be: nowhere within a whole record.
LEMMA UsnPlaces ==
    ASSUME NEW m \in JournalFiles, m.file.kind = "usn", NEW p \in Nat, p < Len(m.file.data), ~Journals!Within(m, p)
    PROVE  /\ m.file.data[p + 1].len = 0 =>
                /\ ~Journals!Within(m, Journals!NextBlock(p))
                /\ \A i \in Journals!Whole(m) : m.at[i].cell < Journals!NextBlock(p) => m.at[i].cell < p
           /\ ~Journals!IsRecord(m.file.data, p) =>
                /\ ~Journals!Within(m, p + 1)
                /\ \A i \in Journals!Whole(m) : m.at[i].cell # p
           /\ Journals!IsRecord(m.file.data, p) =>
                LET e == p + m.file.data[p + 1].len
                IN  /\ ~Journals!Within(m, e)
                    /\ \E i \in DOMAIN m.at :
                         /\ m.at[i].cell = p /\ m.file.data[p + 1].usn = m.holds[i]
                         /\ \A j \in DOMAIN m.at : j < i <=> m.at[j].cell < p
                         /\ \A j \in Journals!Whole(m) : m.at[j].cell < e => j <= i
<1> DEFINE d == m.file.data
           W == Journals!Whole(m)
           cell(i) == m.at[i].cell
           end(i) == Journals!End(m, i)
<1>1. Journals!IsJournal(m)
  BY DecoderAssumptions DEF Journals!JournalAssumption
<1>2. p \in 0..(Len(d) - 1) /\ d[p + 1].len \in Nat
  <2>1. Len(d) \in Nat /\ \A q \in 0..(Len(d) - 1) : d[q + 1].len \in Nat
    BY UsnFacts
  <2> HIDE DEF d
  <2>2. p < Len(d)
    BY DEF d
  <2> QED BY <2>1, <2>2
<1>3. \A i \in W : i \in DOMAIN m.at /\ cell(i) \in Nat /\ end(i) \in Nat /\ cell(i) < end(i)
  <2>1. W \subseteq DOMAIN m.at /\ \A i \in DOMAIN m.at : cell(i) \in Nat
    BY UsnFacts
  <2>2. \A i \in W : end(i) \in Nat /\ cell(i) < end(i)
    BY UsnFacts
  <2> HIDE DEF W
  <2> QED BY <2>1, <2>2
<1>4. \A q : Journals!Within(m, q) <=> \E i \in W : cell(i) < q /\ q < end(i)
  BY DEF Journals!Within
<1>5. \A i \in W : ~(cell(i) < p /\ p < end(i))
  BY <1>4
<1>6. ASSUME d[p + 1].len = 0
      PROVE  ~Journals!Within(m, Journals!NextBlock(p)) /\ \A i \in W : cell(i) < Journals!NextBlock(p) => cell(i) < p
  <2> DEFINE n == Journals!NextBlock(p)
  <2>1. n = ((p \div BlockCells) + 1) * BlockCells /\ n \in Nat /\ p < n
    BY JournalConstants DEF Journals!NextBlock
  <2>2. ASSUME NEW i \in W, cell(i) < n
        PROVE  cell(i) < p
    <3>1. p < cell(i) => p \div BlockCells < cell(i) \div BlockCells
      BY <1>1, <1>2, <1>6 DEF Journals!IsJournal
    <3>2. ~ (p < cell(i))
      <4>1. SUFFICES ASSUME p < cell(i) PROVE FALSE
        OBVIOUS
      <4> DEFINE c == cell(i)
                 x == c \div BlockCells
                 y == p \div BlockCells
      <4>2. x \in Nat /\ y \in Nat /\ y < x /\ c < (y + 1) * BlockCells /\ c \in Nat
        <5>1. c \in Nat /\ x \in Nat /\ y \in Nat
          BY <1>3, JournalConstants, Quotient
        <5> QED BY <2>1, <2>2, <3>1, <4>1, <5>1
      <4>3. x * BlockCells <= c
        BY <1>3, JournalConstants, Quotient
      <4>4. (y + 1) * BlockCells <= x * BlockCells
        <5> HIDE DEF x, y, c
        <5> QED BY <4>2, JournalConstants
      <4> QED
        <5> HIDE DEF x, y, c
        <5>1. x * BlockCells \in Nat /\ (y + 1) * BlockCells \in Nat
          BY <4>2, JournalConstants
        <5> QED BY <4>2, <4>3, <4>4, <5>1
    <3>3. cell(i) # p
      <4>1. Journals!IsRecord(d, cell(i))
        BY <1>1 DEF Journals!IsJournal, Journals!Whole
      <4> QED BY <1>6, <4>1, JournalConstants DEF Journals!IsRecord
    <3> QED BY <1>2, <1>3, <3>2, <3>3
  <2>3. ~Journals!Within(m, n)
    <3>1. SUFFICES ASSUME NEW i \in W, cell(i) < n, n < end(i) PROVE FALSE
      BY <1>4
    <3>2. cell(i) < p
      BY <2>2, <3>1
    <3> HIDE DEF n, W
    <3> QED BY <1>2, <1>3, <1>5, <2>1, <3>1, <3>2
  <2> QED BY <2>2, <2>3
<1>7. ASSUME ~Journals!IsRecord(d, p)
      PROVE  ~Journals!Within(m, p + 1) /\ \A i \in W : cell(i) # p
  <2>1. \A i \in W : cell(i) # p
    BY <1>1, <1>7 DEF Journals!IsJournal, Journals!Whole
  <2> QED
    <3>1. SUFFICES ASSUME NEW i \in W, cell(i) < p + 1, p + 1 < end(i) PROVE FALSE
      BY <1>4, <2>1
    <3> HIDE DEF W
    <3> QED BY <1>2, <1>3, <1>5, <2>1, <3>1
<1>8. ASSUME Journals!IsRecord(d, p)
      PROVE  LET e == p + d[p + 1].len
             IN  /\ ~Journals!Within(m, e)
                 /\ \E i \in DOMAIN m.at :
                      /\ cell(i) = p /\ d[p + 1].usn = m.holds[i]
                      /\ \A j \in DOMAIN m.at : j < i <=> cell(j) < p
                      /\ \A j \in W : cell(j) < e => j <= i
  <2> DEFINE e == p + d[p + 1].len
  <2>1. PICK i \in DOMAIN m.at : cell(i) = p
    BY <1>1, <1>2, <1>8 DEF Journals!IsJournal
  <2>2. d[p + 1].usn = m.holds[i] /\ \A j \in W : i < j => Journals!End(m, i) <= cell(j)
    <3>1. d[p + 1].usn = m.holds[i]
      BY <1>1, <1>8, <2>1 DEF Journals!IsJournal
    <3>2. ASSUME NEW j \in W, i < j PROVE Journals!End(m, i) <= cell(j)
      <4>1. CASE i \in Journals!Intact(m)
        BY <1>1, <1>3, <3>2, <4>1 DEF Journals!IsJournal
      <4>2. CASE i \notin Journals!Intact(m)
        <5>1. m.at[i].page \in m.hurt
          BY <2>1, <4>2 DEF Journals!Intact
        <5>2. ~Journals!Covers(m, i, j)
          BY <2>1 DEF Journals!Whole, Journals!Reached
        <5>3. ~ (cell(j) < Journals!End(m, i))
          BY <1>8, <2>1, <3>2, <5>1, <5>2 DEF Journals!Covers
        <5>4. Journals!End(m, i) = p + d[p + 1].len
          BY <2>1 DEF Journals!End
        <5> HIDE DEF W
        <5> QED BY <1>2, <1>3, <3>2, <5>3, <5>4
      <4> QED BY <4>1, <4>2
    <3> QED BY <3>1, <3>2
  <2>3. Journals!End(m, i) = e
    BY <2>1 DEF Journals!End
  <2>4. DOMAIN m.at \subseteq Nat /\ \A j \in DOMAIN m.at : cell(j) \in Nat
    BY UsnFacts
  <2>5. \A j, k \in DOMAIN m.at : j < k => cell(j) < cell(k)
    BY <1>1 DEF Journals!IsJournal
  <2>6. \A j \in DOMAIN m.at : j < i <=> cell(j) < p
    BY <2>1, <2>4, <2>5
  <2>7. e \in Nat /\ p < e
    BY <1>2, <1>8, JournalConstants DEF Journals!IsRecord
  <2>8. ASSUME NEW j \in W, cell(j) < e PROVE j <= i
    <3> HIDE DEF e, W
    <3> QED BY <1>3, <2>2, <2>3, <2>4, <2>7, <2>8
  <2>9. ~Journals!Within(m, e)
    <3>1. SUFFICES ASSUME NEW j \in W, cell(j) < e, e < end(j) PROVE FALSE
      BY <1>4
    <3>2. j <= i /\ j \in DOMAIN m.at
      BY <1>3, <2>8, <3>1
    <3>3. CASE j = i
      <4> HIDE DEF e
      <4> QED BY <2>3, <2>7, <3>1, <3>3
    <3>4. CASE j < i
      <4>1. cell(j) < p
        BY <2>6, <3>2, <3>4
      <4> HIDE DEF e, W
      <4> QED BY <1>2, <1>3, <1>5, <2>7, <3>1, <4>1
    <3> HIDE DEF e, W
    <3> QED BY <2>4, <3>2, <3>3, <3>4
  <2> QED BY <2>1, <2>2, <2>6, <2>8, <2>9
<1> QED BY <1>6, <1>7, <1>8

\* Only its own steps read a journal.
LEMMA UsnActions ==
    ASSUME made.file.kind = "usn", Journals!Next
    PROVE  Journals!EndOfJournal \/ Journals!SkipBlock \/ Journals!Resync \/ Journals!TakeRecord
<1>1. ~Journals!In("log") /\ ~Journals!In("evtx") /\ ~Journals!In("mft")
  BY DEF Journals!In, Journals!file
<1>2. ~Journals!Commit
  BY DEF Journals!Commit, Journals!IsRead, Journals!file
<1> QED BY <1>1, <1>2 DEF Journals!Next, Journals!TooShort, Journals!NextPage, Journals!Retry, Journals!PassOver,
           Journals!TakeOperation, Journals!OnPage, Journals!NotALog, Journals!NextChunk, Journals!NotAnEvent,
           Journals!InsertEvent, Journals!HasRecord, Journals!InChunks, Journals!InsertEntry

LEMMA UsnInit ==
    ASSUME Journals!Init, made.file.kind = "usn"
    PROVE  UsnOK
<1>1. made \in JournalFiles /\ stage = 1 /\ pos = 0 /\ out = <<>> /\ done = "no" /\ aux = 0
  BY DEF Journals!Init, Journals!file
<1>2. \A i \in DOMAIN made.at : made.at[i].cell \in Nat
  BY <1>1, UsnFacts
<1>3. UsnBefore = {}
  BY <1>1, <1>2 DEF UsnBefore
<1>4. ~Journals!Within(made, pos)
  BY <1>1, <1>2, UsnFacts DEF Journals!Within
<1>5. Collected(out, made.holds, UsnBefore)
  BY <1>1, <1>3 DEF Collected
<1> QED BY <1>1, <1>3, <1>4, <1>5 DEF UsnOK

LEMMA UsnStep ==
    ASSUME made \in JournalFiles, made.file.kind = "usn", UsnOK, aux \in Nat, Journals!Next
    PROVE  UsnOK' /\ made' = made
<1> DEFINE d == made.file.data
           W == Journals!Whole(made)
           cell(i) == made.at[i].cell
<1>1. pos \in Nat /\ ~Journals!Within(made, pos) /\ stage = 1
  BY DEF UsnOK
<1>2. /\ Len(d) \in Nat /\ W \subseteq DOMAIN made.at /\ DOMAIN made.at = DOMAIN made.holds /\ DOMAIN made.holds \subseteq Nat
      /\ \A p \in 0..(Len(d) - 1) : d[p + 1].len \in Nat
      /\ \A i \in DOMAIN made.at : cell(i) \in 0..(Len(d) - 1)
      /\ \A i \in W : cell(i) + MinCells <= Len(d)
  <2>1. Len(d) \in Nat /\ \A p \in 0..(Len(d) - 1) : d[p + 1].len \in Nat
    BY UsnFacts
  <2>2. W \subseteq DOMAIN made.at /\ DOMAIN made.at = DOMAIN made.holds /\ DOMAIN made.holds \subseteq Nat
    BY UsnFacts
  <2>3. \A i \in DOMAIN made.at : cell(i) \in 0..(Len(d) - 1)
    BY UsnFacts
  <2>4. \A i \in W : cell(i) + MinCells <= Len(d)
    BY UsnFacts
  <2> QED BY <2>1, <2>2, <2>3, <2>4
<1>3. Journals!Size = Len(d) /\ Journals!At(pos) = d[pos + 1]
  BY DEF Journals!Size, Journals!At, Journals!file
<1>4. CASE Journals!EndOfJournal
  <2>1. done' = "eof" /\ UNCHANGED <<made, stage, pos, mem, aux, out>>
    BY <1>4 DEF Journals!EndOfJournal
  <2>2. W \subseteq UsnBefore
    <3>1. SUFFICES ASSUME NEW i \in W PROVE cell(i) < pos
      BY <1>2 DEF UsnBefore
    <3>2. cell(i) \in Nat /\ cell(i) < Len(d) /\ cell(i) + MinCells <= Len(d)
      BY <1>2
    <3>3. CASE pos >= Len(d)
      <4> HIDE DEF d
      <4> QED BY <1>1, <1>2, <3>2, <3>3
    <3>4. CASE pos < Len(d) /\ d[pos + 1].len = 0
      <4>1. Journals!NextBlock(pos) > Len(d)
        <5>1. ~(pos >= Len(d))
          BY <1>1, <1>2, <3>4
        <5> QED BY <1>3, <1>4, <3>4, <5>1 DEF Journals!EndOfJournal
      <4>2. Journals!NextBlock(pos) \in Nat
        BY <1>1, JournalConstants DEF Journals!NextBlock
      <4>3. cell(i) < Journals!NextBlock(pos)
        <5> HIDE DEF d
        <5> QED BY <1>2, <3>2, <4>1, <4>2
      <4> QED BY <1>1, <3>4, <4>3, UsnPlaces
    <3>5. CASE pos < Len(d) /\ d[pos + 1].len # 0
      <4>1. pos + MinCells > Len(d)
        <5>1. ~(pos >= Len(d))
          BY <1>1, <1>2, <3>5
        <5> QED BY <1>3, <1>4, <3>5, <5>1 DEF Journals!EndOfJournal
      <4> HIDE DEF d
      <4> QED BY <1>1, <1>2, <3>2, <4>1, JournalConstants
    <3> QED BY <1>1, <1>2, <3>3, <3>4, <3>5
  <2>3. UsnBefore' = UsnBefore
    BY <2>1 DEF UsnBefore
  <2> QED BY <2>1, <2>2, <2>3 DEF UsnOK
<1>5. CASE Journals!SkipBlock \/ Journals!Resync
  <2>1. UNCHANGED <<made, stage, mem, aux, out, done>> /\ done = "no" /\ pos < Len(d)
    BY <1>1, <1>2, <1>3, <1>5, JournalConstants DEF Journals!SkipBlock, Journals!Resync, Journals!In
  <2>2. pos' \in Nat /\ pos <= pos' /\ ~Journals!Within(made, pos') /\ \A i \in W : cell(i) < pos' => cell(i) < pos
    <3>1. CASE Journals!SkipBlock
      <4>1. d[pos + 1].len = 0 /\ pos' = Journals!NextBlock(pos)
        BY <1>3, <3>1 DEF Journals!SkipBlock
      <4>2. pos' \in Nat /\ pos <= pos'
        BY <1>1, <4>1, JournalConstants DEF Journals!NextBlock
      <4> QED BY <1>1, <2>1, <4>1, <4>2, UsnPlaces
    <3>2. CASE Journals!Resync
      <4>1. ~Journals!IsRecord(d, pos) /\ pos' = pos + 1
        BY <3>2 DEF Journals!Resync, Journals!file
      <4>2. ~Journals!Within(made, pos + 1) /\ \A i \in W : cell(i) # pos
        BY <1>1, <2>1, <4>1, UsnPlaces
      <4>3. \A i \in W : cell(i) \in Nat
        BY <1>2
      <4> QED BY <1>1, <4>1, <4>2, <4>3
    <3> QED BY <1>5, <3>1, <3>2
  <2>3. UsnBefore \subseteq UsnBefore' /\ W \cap UsnBefore' \subseteq UsnBefore /\ UsnBefore' \subseteq DOMAIN made.holds
    <3>1. \A i \in DOMAIN made.at : cell(i) \in Nat
      BY <1>2
    <3> QED BY <1>1, <1>2, <2>1, <2>2, <3>1 DEF UsnBefore
  <2>4. Collected(out, made.holds, UsnBefore')
    BY <2>3, CollectMore DEF UsnOK
  <2>5. Collected(out', made'.holds, UsnBefore')
    BY <2>1, <2>4
  <2> QED BY <2>1, <2>2, <2>3, <2>5 DEF UsnOK
<1>6. CASE Journals!TakeRecord
  <2>1. /\ UNCHANGED <<made, stage, mem, done>> /\ done = "no" /\ pos < Len(d) /\ Journals!IsRecord(d, pos)
        /\ pos' = pos + d[pos + 1].len
    BY <1>1, <1>2, <1>3, <1>6, JournalConstants DEF Journals!TakeRecord, Journals!In, Journals!file
  <2>2. PICK i \in DOMAIN made.at :
          /\ cell(i) = pos /\ d[pos + 1].usn = made.holds[i]
          /\ \A j \in DOMAIN made.at : j < i <=> cell(j) < pos
          /\ \A j \in W : cell(j) < pos' => j <= i
    BY <1>1, <2>1, UsnPlaces
  <2>3. ~Journals!Within(made, pos')
    BY <1>1, <2>1, UsnPlaces
  <2>4. d[pos + 1].len \in Nat /\ d[pos + 1].len >= MinCells
    BY <1>1, <1>2, <2>1 DEF Journals!IsRecord
  <2>5. pos' \in Nat /\ pos < pos'
    <3> HIDE DEF d
    <3> QED BY <1>1, <2>1, <2>4, JournalConstants
  <2>6. /\ UsnBefore \cup {i} \subseteq UsnBefore' /\ UsnBefore' \subseteq DOMAIN made.holds
        /\ \A k \in UsnBefore : k < i
        /\ \A k \in W \cap UsnBefore' : k \in UsnBefore \/ k = i
    <3>1. \A j \in DOMAIN made.at : cell(j) \in Nat /\ j \in Nat
      BY <1>2
    <3> QED BY <1>1, <1>2, <2>1, <2>2, <2>5, <3>1 DEF UsnBefore
  <2>7. Collected(out, made.holds, UsnBefore)
    BY DEF UsnOK
  <2>8. CASE out' = Append(out, made.holds[i]) /\ aux' = aux
    <3>1. Collected(out', made.holds, UsnBefore')
      BY <1>2, <2>6, <2>7, <2>8, CollectNext
    <3>2. out \in Seq({made.holds[k] : k \in UsnBefore})
      BY <2>7 DEF Collected
    <3>3. \A x \in DOMAIN out : x \in DOMAIN out' /\ out'[x] = out[x]
      BY <2>8, <3>2
    <3>4. Len(out) + 1 \in DOMAIN out' /\ out'[Len(out) + 1] = made.holds[i]
      BY <2>8, <3>2
    <3>5. aux' = 0 => \A k \in W \cap UsnBefore' : made.holds[k] \in {out'[x] : x \in DOMAIN out'}
      <4>1. SUFFICES ASSUME aux = 0, NEW k \in W \cap UsnBefore'
                     PROVE  \E x \in DOMAIN out' : out'[x] = made.holds[k]
        BY <2>8
      <4>2. CASE k = i
        BY <3>4, <4>2
      <4>3. CASE k \in UsnBefore
        <5>1. made.holds[k] \in {out[x] : x \in DOMAIN out}
          BY <4>1, <4>3 DEF UsnOK
        <5> QED BY <3>3, <5>1
      <4> QED BY <2>6, <4>1, <4>2, <4>3
    <3> QED BY <1>1, <2>1, <2>3, <2>5, <3>1, <3>5 DEF UsnOK
  <2>9. CASE out' = out /\ aux' = aux + 1
    <3>1. Collected(out', made.holds, UsnBefore')
      BY <2>6, <2>7, <2>9, CollectMore
    <3> QED BY <1>1, <2>1, <2>3, <2>5, <2>9, <3>1 DEF UsnOK
  <2> QED BY <1>3, <1>6, <2>2, <2>8, <2>9 DEF Journals!TakeRecord, Journals!Fault, Journals!NoFault
<1> QED BY <1>4, <1>5, <1>6, UsnActions DEF Journals!EndOfJournal, Journals!SkipBlock, Journals!Resync, Journals!TakeRecord

-----------------------------------------------------------------------------
(* The log. *)

\* What a log is made like, piece by piece.
LEMMA LogFacts ==
    ASSUME NEW m \in JournalFiles, m.file.kind = "log"
    PROVE  LET pages == m.file.pages
           IN  /\ Len(pages) \in Nat
               /\ \A n \in Nat \ {0} : Journals!LogStart(pages, n) \in Nat
               /\ \A n \in 1..Len(pages) : Len(pages[n].cells) \in Nat
               /\ Len(m.holds) \in Nat /\ DOMAIN m.holds = 1..Len(m.holds) /\ DOMAIN m.at = DOMAIN m.holds
               /\ \A i \in DOMAIN m.at :
                    /\ m.at[i].page \in 3..Len(pages) /\ m.at[i].cell \in Nat
                    /\ pages[m.at[i].page].sig
                    /\ Journals!LogStart(pages, m.at[i].page) <= m.at[i].cell
                    /\ m.at[i].cell + LogCells <= Len(pages[m.at[i].page].cells)
<1> DEFINE pages == m.file.pages
           C == [sig : BOOLEAN, next : Nat,
                 cells : Seq([op : STRING, lsn : Nat, redo : STRING, near : STRING])]
           A == [page : 3..Len(pages), cell : Nat]
<1>1. Journals!IsLog(m)
  BY DecoderAssumptions DEF Journals!JournalAssumption
<1>2. pages \in Seq(C)
  BY <1>1 DEF Journals!IsLog
<1>3. Len(pages) \in Nat /\ \A n \in 1..Len(pages) : pages[n] \in C
  <2> HIDE DEF C, pages
  <2> QED BY <1>2
<1>4. \A c \in C : c.next \in Nat /\ Len(c.cells) \in Nat
  OBVIOUS
<1>5. \A n \in 1..Len(pages) : pages[n].next \in Nat /\ Len(pages[n].cells) \in Nat
  <2> HIDE DEF C, pages
  <2> QED BY <1>3, <1>4
<1>6. \A n \in Nat \ {0} : Journals!LogStart(pages, n) \in Nat
  <2> HIDE DEF C, pages
  <2> QED BY <1>3, <1>5, JournalConstants DEF Journals!LogStart
<1>7. m.holds \in Seq([lsn : Nat, name : STRING]) /\ m.at \in Seq(A) /\ Len(m.at) = Len(m.holds)
  BY <1>1 DEF Journals!IsLog, Journals!FirstPage
<1>8. Len(m.holds) \in Nat /\ DOMAIN m.holds = 1..Len(m.holds) /\ DOMAIN m.at = DOMAIN m.holds
  BY <1>7
<1>9. \A i \in DOMAIN m.at : m.at[i] \in A
  <2> HIDE DEF A
  <2> QED BY <1>7
<1>10. \A a \in A : a.page \in 3..Len(pages) /\ a.cell \in Nat
  OBVIOUS
<1>11. \A i \in DOMAIN m.at :
         /\ pages[m.at[i].page].sig
         /\ m.at[i].cell \in Journals!LogStart(pages, m.at[i].page)..(Len(pages[m.at[i].page].cells) - LogCells)
  BY <1>1 DEF Journals!IsLog
<1>12. ASSUME NEW i \in DOMAIN m.at
       PROVE  /\ m.at[i].page \in 3..Len(pages) /\ m.at[i].cell \in Nat
              /\ pages[m.at[i].page].sig
              /\ Journals!LogStart(pages, m.at[i].page) <= m.at[i].cell
              /\ m.at[i].cell + LogCells <= Len(pages[m.at[i].page].cells)
  <2>1. m.at[i].page \in 3..Len(pages) /\ m.at[i].cell \in Nat
    <3> HIDE DEF A, pages
    <3> QED BY <1>9, <1>10
  <2> DEFINE n == m.at[i].page
  <2>2. n \in 1..Len(pages) /\ n \in Nat \ {0}
    <3> HIDE DEF pages
    <3> QED BY <1>3, <2>1
  <2>3. Journals!LogStart(pages, n) \in Nat /\ Len(pages[n].cells) \in Nat
    BY <1>5, <1>6, <2>2
  <2> HIDE DEF pages
  <2> QED BY <1>11, <2>1, <2>3, JournalConstants
<1> QED BY <1>3, <1>5, <1>6, <1>8, <1>12

\* What the parser can meet where a record could be.
LEMMA LogPlaces ==
    ASSUME NEW m \in JournalFiles, m.file.kind = "log",
           NEW n, n \in 3..Len(m.file.pages), m.file.pages[n].sig,
           NEW p, p \in Nat, Journals!LogStart(m.file.pages, n) <= p, p + LogCells <= Len(m.file.pages[n].cells)
    PROVE  LET c == m.file.pages[n].cells[p + 1]
           IN  /\ c.op \in {"bad", "unknown"} => \A i \in DOMAIN m.at : m.at[i].page = n => m.at[i].cell # p
               /\ c.op = "other" => \A i \in DOMAIN m.at : m.at[i].page = n =>
                    m.at[i].cell < p \/ p + LogCells <= m.at[i].cell
               /\ c.op = "active" => \E i \in DOMAIN m.at :
                    /\ m.at[i].page = n /\ m.at[i].cell = p /\ m.holds[i] = Journals!Operation(c)
                    /\ \A j \in DOMAIN m.at :
                         /\ j < i <=> (m.at[j].page < n \/ (m.at[j].page = n /\ m.at[j].cell < p))
                         /\ m.at[j].page = n => \/ j = i
                                                \/ m.at[j].cell + LogCells <= p
                                                \/ p + LogCells <= m.at[j].cell
<1> DEFINE pages == m.file.pages
           c == pages[n].cells[p + 1]
           page(i) == m.at[i].page
           cell(i) == m.at[i].cell
<1>1. Journals!IsLog(m)
  BY DecoderAssumptions DEF Journals!JournalAssumption
<1>2. p \in Journals!LogStart(pages, n)..(Len(pages[n].cells) - LogCells)
  <2>1. Journals!LogStart(pages, n) \in Nat
    <3>1. n \in Nat \ {0}
      BY LogFacts
    <3> QED BY <3>1, LogFacts
  <2>2. Len(pages[n].cells) \in Nat
    <3>1. n \in 1..Len(pages)
      BY LogFacts
    <3> QED BY <3>1, LogFacts
  <2> QED BY <2>1, <2>2, JournalConstants
<1>3. /\ c.op = "active" => \E i \in DOMAIN m.at : page(i) = n /\ cell(i) = p
      /\ c.op = "other" => \A i \in DOMAIN m.at : page(i) = n => cell(i) < p \/ p + LogCells <= cell(i)
  BY <1>1, <1>2, Zenon DEF Journals!IsLog, Journals!FirstPage
<1>4. \A i \in DOMAIN m.at :
        /\ pages[page(i)].cells[cell(i) + 1].op = "active"
        /\ m.holds[i] = Journals!Operation(pages[page(i)].cells[cell(i) + 1])
  BY <1>1, Zenon DEF Journals!IsLog
<1>5. \A i, j \in DOMAIN m.at : i < j => page(i) < page(j) \/ (page(i) = page(j) /\ cell(i) + LogCells <= cell(j))
  BY <1>1, Zenon DEF Journals!IsLog
<1>6. \A i \in DOMAIN m.at : i \in Nat /\ page(i) \in Nat /\ cell(i) \in Nat
  <2>1. \A i \in DOMAIN m.at : m.at[i].page \in 3..Len(m.file.pages) /\ m.at[i].cell \in Nat
    BY LogFacts
  <2>2. DOMAIN m.at = 1..Len(m.holds) /\ Len(m.holds) \in Nat /\ Len(m.file.pages) \in Nat
    BY LogFacts
  <2>3. \A i \in DOMAIN m.at : i \in Nat
    BY <2>2
  <2>4. \A i \in DOMAIN m.at : page(i) \in Nat
    BY <2>1, <2>2
  <2> QED BY <2>1, <2>3, <2>4
<1>7. c.op \in {"bad", "unknown"} => \A i \in DOMAIN m.at : page(i) = n => cell(i) # p
  BY <1>4, Zenon
<1>8. ASSUME c.op = "active"
      PROVE  \E i \in DOMAIN m.at :
               /\ page(i) = n /\ cell(i) = p /\ m.holds[i] = Journals!Operation(c)
               /\ \A j \in DOMAIN m.at :
                    /\ j < i <=> (page(j) < n \/ (page(j) = n /\ cell(j) < p))
                    /\ page(j) = n => j = i \/ cell(j) + LogCells <= p \/ p + LogCells <= cell(j)
  <2>1. PICK i \in DOMAIN m.at : page(i) = n /\ cell(i) = p
    BY <1>3, <1>8
  <2>2. m.holds[i] = Journals!Operation(c)
    BY <1>4, <2>1
  <2>3. ASSUME NEW j \in DOMAIN m.at
        PROVE  /\ j < i <=> (page(j) < n \/ (page(j) = n /\ cell(j) < p))
               /\ page(j) = n => j = i \/ cell(j) + LogCells <= p \/ p + LogCells <= cell(j)
    <3>1. CASE j = i
      BY <1>6, <2>1, <3>1
    <3>2. CASE j < i
      <4>1. page(j) < n \/ (page(j) = n /\ cell(j) + LogCells <= p)
        BY <1>5, <2>1, <3>2
      <4> QED BY <1>6, <2>1, <3>2, <4>1, JournalConstants
    <3>3. CASE i < j
      <4>1. n < page(j) \/ (page(j) = n /\ p + LogCells <= cell(j))
        BY <1>5, <2>1, <3>3
      <4> QED BY <1>6, <2>1, <3>3, <4>1, JournalConstants
    <3> QED BY <1>6, <3>1, <3>2, <3>3
  <2> QED BY <2>1, <2>2, <2>3
<1> QED BY <1>3, <1>7, <1>8

LEMMA LogActions ==
    ASSUME made.file.kind = "log", Journals!Next
    PROVE  Journals!TooShort \/ Journals!NextPage \/ Journals!Retry \/ Journals!PassOver \/ Journals!TakeOperation
             \/ Journals!Commit
<1>1. ~Journals!In("usn") /\ ~Journals!In("evtx") /\ ~Journals!In("mft")
  BY DEF Journals!In, Journals!file
<1> QED BY <1>1 DEF Journals!Next, Journals!EndOfJournal, Journals!SkipBlock, Journals!Resync, Journals!TakeRecord,
           Journals!NotALog, Journals!NextChunk, Journals!NotAnEvent,
           Journals!InsertEvent, Journals!HasRecord, Journals!InChunks, Journals!InsertEntry

LEMMA LogInit ==
    ASSUME Journals!Init, made.file.kind = "log"
    PROVE  LogOK
<1> DEFINE pages == made.file.pages
<1>1. made \in JournalFiles /\ stage = 3 /\ pos = Journals!LogStart(pages, 3) /\ mem = <<>> /\ done = "no"
  BY DEF Journals!Init, Journals!file, Journals!FirstPage
<1>2. \A i \in DOMAIN made.at : /\ made.at[i].page \in 3..Len(pages) /\ made.at[i].cell \in Nat
                                /\ Journals!LogStart(pages, made.at[i].page) <= made.at[i].cell
  BY <1>1, LogFacts
<1>3. pos \in Nat /\ Len(pages) \in Nat /\ Len(made.holds) \in Nat
  <2>1. 3 \in Nat \ {0}
    OBVIOUS
  <2> QED BY <1>1, <2>1, LogFacts
<1>4. LogBefore = {} /\ \A i \in DOMAIN made.at : made.at[i].page = stage => pos <= made.at[i].cell
  BY <1>1, <1>2, <1>3 DEF LogBefore
<1>5. Collected(mem, made.holds, LogBefore)
  BY <1>1, <1>4 DEF Collected
<1>6. Complete(mem, made.holds, LogBefore)
  BY <1>1, <1>3, <1>4 DEF Complete
<1> QED BY <1>1, <1>3, <1>4, <1>5, <1>6 DEF LogOK, Journals!FirstPage

\* A step that makes no row and passes no record.
LEMMA LogStutters ==
    ASSUME made \in JournalFiles, made.file.kind = "log", LogOK,
           UNCHANGED <<made, mem, aux, out, done>>, LogBefore' = LogBefore
    PROVE  /\ Collected(mem', made'.holds, LogBefore')
           /\ aux' = 0 => Complete(mem', made'.holds, LogBefore')
<1>1. Collected(mem, made.holds, LogBefore) /\ (aux = 0 => Complete(mem, made.holds, LogBefore))
  BY DEF LogOK
<1> QED BY <1>1

LEMMA LogStep ==
    ASSUME made \in JournalFiles, made.file.kind = "log", LogOK, aux \in Nat, Journals!Next
    PROVE  LogOK' /\ made' = made
<1> DEFINE pages == made.file.pages
           page(i) == made.at[i].page
           cell(i) == made.at[i].cell
<1>1. /\ stage \in Nat /\ stage >= 3 /\ pos \in Nat
      /\ stage <= Len(pages) => pos >= Journals!LogStart(pages, stage)
      /\ \A k \in DOMAIN made.at : page(k) = stage => pos <= cell(k) \/ cell(k) + LogCells <= pos
  BY DEF LogOK, Journals!FirstPage
<1>2. Len(pages) \in Nat /\ DOMAIN made.at = DOMAIN made.holds /\ DOMAIN made.holds = 1..Len(made.holds) /\ Len(made.holds) \in Nat
  BY LogFacts
<1>3. \A i \in DOMAIN made.at : i \in Nat /\ page(i) \in 3..Len(pages) /\ cell(i) \in Nat
  BY LogFacts
<1>4. CASE Journals!TooShort
  <2>1. UNCHANGED <<made, stage, pos, mem, aux, out>> /\ done' = "err"
    BY <1>4 DEF Journals!TooShort
  <2>2. LogBefore' = LogBefore
    BY <2>1 DEF LogBefore
  <2> QED BY <2>1, <2>2 DEF LogOK
<1>5. CASE Journals!NextPage
  <2>1. /\ stage <= Len(pages) /\ (pages[stage].sig => pos + LogCells > Len(pages[stage].cells))
        /\ stage' = stage + 1 /\ pos' = Journals!LogStart(pages, stage + 1) /\ UNCHANGED <<made, mem, aux, out, done>>
        /\ done = "no"
    <3>1. ~Journals!HasRoom <=> ~(pos + LogCells <= Len(pages[stage].cells))
      BY DEF Journals!HasRoom, Journals!file
    <3>2. Len(pages[stage].cells) \in Nat
      <4>1. stage \in 1..Len(pages)
        BY <1>1, <1>2, <1>5 DEF Journals!NextPage, Journals!file
      <4> QED BY <4>1, LogFacts
    <3> QED BY <1>1, <1>5, <3>1, <3>2, JournalConstants DEF Journals!NextPage, Journals!In, Journals!file
  <2>2. pos' \in Nat
    <3>1. stage + 1 \in Nat \ {0}
      BY <1>1
    <3> QED BY <2>1, <3>1, LogFacts
  <2>3. \A k \in DOMAIN made.at : page(k) = stage => cell(k) < pos
    <3>1. SUFFICES ASSUME NEW k \in DOMAIN made.at, page(k) = stage PROVE cell(k) < pos
      OBVIOUS
    <3>2. pages[stage].sig /\ cell(k) + LogCells <= Len(pages[stage].cells)
      BY <3>1, LogFacts
    <3>3. Len(pages[stage].cells) \in Nat
      <4>1. stage \in 1..Len(pages)
        BY <1>1, <1>2, <2>1
      <4> QED BY <4>1, LogFacts
    <3> DEFINE x == cell(k)
               l == Len(pages[stage].cells)
    <3>4. x \in Nat /\ l \in Nat /\ x + LogCells <= l /\ pos + LogCells > l /\ pos \in Nat
      BY <1>1, <1>3, <2>1, <3>2, <3>3
    <3>5. x < pos
      <4> HIDE DEF x, l
      <4> QED BY <3>4, JournalConstants
    <3> QED BY <3>5
  <2>4. \A k \in DOMAIN made.at : page(k) = stage + 1 => pos' <= cell(k)
    BY <2>1, LogFacts
  <2>5. LogBefore' = LogBefore
    BY <1>1, <1>3, <2>1, <2>2, <2>3, <2>4 DEF LogBefore
  <2> QED BY <1>1, <2>1, <2>2, <2>4, <2>5, LogStutters DEF LogOK, Journals!FirstPage
<1>6. ASSUME Journals!OnPage, Journals!HasRoom
      PROVE  /\ stage \in 3..Len(pages) /\ pages[stage].sig /\ Journals!LogStart(pages, stage) <= pos
             /\ pos + LogCells <= Len(pages[stage].cells) /\ done = "no"
             /\ Journals!Cell = pages[stage].cells[pos + 1]
  BY <1>1, <1>2, <1>6 DEF Journals!OnPage, Journals!HasRoom, Journals!In, Journals!Cell, Journals!file
<1>7. Journals!LogStart(pages, stage) \in Nat
  <2>1. stage \in Nat \ {0}
    BY <1>1
  <2> QED BY <2>1, LogFacts
<1>8. CASE Journals!Retry
  <2>1. Journals!OnPage /\ Journals!HasRoom /\ Journals!Cell.op \in {"bad", "unknown"}
        /\ pos' = pos + 1 /\ UNCHANGED <<made, stage, mem, aux, out, done>>
    BY <1>8 DEF Journals!Retry
  <2>2. \A k \in DOMAIN made.at : page(k) = stage => cell(k) # pos
    <3>1. pages[stage].cells[pos + 1].op \in {"bad", "unknown"}
      BY <1>6, <2>1
    <3> QED BY <1>1, <1>6, <2>1, <3>1, LogPlaces
  <2>3. LogBefore' = LogBefore
    BY <1>1, <1>3, <2>1, <2>2 DEF LogBefore
  <2>4. \A k \in DOMAIN made.at : page(k) = stage => pos + 1 <= cell(k) \/ cell(k) + LogCells <= pos + 1
    BY <1>1, <1>3, <2>2, JournalConstants
  <2> QED BY <1>1, <1>6, <1>7, <2>1, <2>3, <2>4, LogStutters DEF LogOK, Journals!FirstPage
<1>9. CASE Journals!PassOver
  <2>1. Journals!OnPage /\ Journals!HasRoom /\ Journals!Cell.op = "other"
        /\ pos' = pos + LogCells /\ UNCHANGED <<made, stage, mem, aux, out, done>>
    BY <1>9 DEF Journals!PassOver
  <2>2. \A k \in DOMAIN made.at : page(k) = stage => cell(k) < pos \/ pos + LogCells <= cell(k)
    <3>1. pages[stage].cells[pos + 1].op = "other"
      BY <1>6, <2>1
    <3> QED BY <1>1, <1>6, <2>1, <3>1, LogPlaces
  <2>3. LogBefore' = LogBefore
    BY <1>1, <1>3, <2>1, <2>2, JournalConstants DEF LogBefore
  <2>4. \A k \in DOMAIN made.at : page(k) = stage => pos' <= cell(k) \/ cell(k) + LogCells <= pos'
    BY <1>1, <1>3, <2>1, <2>2, JournalConstants
  <2>5. pos' \in Nat /\ pos <= pos'
    BY <1>1, <2>1, JournalConstants
  <2> QED BY <1>1, <1>6, <1>7, <2>1, <2>3, <2>4, <2>5, LogStutters DEF LogOK, Journals!FirstPage
<1>10. CASE Journals!TakeOperation
  <2>1. Journals!OnPage /\ Journals!HasRoom /\ Journals!Cell.op = "active"
        /\ pos' = pos + LogCells /\ UNCHANGED <<made, stage, out, done>>
    BY <1>10 DEF Journals!TakeOperation
  <2>2. PICK i \in DOMAIN made.at :
          /\ page(i) = stage /\ cell(i) = pos /\ made.holds[i] = Journals!Operation(Journals!Cell)
          /\ \A j \in DOMAIN made.at :
               /\ j < i <=> (page(j) < stage \/ (page(j) = stage /\ cell(j) < pos))
               /\ page(j) = stage => j = i \/ cell(j) + LogCells <= pos \/ pos + LogCells <= cell(j)
    <3> DEFINE c == pages[stage].cells[pos + 1]
    <3>1. c.op = "active" /\ Journals!Cell = c
      BY <1>6, <2>1
    <3>2. /\ stage \in 3..Len(pages) /\ pages[stage].sig /\ Journals!LogStart(pages, stage) <= pos
          /\ pos + LogCells <= Len(pages[stage].cells) /\ pos \in Nat
      BY <1>1, <1>6, <2>1
    <3>3. \E i \in DOMAIN made.at :
            /\ page(i) = stage /\ cell(i) = pos /\ made.holds[i] = Journals!Operation(c)
            /\ \A j \in DOMAIN made.at :
                 /\ j < i <=> (page(j) < stage \/ (page(j) = stage /\ cell(j) < pos))
                 /\ page(j) = stage => j = i \/ cell(j) + LogCells <= pos \/ pos + LogCells <= cell(j)
      BY <3>1, <3>2, LogPlaces
    <3> HIDE DEF c
    <3> QED BY <3>1, <3>3
  <2>3. /\ \A k \in DOMAIN made.at : k < i <=> k \in LogBefore
        /\ LogBefore' = LogBefore \cup {i} /\ LogBefore \subseteq DOMAIN made.holds
    BY <1>1, <1>2, <1>3, <2>1, <2>2, JournalConstants DEF LogBefore
  <2>4. \A k \in DOMAIN made.at : page(k) = stage => pos' <= cell(k) \/ cell(k) + LogCells <= pos'
    BY <1>1, <1>3, <2>1, <2>2, JournalConstants
  <2>5. pos' \in Nat /\ pos <= pos'
    BY <1>1, <2>1, JournalConstants
  <2>6. Collected(mem, made.holds, LogBefore) /\ (aux = 0 => Complete(mem, made.holds, LogBefore))
    BY DEF LogOK
  <2>7. CASE mem' = Append(mem, made.holds[i]) /\ aux' = aux
    <3>1. Collected(mem', made.holds, LogBefore')
      <4>1. /\ DOMAIN made.holds \subseteq Nat /\ LogBefore \cup {i} \subseteq LogBefore'
            /\ LogBefore' \subseteq DOMAIN made.holds /\ \A k \in LogBefore : k < i
        BY <1>2, <2>3
      <4> QED BY <2>6, <2>7, <4>1, CollectNext
    <3>2. aux = 0 => Complete(mem', made.holds, LogBefore')
      <4>1. mem \in Seq({made.holds[k] : k \in LogBefore})
        BY <2>6 DEF Collected
      <4>2. i \in DOMAIN made.holds /\ i \notin LogBefore
        BY <1>2, <1>3, <2>3
      <4> QED BY <1>2, <2>3, <2>6, <2>7, <4>1, <4>2, CompleteNext
    <3> QED BY <1>1, <1>6, <1>7, <2>1, <2>4, <2>5, <2>7, <3>1, <3>2 DEF LogOK, Journals!FirstPage
  <2>8. CASE mem' = mem /\ aux' = aux + 1
    <3>1. Collected(mem', made.holds, LogBefore')
      BY <1>2, <2>3, <2>6, <2>8, CollectMore
    <3> QED BY <1>1, <1>6, <1>7, <2>1, <2>4, <2>5, <2>8, <3>1 DEF LogOK, Journals!FirstPage
  <2> QED BY <1>10, <2>2, <2>7, <2>8 DEF Journals!TakeOperation, Journals!Fault, Journals!NoFault
<1>11. CASE Journals!Commit
  <2>1. /\ UNCHANGED <<made, stage, pos, mem>> /\ stage > Len(pages)
        /\ \/ aux' = aux /\ out' = mem /\ done' = "eof"
           \/ aux' = aux + 1 /\ done' = "err"
    BY <1>11 DEF Journals!Commit, Journals!IsRead, Journals!Fault, Journals!NoFault, Journals!file
  <2>2. LogBefore' = LogBefore
    BY <2>1 DEF LogBefore
  <2> QED BY <2>1, <2>2 DEF LogOK
<1> QED BY <1>4, <1>5, <1>8, <1>9, <1>10, <1>11, LogActions DEF Journals!TooShort, Journals!NextPage, Journals!Retry,
          Journals!PassOver, Journals!TakeOperation, Journals!Commit

-----------------------------------------------------------------------------
(* The table of files. *)

LEMMA MftFacts ==
    ASSUME NEW m \in JournalFiles, m.file.kind = "mft"
    PROVE  m.file.rows = m.holds /\ Len(m.holds) \in Nat /\ DOMAIN m.holds = 1..Len(m.holds)
<1>1. m.holds \in Seq(STRING) /\ m.file.rows = m.holds
  BY DecoderAssumptions DEF Journals!JournalAssumption
<1> QED BY <1>1

LEMMA MftActions ==
    ASSUME made.file.kind = "mft", Journals!Next
    PROVE  Journals!InsertEntry \/ Journals!Commit
<1>1. ~Journals!In("usn") /\ ~Journals!In("evtx") /\ ~Journals!In("log")
  BY DEF Journals!In, Journals!file
<1> QED BY <1>1 DEF Journals!Next, Journals!EndOfJournal, Journals!SkipBlock, Journals!Resync, Journals!TakeRecord,
           Journals!TooShort, Journals!NextPage, Journals!Retry, Journals!PassOver, Journals!TakeOperation, Journals!OnPage,
           Journals!NotALog, Journals!NextChunk, Journals!NotAnEvent,
           Journals!InsertEvent, Journals!HasRecord, Journals!InChunks

LEMMA MftInit ==
    ASSUME Journals!Init, made.file.kind = "mft"
    PROVE  MftOK
<1>1. made \in JournalFiles /\ stage = 1 /\ pos = 1 /\ mem = <<>> /\ done = "no"
  BY DEF Journals!Init, Journals!file
<1>2. Len(made.holds) \in Nat /\ MftBefore = {}
  BY <1>1, MftFacts DEF MftBefore
<1>3. Collected(mem, made.holds, MftBefore)
  BY <1>1, <1>2 DEF Collected
<1>4. Complete(mem, made.holds, MftBefore)
  BY <1>1, <1>2 DEF Complete
<1> QED BY <1>1, <1>2, <1>3, <1>4 DEF MftOK

LEMMA MftStep ==
    ASSUME made \in JournalFiles, made.file.kind = "mft", MftOK, aux \in Nat, Journals!Next
    PROVE  MftOK' /\ made' = made
<1> DEFINE h == made.holds
<1>1. stage = 1 /\ pos \in 1..(Len(h) + 1)
  BY DEF MftOK
<1>2. made.file.rows = h /\ Len(h) \in Nat /\ DOMAIN h = 1..Len(h)
  BY MftFacts
<1>3. CASE Journals!InsertEntry
  <2>1. pos <= Len(h) /\ pos' = pos + 1 /\ UNCHANGED <<made, stage, out, done>> /\ done = "no"
        /\ \/ aux' = aux /\ mem' = Append(mem, h[pos])
           \/ aux' = aux + 1 /\ mem' = mem
    BY <1>2, <1>3 DEF Journals!InsertEntry, Journals!In, Journals!Fault, Journals!NoFault, Journals!file
  <2>2. pos \in DOMAIN h /\ pos' \in 1..(Len(h) + 1)
    <3> HIDE DEF h
    <3> QED BY <1>1, <1>2, <2>1
  <2>3. /\ MftBefore' = MftBefore \cup {pos} /\ pos \notin MftBefore /\ \A k \in MftBefore : k < pos
        /\ \A k \in DOMAIN h : k < pos => k \in MftBefore
        /\ DOMAIN h \subseteq Nat /\ MftBefore' \subseteq DOMAIN h
    <3> HIDE DEF h
    <3> QED BY <1>2, <2>1, <2>2 DEF MftBefore
  <2>4. Collected(mem, h, MftBefore) /\ (aux = 0 => Complete(mem, h, MftBefore))
    BY DEF MftOK
  <2>5. CASE aux' = aux /\ mem' = Append(mem, h[pos])
    <3>1. Collected(mem', h, MftBefore')
      <4> HIDE DEF h
      <4> QED BY <2>2, <2>3, <2>4, <2>5, CollectNext
    <3>2. aux = 0 => Complete(mem', h, MftBefore')
      <4>1. mem \in Seq({h[k] : k \in MftBefore})
        BY <2>4 DEF Collected
      <4> HIDE DEF h
      <4> QED BY <1>2, <2>2, <2>3, <2>4, <2>5, <4>1, CompleteNext
    <3> QED BY <1>1, <2>1, <2>2, <2>5, <3>1, <3>2 DEF MftOK
  <2>6. CASE aux' = aux + 1 /\ mem' = mem
    <3>1. MftBefore \subseteq MftBefore'
      BY <2>3
    <3>2. Collected(mem', h, MftBefore')
      <4> HIDE DEF h
      <4> QED BY <2>4, <2>6, <3>1, CollectMore
    <3> QED BY <1>1, <2>1, <2>2, <2>6, <3>2 DEF MftOK
  <2> QED BY <2>1, <2>5, <2>6
<1>4. CASE Journals!Commit
  <2>1. /\ UNCHANGED <<made, stage, pos, mem>> /\ pos > Len(h)
        /\ \/ aux' = aux /\ out' = mem /\ done' = "eof"
           \/ aux' = aux + 1 /\ done' = "err"
    BY <1>2, <1>4 DEF Journals!Commit, Journals!IsRead, Journals!Fault, Journals!NoFault, Journals!file
  <2>2. MftBefore' = MftBefore
    BY <2>1 DEF MftBefore
  <2> QED BY <2>1, <2>2 DEF MftOK
<1> QED BY <1>3, <1>4, MftActions DEF Journals!InsertEntry, Journals!Commit

-----------------------------------------------------------------------------
(* Event logs. *)

LEMMA EvtxFacts ==
    ASSUME NEW m \in JournalFiles, m.file.kind = "evtx"
    PROVE  LET chunks == m.file.chunks
           IN  /\ Len(chunks) \in Nat /\ DOMAIN chunks = 1..Len(chunks)
               /\ \A c \in DOMAIN chunks :
                    /\ Len(chunks[c].records) \in Nat /\ DOMAIN chunks[c].records = 1..Len(chunks[c].records)
                    /\ \A x \in DOMAIN chunks[c].records : chunks[c].records[x].no \in Nat
               /\ \A i \in DOMAIN m.holds : \E c \in DOMAIN chunks : \E x \in DOMAIN chunks[c].records :
                    chunks[c].ok /\ chunks[c].records[x].event /\ chunks[c].records[x].no = m.holds[i]
<1> DEFINE chunks == m.file.chunks
           R == [event : BOOLEAN, id : Nat, no : Nat]
           C == [ok : BOOLEAN, records : Seq(R)]
<1>1. Journals!IsEventLog(m)
  BY DecoderAssumptions DEF Journals!JournalAssumption
<1>2. chunks \in Seq(C)
  BY <1>1 DEF Journals!IsEventLog
<1>3. Len(chunks) \in Nat /\ DOMAIN chunks = 1..Len(chunks) /\ \A c \in DOMAIN chunks : chunks[c] \in C
  <2> HIDE DEF C, chunks
  <2> QED BY <1>2
<1>4. ASSUME NEW c \in DOMAIN chunks
      PROVE  /\ Len(chunks[c].records) \in Nat /\ DOMAIN chunks[c].records = 1..Len(chunks[c].records)
             /\ \A x \in DOMAIN chunks[c].records : chunks[c].records[x].no \in Nat
  <2> DEFINE s == chunks[c].records
  <2>1. s \in Seq(R)
    <3>1. \A y \in C : y.records \in Seq(R)
      <4> HIDE DEF R
      <4> QED OBVIOUS
    <3> HIDE DEF C, R, chunks
    <3> QED BY <1>3, <3>1
  <2>2. Len(s) \in Nat /\ DOMAIN s = 1..Len(s) /\ \A x \in DOMAIN s : s[x] \in R
    <3> HIDE DEF R, s
    <3> QED BY <2>1
  <2>3. \A y \in R : y.no \in Nat
    OBVIOUS
  <2>4. \A x \in DOMAIN s : s[x].no \in Nat
    <3> HIDE DEF R, s
    <3> QED BY <2>2, <2>3
  <2> QED BY <2>2, <2>4
<1>5. ASSUME NEW i \in DOMAIN m.holds
      PROVE  \E c \in DOMAIN chunks : \E x \in DOMAIN chunks[c].records :
               chunks[c].ok /\ chunks[c].records[x].event /\ chunks[c].records[x].no = m.holds[i]
  <2> DEFINE Events(c) == {r.no : r \in {y \in {c.records[x] : x \in DOMAIN c.records} : y.event}}
             Readable == {y \in {chunks[x] : x \in DOMAIN chunks} : y.ok}
  <2>1. m.holds[i] \in UNION {Events(c) : c \in Readable}
    BY <1>1 DEF Journals!IsEventLog, Journals!ToSet
  <2>2. PICK c \in Readable : m.holds[i] \in Events(c)
    <3> HIDE DEF Events, Readable
    <3> QED BY <2>1
  <2>3. PICK n \in DOMAIN chunks : chunks[n] = c /\ c.ok
    BY <2>2
  <2>4. PICK x \in DOMAIN c.records : c.records[x].event /\ m.holds[i] = c.records[x].no
    BY <2>2
  <2> QED BY <2>3, <2>4
<1> QED BY <1>3, <1>4, <1>5

LEMMA EvtxActions ==
    ASSUME made.file.kind = "evtx", Journals!Next
    PROVE  Journals!NotALog \/ Journals!NextChunk \/ Journals!NotAnEvent \/ Journals!InsertEvent \/ Journals!Commit
<1>1. ~Journals!In("usn") /\ ~Journals!In("mft") /\ ~Journals!In("log")
  BY DEF Journals!In, Journals!file
<1> QED BY <1>1 DEF Journals!Next, Journals!EndOfJournal, Journals!SkipBlock, Journals!Resync, Journals!TakeRecord,
           Journals!TooShort, Journals!NextPage, Journals!Retry, Journals!PassOver, Journals!TakeOperation, Journals!OnPage,
           Journals!InsertEntry

LEMMA EvtxInit ==
    ASSUME Journals!Init, made.file.kind = "evtx"
    PROVE  EvtxOK
<1>1. made \in JournalFiles /\ stage = 1 /\ pos = 1 /\ mem = <<>> /\ done = "no"
  BY DEF Journals!Init, Journals!file
<1>2. \A c \in DOMAIN made.file.chunks : c \in Nat \ {0} /\ \A x \in DOMAIN made.file.chunks[c].records : x \in Nat \ {0}
  BY <1>1, EvtxFacts
<1> QED BY <1>1, <1>2 DEF EvtxOK

\* The rows of an event: its own, and one more in a table that is another.
LEMMA EventAndRoute ==
    ASSUME NEW r, r.no \in Nat
    PROVE  /\ Journals!EventRow(r) = EventRow(r.no) /\ EventRow(r.no) \in EventRows
           /\ \/ Journals!Routed(r) = <<>>
              \/ \E row \in EventRows : Journals!Routed(r) = <<row>> /\ row.table # "evtx_events" /\ row.no = r.no
<1> DEFINE t == Journals!Route(r.id)
           row == [table |-> t, no |-> r.no]
<1>1. t \in EventTables \cup {""} /\ t # "evtx_events"
  BY DEF Journals!Route, EventTables
<1>2. Journals!Routed(r) = <<>> \/ (t \in EventTables /\ Journals!Routed(r) = <<row>>)
  <2> HIDE DEF t
  <2>1. Journals!Routed(r) = IF t = "" THEN <<>> ELSE <<[table |-> t, no |-> r.no]>>
    BY Zenon DEF Journals!Routed, t
  <2> QED BY <1>1, <2>1, Zenon
<1>3. row.table = t /\ row.no = r.no /\ (t \in EventTables => row \in EventRows) /\ t # "evtx_events"
  <2>1. t # "evtx_events"
    BY <1>1, Zenon
  <2> HIDE DEF t
  <2> QED BY <2>1 DEF EventRows
<1>4. Journals!EventRow(r) = EventRow(r.no) /\ EventRow(r.no) \in EventRows
  BY DEF Journals!EventRow, EventRow, EventRows, EventTables
<1> HIDE DEF row, t
<1> QED BY <1>2, <1>3, <1>4

\* What is stored for an event keeps the rows of tables behind their events.
LEMMA StoreKeeps ==
    ASSUME aux \in Nat, mem \in Seq(EventRows), NEW r, r.no \in Nat, Journals!Store(r),
           \A x \in DOMAIN mem : mem[x].table # "evtx_events" => x > 1 /\ mem[x - 1] = EventRow(mem[x].no)
    PROVE  /\ mem' \in Seq(EventRows) /\ Len(mem') >= Len(mem) /\ \A x \in DOMAIN mem : x \in DOMAIN mem' /\ mem'[x] = mem[x]
           /\ \A x \in DOMAIN mem' : mem'[x].table # "evtx_events" => x > 1 /\ mem'[x - 1] = EventRow(mem'[x].no)
           /\ aux' = aux => \E x \in DOMAIN mem' : mem'[x] = EventRow(r.no)
           /\ aux' = aux \/ aux' = aux + 1
<1> DEFINE e == EventRow(r.no)
           n == Len(mem)
<1>1. n \in Nat /\ DOMAIN mem = 1..n
  OBVIOUS
<1>2. e \in EventRows /\ e.table = "evtx_events"
  BY EventAndRoute DEF EventRow
<1>3. CASE mem' = mem /\ aux' = aux + 1
  BY <1>1, <1>3
<1>4. ASSUME mem' = Append(mem, e)
      PROVE  /\ mem' \in Seq(EventRows) /\ Len(mem') >= n /\ \A x \in DOMAIN mem : x \in DOMAIN mem' /\ mem'[x] = mem[x]
             /\ \A x \in DOMAIN mem' : mem'[x].table # "evtx_events" => x > 1 /\ mem'[x - 1] = EventRow(mem'[x].no)
             /\ \E x \in DOMAIN mem' : mem'[x] = e
  <2> HIDE DEF e
  <2>1. mem' \in Seq(EventRows) /\ Len(mem') = n + 1 /\ DOMAIN mem' = 1..(n + 1) /\ mem'[n + 1] = e /\ \A x \in 1..n : mem'[x] = mem[x]
    BY <1>2, <1>4
  <2>2. ASSUME NEW x \in DOMAIN mem', mem'[x].table # "evtx_events"
        PROVE  x > 1 /\ mem'[x - 1] = EventRow(mem'[x].no)
    <3>1. x \in 1..n
      BY <1>1, <1>2, <2>1, <2>2
    <3>2. mem'[x] = mem[x] /\ x > 1 /\ mem[x - 1] = EventRow(mem[x].no) /\ x - 1 \in 1..n
      BY <1>1, <2>1, <2>2, <3>1
    <3> QED BY <2>1, <3>2
  <2>3. n + 1 \in DOMAIN mem'
    BY <1>1, <2>1
  <2> QED BY <1>1, <2>1, <2>2, <2>3
<1>5. ASSUME NEW row \in EventRows, row.table # "evtx_events", row.no = r.no, mem' = Append(mem, e) \o <<row>>
      PROVE  /\ mem' \in Seq(EventRows) /\ Len(mem') >= n /\ \A x \in DOMAIN mem : x \in DOMAIN mem' /\ mem'[x] = mem[x]
             /\ \A x \in DOMAIN mem' : mem'[x].table # "evtx_events" => x > 1 /\ mem'[x - 1] = EventRow(mem'[x].no)
             /\ \E x \in DOMAIN mem' : mem'[x] = e
  <2> HIDE DEF e
  <2>1. /\ mem' \in Seq(EventRows) /\ Len(mem') = n + 2 /\ DOMAIN mem' = 1..(n + 2) /\ mem'[n + 1] = e /\ mem'[n + 2] = row
        /\ \A x \in 1..n : mem'[x] = mem[x]
    BY <1>2, <1>5
  <2>2. ASSUME NEW x \in DOMAIN mem', mem'[x].table # "evtx_events"
        PROVE  x > 1 /\ mem'[x - 1] = EventRow(mem'[x].no)
    <3>1. CASE x \in 1..n
      <4>1. mem'[x] = mem[x] /\ x > 1 /\ mem[x - 1] = EventRow(mem[x].no) /\ x - 1 \in 1..n
        BY <1>1, <2>1, <2>2, <3>1
      <4> QED BY <2>1, <4>1
    <3>2. CASE x = n + 2
      <4>1. x - 1 = n + 1 /\ x > 1
        BY <1>1, <3>2
      <4>2. mem'[x] = row /\ mem'[x - 1] = e
        BY <2>1, <3>2, <4>1
      <4> QED BY <1>5, <4>1, <4>2 DEF e
    <3> QED BY <1>1, <1>2, <2>1, <2>2, <3>1, <3>2
  <2>3. n + 1 \in DOMAIN mem'
    BY <1>1, <2>1
  <2> QED BY <1>1, <2>1, <2>2, <2>3
<1>6. CASE aux' = aux /\ mem' = Append(mem, e) \o Journals!Routed(r)
  <2>1. CASE Journals!Routed(r) = <<>>
    <3>1. mem' = Append(mem, e)
      <4>1. Append(mem, e) \in Seq(EventRows)
        BY <1>2
      <4> HIDE DEF e
      <4> QED BY <1>6, <2>1, <4>1
    <3> QED BY <1>4, <1>6, <3>1
  <2>2. CASE \E row \in EventRows : Journals!Routed(r) = <<row>> /\ row.table # "evtx_events" /\ row.no = r.no
    BY <1>5, <1>6, <2>2
  <2> QED BY <2>1, <2>2, EventAndRoute
<1>7. CASE aux' = aux + 1 /\ mem' = Append(mem, e)
  BY <1>4, <1>7
<1>8. Journals!EventRow(r) = e
  BY EventAndRoute
<1> QED BY <1>3, <1>6, <1>7, <1>8 DEF Journals!Store, Journals!Fault, Journals!NoFault

LEMMA EvtxStep ==
    ASSUME made \in JournalFiles, made.file.kind = "evtx", EvtxOK, aux \in Nat, Journals!Next
    PROVE  EvtxOK' /\ made' = made
<1> DEFINE chunks == made.file.chunks
           Stored(s) == \A x \in DOMAIN s : s[x].table # "evtx_events" => x > 1 /\ s[x - 1] = EventRow(s[x].no)
           Found(a, s, n, p) == a = 0 => \A c \in DOMAIN chunks : \A x \in DOMAIN chunks[c].records :
             LET r == chunks[c].records[x]
             IN chunks[c].ok /\ r.event /\ (c < n \/ (c = n /\ x < p)) => \E y \in DOMAIN s : s[y] = EventRow(r.no)
<1>1. /\ stage \in Nat \ {0} /\ pos \in Nat \ {0} /\ mem \in Seq(EventRows)
      /\ Stored(mem) /\ Found(aux, mem, stage, pos)
      /\ done = "eof" => stage > Len(chunks)
  BY DEF EvtxOK
<1>2. made' = made => (EvtxOK' <=>
        /\ stage' \in Nat \ {0} /\ pos' \in Nat \ {0} /\ mem' \in Seq(EventRows)
        /\ Stored(mem') /\ Found(aux', mem', stage', pos')
        /\ done' = "eof" => stage' > Len(chunks))
  BY DEF EvtxOK
<1>3. /\ Len(chunks) \in Nat /\ DOMAIN chunks = 1..Len(chunks)
      /\ \A c \in DOMAIN chunks : DOMAIN chunks[c].records = 1..Len(chunks[c].records) /\ Len(chunks[c].records) \in Nat
      /\ \A c \in DOMAIN chunks : \A x \in DOMAIN chunks[c].records : chunks[c].records[x].no \in Nat
  <2>1. Len(chunks) \in Nat /\ DOMAIN chunks = 1..Len(chunks)
    BY EvtxFacts
  <2>2. \A c \in DOMAIN chunks : DOMAIN chunks[c].records = 1..Len(chunks[c].records) /\ Len(chunks[c].records) \in Nat
    BY EvtxFacts
  <2>3. \A c \in DOMAIN chunks : \A x \in DOMAIN chunks[c].records : chunks[c].records[x].no \in Nat
    BY EvtxFacts
  <2> QED BY <2>1, <2>2, <2>3
<1>4. CASE Journals!NotALog
  <2>1. UNCHANGED <<made, stage, pos, mem, aux, out>> /\ done' = "err"
    BY <1>4 DEF Journals!NotALog
  <2> HIDE DEF Stored, Found
  <2> QED BY <1>1, <1>2, <2>1
<1>5. CASE Journals!NextChunk
  <2>1. /\ stage \in DOMAIN chunks /\ stage' = stage + 1 /\ pos' = 1 /\ UNCHANGED <<made, mem, aux, out, done>>
        /\ done = "no"
        /\ ~(chunks[stage].ok /\ pos <= Len(chunks[stage].records))
    BY <1>1, <1>3, <1>5 DEF Journals!NextChunk, Journals!HasRecord, Journals!InChunks, Journals!In, Journals!file
  <2>2. Found(aux, mem, stage + 1, 1)
    <3>1. SUFFICES ASSUME aux = 0, NEW c \in DOMAIN chunks, NEW x \in DOMAIN chunks[c].records,
                          chunks[c].ok, chunks[c].records[x].event, c < stage + 1 \/ (c = stage + 1 /\ x < 1)
                   PROVE  \E y \in DOMAIN mem : mem[y] = EventRow(chunks[c].records[x].no)
      OBVIOUS
    <3>2. c \in Nat /\ x \in 1..Len(chunks[c].records) /\ Len(chunks[c].records) \in Nat
      BY <1>3
    <3>3. c < stage \/ (c = stage /\ x < pos)
      <4>1. CASE c = stage
        <5>1. ~(pos <= Len(chunks[c].records))
          BY <2>1, <3>1, <4>1
        <5> HIDE DEF chunks
        <5> QED BY <1>1, <3>2, <4>1, <5>1
      <4>2. CASE c # stage
        BY <1>1, <3>1, <3>2, <4>2
      <4> QED BY <4>1, <4>2
    <3> QED BY <1>1, <3>1, <3>3
  <2>3. stage' \in Nat \ {0} /\ pos' \in Nat \ {0} /\ mem' \in Seq(EventRows) /\ Stored(mem') /\ done' # "eof"
    <3> HIDE DEF Stored
    <3> QED BY <1>1, <2>1
  <2>4. Found(aux', mem', stage', pos')
    <3> HIDE DEF Found
    <3> QED BY <2>1, <2>2
  <2> HIDE DEF Stored, Found
  <2> QED BY <1>2, <2>1, <2>3, <2>4
<1>6. ASSUME Journals!HasRecord
      PROVE  /\ stage \in DOMAIN chunks /\ pos \in DOMAIN chunks[stage].records /\ done = "no"
             /\ Journals!Record = chunks[stage].records[pos] /\ Journals!Record.no \in Nat
  <2>1. stage \in DOMAIN chunks /\ done = "no" /\ pos <= Len(chunks[stage].records)
    BY <1>1, <1>3, <1>6 DEF Journals!HasRecord, Journals!InChunks, Journals!In, Journals!file
  <2>2. pos \in DOMAIN chunks[stage].records
    <3>1. DOMAIN chunks[stage].records = 1..Len(chunks[stage].records) /\ Len(chunks[stage].records) \in Nat
      BY <1>3, <2>1
    <3> HIDE DEF chunks
    <3> QED BY <1>1, <2>1, <3>1
  <2>3. Journals!Record = chunks[stage].records[pos]
    BY DEF Journals!Record, Journals!file
  <2> QED BY <1>3, <2>1, <2>2, <2>3
\* Past one more record: its event must be there.
<1>7. ASSUME Journals!HasRecord, NEW a, NEW s, a = 0 => aux = 0,
             \A y \in DOMAIN mem : y \in DOMAIN s /\ s[y] = mem[y],
             a = 0 /\ Journals!Record.event => \E y \in DOMAIN s : s[y] = EventRow(Journals!Record.no)
      PROVE  Found(a, s, stage, pos + 1)
  <2>1. SUFFICES ASSUME a = 0, NEW c \in DOMAIN chunks, NEW x \in DOMAIN chunks[c].records,
                        chunks[c].ok, chunks[c].records[x].event, c < stage \/ (c = stage /\ x < pos + 1)
                 PROVE  \E y \in DOMAIN s : s[y] = EventRow(chunks[c].records[x].no)
    OBVIOUS
  <2>2. CASE c = stage /\ x = pos
    BY <1>6, <1>7, <2>1, <2>2
  <2>3. CASE ~(c = stage /\ x = pos)
    <3>1. x \in Nat
      BY <1>3
    <3>2. c < stage \/ (c = stage /\ x < pos)
      BY <1>1, <2>1, <2>3, <3>1
    <3>3. \E y \in DOMAIN mem : mem[y] = EventRow(chunks[c].records[x].no)
      BY <1>1, <1>7, <2>1, <3>2
    <3> QED BY <1>7, <3>3
  <2> QED BY <2>2, <2>3
<1>8. CASE Journals!NotAnEvent
  <2>1. Journals!HasRecord /\ ~Journals!Record.event /\ pos' = pos + 1 /\ UNCHANGED <<made, stage, mem, aux, out, done>>
    BY <1>8 DEF Journals!NotAnEvent
  <2>2. Found(aux, mem, stage, pos + 1)
    <3> HIDE DEF Found
    <3> QED BY <1>7, <2>1
  <2>3. stage' \in Nat \ {0} /\ pos' \in Nat \ {0} /\ mem' \in Seq(EventRows) /\ Stored(mem') /\ done' # "eof"
    <3> HIDE DEF Stored
    <3> QED BY <1>1, <1>6, <2>1
  <2>4. Found(aux', mem', stage', pos')
    <3> HIDE DEF Found
    <3> QED BY <2>1, <2>2
  <2> HIDE DEF Stored, Found
  <2> QED BY <1>2, <2>1, <2>3, <2>4
<1>9. CASE Journals!InsertEvent
  <2>1. /\ Journals!HasRecord /\ Journals!Record.event /\ Journals!Store(Journals!Record) /\ pos' = pos + 1
        /\ UNCHANGED <<made, stage, out, done>>
    BY <1>9 DEF Journals!InsertEvent
  <2>2. Journals!Record.no \in Nat /\ done = "no"
    BY <1>6, <2>1
  <2>3. \A x \in DOMAIN mem : mem[x].table # "evtx_events" => x > 1 /\ mem[x - 1] = EventRow(mem[x].no)
    BY <1>1
  <2>4. /\ mem' \in Seq(EventRows) /\ \A x \in DOMAIN mem : x \in DOMAIN mem' /\ mem'[x] = mem[x]
        /\ \A x \in DOMAIN mem' : mem'[x].table # "evtx_events" => x > 1 /\ mem'[x - 1] = EventRow(mem'[x].no)
        /\ aux' = aux => \E x \in DOMAIN mem' : mem'[x] = EventRow(Journals!Record.no)
        /\ aux' = aux \/ aux' = aux + 1
    BY <1>1, <2>1, <2>2, <2>3, StoreKeeps
  <2>5. Found(aux', mem', stage, pos + 1)
    <3>1. aux' = 0 => aux' = aux /\ aux = 0
      BY <2>4
    <3> HIDE DEF Found
    <3> QED BY <1>7, <2>1, <2>4, <3>1
  <2>6. Stored(mem')
    BY <2>4
  <2>7. stage' \in Nat \ {0} /\ pos' \in Nat \ {0} /\ done' # "eof"
    BY <1>1, <2>1, <2>2
  <2>8. Found(aux', mem', stage', pos')
    <3> HIDE DEF Found
    <3> QED BY <2>1, <2>5
  <2> HIDE DEF Stored, Found
  <2> QED BY <1>2, <2>1, <2>4, <2>6, <2>7, <2>8
<1>10. CASE Journals!Commit
  <2>1. /\ UNCHANGED <<made, stage, pos, mem>> /\ stage > Len(chunks)
        /\ aux' = aux \/ aux' = aux + 1
    BY <1>10 DEF Journals!Commit, Journals!IsRead, Journals!Fault, Journals!NoFault, Journals!file
  <2>2. Found(aux', mem', stage', pos')
    <3>1. aux' = 0 => aux = 0
      BY <2>1
    <3>2. Found(aux', mem, stage, pos)
      BY <1>1, <3>1
    <3> HIDE DEF Found
    <3> QED BY <2>1, <3>2
  <2>3. Stored(mem')
    <3> HIDE DEF Stored
    <3> QED BY <1>1, <2>1
  <2> HIDE DEF Stored, Found
  <2> QED BY <1>1, <1>2, <2>1, <2>2, <2>3
<1> QED BY <1>4, <1>5, <1>8, <1>9, <1>10, EvtxActions DEF Journals!NotALog, Journals!NextChunk, Journals!NotAnEvent,
          Journals!InsertEvent, Journals!Commit

-----------------------------------------------------------------------------
(* The theorem. *)

LEMMA JournalKinds ==
    ASSUME NEW m \in JournalFiles
    PROVE  m.file.kind \in {"usn", "log", "evtx", "mft"}
BY DecoderAssumptions DEF Journals!JournalAssumption

LEMMA JournalInit ==
    ASSUME Journals!Init
    PROVE  JournalOK
<1>1. made \in JournalFiles /\ aux = 0 /\ done = "no" /\ 0 \in 0..MaxRowFaults
  BY JournalConstants DEF Journals!Init
<1> QED BY <1>1, UsnInit, LogInit, MftInit, EvtxInit DEF JournalOK

LEMMA JournalStep ==
    ASSUME JournalOK, Journals!Next
    PROVE  JournalOK'
<1>1. made \in JournalFiles /\ aux \in 0..MaxRowFaults /\ aux \in Nat /\ done \in {"no", "eof", "err"}
  BY JournalConstants DEF JournalOK
<1>2. made' = made /\ (made.file.kind = "usn" => UsnOK') /\ (made.file.kind = "log" => LogOK')
      /\ (made.file.kind = "mft" => MftOK') /\ (made.file.kind = "evtx" => EvtxOK')
  BY <1>1, JournalKinds, UsnStep, LogStep, MftStep, EvtxStep DEF JournalOK
<1>3. aux' = aux \/ (aux < MaxRowFaults /\ aux' = aux + 1)
  BY DEF Journals!Next, Journals!EndOfJournal, Journals!SkipBlock, Journals!Resync, Journals!TakeRecord,
         Journals!TooShort, Journals!NextPage, Journals!Retry, Journals!PassOver, Journals!TakeOperation,
         Journals!NotALog, Journals!NextChunk, Journals!NotAnEvent, Journals!InsertEvent, Journals!InsertEntry,
         Journals!Commit, Journals!Store, Journals!Fault, Journals!NoFault
<1>4. done' \in {"no", "eof", "err"}
  BY <1>1 DEF Journals!Next, Journals!EndOfJournal, Journals!SkipBlock, Journals!Resync, Journals!TakeRecord,
         Journals!TooShort, Journals!NextPage, Journals!Retry, Journals!PassOver, Journals!TakeOperation,
         Journals!NotALog, Journals!NextChunk, Journals!NotAnEvent, Journals!InsertEvent, Journals!InsertEntry,
         Journals!Commit
<1>5. aux' \in 0..MaxRowFaults
  BY <1>1, <1>3, JournalConstants
<1> QED BY <1>1, <1>2, <1>4, <1>5 DEF JournalOK

LEMMA JournalStutter ==
    ASSUME JournalOK, UNCHANGED Journals!vars
    PROVE  JournalOK'
BY DEF JournalOK, Journals!vars, UsnOK, UsnBefore, LogOK, LogBefore, MftOK, MftBefore, EvtxOK

\* What was collected is a part in order.
LEMMA CollectedIsOrder ==
    ASSUME NEW s, NEW all, NEW B, B \subseteq DOMAIN all, Collected(s, all, B)
    PROVE  Journals!Order(s, all)
<1>1. s \in Seq({all[k] : k \in B}) /\ \A x \in DOMAIN s : s[x] \in {all[k] : k \in B}
  BY DEF Collected
<1>2. Journals!ToSet(s) \subseteq Journals!ToSet(all)
  BY <1>1 DEF Journals!ToSet
<1> QED BY <1>2 DEF Collected, Journals!Order

\* Everything is the whole.
LEMMA CompleteIsWhole ==
    ASSUME NEW S, NEW s \in Seq(S), NEW T, NEW all \in Seq(T), Complete(s, all, DOMAIN all)
    PROVE  s = all
<1>1. Len(s) \in Nat /\ Len(all) \in Nat /\ DOMAIN all = 1..Len(all)
  OBVIOUS
<1>2. Len(s) = Len(all)
  BY <1>1 DEF Complete
<1> QED BY <1>1, <1>2 DEF Complete

LEMMA JournalSafe ==
    ASSUME JournalOK
    PROVE  Journals!RecordsSurviveDamage
<1>1. made \in JournalFiles /\ made.file.kind \in {"usn", "log", "evtx", "mft"}
  BY JournalKinds DEF JournalOK
<1>2. CASE made.file.kind = "usn"
  <2>1. UsnOK
    BY <1>2 DEF JournalOK
  <2>2. UsnBefore \subseteq DOMAIN made.holds
    BY <1>1, <1>2, UsnFacts DEF UsnBefore
  <2>3. Journals!Order(out, made.holds)
    BY <2>1, <2>2, CollectedIsOrder DEF UsnOK
  <2>4. ASSUME done = "eof", aux = 0, NEW i \in Journals!Whole(made)
        PROVE  made.holds[i] \in Journals!ToSet(out)
    BY <2>1, <2>4 DEF UsnOK, Journals!ToSet
  <2> QED BY <1>2, <2>3, <2>4 DEF Journals!RecordsSurviveDamage, Journals!JournalSurvives, Journals!file
<1>3. CASE made.file.kind = "evtx"
  <2>1. EvtxOK
    BY <1>3 DEF JournalOK
  <2>2. \A x \in DOMAIN mem : mem[x].table # "evtx_events" =>
          x > 1 /\ mem[x - 1] = [table |-> "evtx_events", no |-> mem[x].no]
    BY <2>1 DEF EvtxOK, EventRow
  <2>3. ASSUME done = "eof", aux = 0, NEW i \in DOMAIN made.holds
        PROVE  [table |-> "evtx_events", no |-> made.holds[i]] \in Journals!ToSet(mem)
    <3>1. PICK c \in DOMAIN made.file.chunks : \E x \in DOMAIN made.file.chunks[c].records :
            LET r == made.file.chunks[c].records[x] IN made.file.chunks[c].ok /\ r.event /\ r.no = made.holds[i]
      BY <1>1, <1>3, EvtxFacts
    <3>2. c < stage
      BY <1>1, <1>3, <2>1, <2>3, EvtxFacts DEF EvtxOK
    <3>3. \E y \in DOMAIN mem : mem[y] = EventRow(made.holds[i])
      BY <2>1, <2>3, <3>1, <3>2 DEF EvtxOK
    <3> QED BY <3>3 DEF EventRow, Journals!ToSet
  <2>4. ASSUME done = "eof", NEW no \in Journals!ToSet(made.holds)
        PROVE  aux > 0 \/ [table |-> "evtx_events", no |-> no] \in Journals!ToSet(mem)
    <3>1. aux > 0 \/ aux = 0
      BY JournalConstants DEF JournalOK
    <3> QED BY <2>3, <2>4, <3>1 DEF Journals!ToSet
  <2> QED BY <1>3, <2>2, <2>4 DEF Journals!RecordsSurviveDamage, Journals!EventsSurvive, Journals!file
<1>4. ASSUME made.file.kind \in {"log", "mft"}, done = "eof"
      PROVE  IF aux = 0 THEN out = made.holds ELSE Journals!Order(out, made.holds)
  <2>1. PICK B : /\ B \subseteq DOMAIN made.holds /\ Collected(mem, made.holds, B) /\ out = mem
                 /\ aux = 0 => B = DOMAIN made.holds /\ Complete(mem, made.holds, B)
    <3>1. CASE made.file.kind = "log"
      <4>1. LogOK
        BY <3>1 DEF JournalOK
      <4>2. \A k \in DOMAIN made.at : made.at[k].page \in 3..Len(made.file.pages)
        BY <1>1, <3>1, LogFacts
      <4>3. DOMAIN made.at = DOMAIN made.holds /\ Len(made.file.pages) \in Nat
        BY <1>1, <3>1, LogFacts
      <4>4. LogBefore = DOMAIN made.holds
        BY <1>4, <4>1, <4>2, <4>3 DEF LogBefore, LogOK
      <4> QED BY <1>4, <4>1, <4>4 DEF LogOK
    <3>2. CASE made.file.kind = "mft"
      <4>1. MftOK
        BY <3>2 DEF JournalOK
      <4>2. MftBefore = DOMAIN made.holds
        BY <1>1, <1>4, <3>2, <4>1, MftFacts DEF MftBefore, MftOK
      <4> QED BY <1>4, <4>1, <4>2 DEF MftOK
    <3> QED BY <1>4, <3>1, <3>2
  <2>2. CASE aux = 0
    <3>1. \E T : made.holds \in Seq(T)
      <4>1. CASE made.file.kind = "log"
        BY <1>1, <4>1, DecoderAssumptions DEF Journals!JournalAssumption, Journals!IsLog
      <4>2. CASE made.file.kind = "mft"
        BY <1>1, <4>2, DecoderAssumptions DEF Journals!JournalAssumption
      <4> QED BY <1>4, <4>1, <4>2
    <3>2. mem \in Seq({made.holds[k] : k \in B})
      BY <2>1 DEF Collected
    <3>3. mem = made.holds
      BY <2>1, <2>2, <3>1, <3>2, CompleteIsWhole
    <3> QED BY <2>1, <2>2, <3>3
  <2>3. CASE aux # 0
    BY <2>1, <2>3, CollectedIsOrder
  <2> QED BY <2>2, <2>3
<1> QED BY <1>1, <1>2, <1>3, <1>4 DEF Journals!RecordsSurviveDamage, Journals!file

\* Whatever insert fails, and whatever heads of records are damaged: no row is made twice or out
\* of order, and none of what was not written. If none fails, every record of a journal has its
\* row but those of a page that damage is in or that a damaged length reaches into, which
\* usnjrnl.go:111 believes when it fits the file; so have those of the pages of a log with a
\* signature, and the events of the chunks that can be parsed.
THEOREM RecordsSurvive == Spec => []RecordsSurviveDamage
<1> DEFINE Inv == job = "journals" => JournalOK
<1>1. Init => Inv
  BY JournalInit DEF Init
<1>2. Inv /\ [Next \/ Stopped]_vars => Inv'
  BY JournalSteps, JournalStep, JournalStutter
<1>3. Inv => RecordsSurviveDamage
  BY JournalSafe DEF RecordsSurviveDamage
<1> QED BY <1>1, <1>2, <1>3, PTL DEF Spec

-----------------------------------------------------------------------------
(* The rule engines. *)

\* The rows that the statements of a rule select.
Selected(m, i) ==
  LET rule == m.file.rules[i]
  IN IF m.file.engine = "sigma"
     THEN IF Rules!Refused(rule) THEN {} ELSE {row \in m.file.rows : Rules!Meets(rule, row)}
     ELSE IF Rules!Strings(rule) = <<>> THEN {}
     ELSE {row \in m.file.rows : row.table \in Rules!TargetsOf(rule) /\ Rules!HasStrings(rule, row)}
HitOf(m, i, row) == [by |-> m.file.engine, rule |-> i, row |-> row.no]

\* The statement that could hit this row has been run.
IsPast(i, row) ==
  i < pos \/ (i = pos /\ mem # {} /\ row.table \in Rules!TargetsOf(made.file.rules[i]) \ mem)

\* The engine's own hits are of rows that the statements run so far have selected.
OwnHits ==
  /\ \A h \in DOMAIN out : h.by = made.file.engine =>
       out[h] = 1 /\ \E i \in DOMAIN made.file.rules : \E row \in Selected(made, i) : IsPast(i, row) /\ h = HitOf(made, i, row)
  /\ aux = 0 => \A i \in DOMAIN made.file.rules : \A row \in Selected(made, i) :
                  IsPast(i, row) => HitOf(made, i, row) \in DOMAIN out

EngineOK ==
  /\ made \in RuleSets /\ stage \in {"clear", "run"} /\ pos \in Nat \ {0}
  /\ aux \in 0..MaxRowFaults /\ done \in {"no", "eof", "err"}
  /\ Rules!IsTable(out) /\ Rules!Others(made.file.engine, out) = Rules!Others(made.file.engine, made.file.before)
  /\ mem # {} => /\ pos \in DOMAIN made.file.rules /\ made.file.engine = "yaralite"
                 /\ Rules!Strings(made.file.rules[pos]) # <<>> /\ mem \subseteq Rules!TargetsOf(made.file.rules[pos])
  /\ stage = "clear" => pos = 1 /\ mem = {}
  /\ stage = "run" => OwnHits
  /\ done = "eof" => stage = "run" /\ pos > Len(made.file.rules)

\* What the steps of a case have to do with rules.
LEMMA RuleSteps ==
    ASSUME [Next \/ Stopped]_vars
    PROVE  job' = job /\ (job = "rules" => Rules!Next \/ UNCHANGED Rules!vars)
BY DEF Next, Stopped, Reads, vars, shared, Rules!vars

LEMMA RuleFacts ==
    ASSUME NEW m \in RuleSets
    PROVE  /\ Len(m.file.rules) \in Nat /\ DOMAIN m.file.rules = 1..Len(m.file.rules)
           /\ Rules!IsTable(m.file.before)
           /\ \A r, q \in m.file.rows : r.no = q.no => r = q
<1>1. m.file.rules \in Seq(Rules!ToSet(m.file.rules))
  BY DecoderAssumptions DEF Rules!RuleAssumption
<1>2. Len(m.file.rules) \in Nat /\ DOMAIN m.file.rules = 1..Len(m.file.rules)
  <2> DEFINE S == Rules!ToSet(m.file.rules)
  <2>1. m.file.rules \in Seq(S)
    BY <1>1
  <2> HIDE DEF S
  <2> QED BY <2>1
<1> QED BY <1>2, DecoderAssumptions DEF Rules!RuleAssumption

LEMMA RuleFaults == MaxRowFaults \in Nat
BY DecoderAssumptions DEF Rules!RuleAssumption

\* A statement that adds hits of its own engine leaves the others as they are.
AllOf(engine, hits) == \A h \in hits : h.by = engine
Grown(engine, table, hits, more) ==
  /\ Rules!IsTable(more) /\ DOMAIN more = DOMAIN table \cup hits
  /\ Rules!Others(engine, more) = Rules!Others(engine, table)
  /\ \A h \in DOMAIN table \ hits : more[h] = table[h]
  /\ \A h \in hits \ DOMAIN table : more[h] = 1

LEMMA Adding ==
    ASSUME NEW table, Rules!IsTable(table), NEW engine, NEW hits, AllOf(engine, hits)
    PROVE  Grown(engine, table, hits, Rules!Added(table, hits))
<1> DEFINE more == Rules!Added(table, hits)
<1>1. \A h \in DOMAIN table : table[h] \in Nat \ {0}
  BY DEF Rules!IsTable
<1>2. /\ DOMAIN more = DOMAIN table \cup hits
      /\ \A h \in DOMAIN table \ hits : more[h] = table[h]
      /\ \A h \in hits \ DOMAIN table : more[h] = 1
      /\ \A h \in hits \cap DOMAIN table : more[h] = table[h] + 1
  BY <1>1 DEF Rules!Added, Rules!Copies
<1>3. Rules!IsTable(more)
  <2>1. \A h \in DOMAIN more : more[h] \in Nat \ {0}
    BY <1>1, <1>2
  <2>2. more = [h \in DOMAIN more |-> more[h]]
    BY DEF Rules!Added
  <2> QED BY <2>1, <2>2 DEF Rules!IsTable
<1>4. Rules!Others(engine, more) = Rules!Others(engine, table)
  <2>1. {x \in DOMAIN more : x.by # engine} = {x \in DOMAIN table : x.by # engine}
    BY <1>2 DEF AllOf
  <2>2. \A x \in {y \in DOMAIN table : y.by # engine} : more[x] = table[x]
    BY <1>2 DEF AllOf
  <2> HIDE DEF more
  <2> QED BY <2>1, <2>2 DEF Rules!Others
<1> QED BY <1>2, <1>3, <1>4 DEF Grown

LEMMA RulesInit == ASSUME Rules!Init PROVE EngineOK
<1>1. made \in RuleSets /\ Rules!IsTable(made.file.before) /\ MaxRowFaults \in Nat
  BY RuleFacts, RuleFaults DEF Rules!Init
<1> QED BY <1>1 DEF Rules!Init, EngineOK

\* The DELETE leaves nothing of the engine's own.
LEMMA Clearing ==
    ASSUME EngineOK, Rules!Clear
    PROVE  EngineOK'
<1>1. made' = made /\ pos' = 1 /\ mem' = {} /\ aux' = aux /\ stage' = "run" /\ done' = "no" /\ out' = Rules!Others(made.file.engine, out)
  BY DEF Rules!Clear, EngineOK, Rules!file
<1>2. DOMAIN out' = {x \in DOMAIN out : x.by # made.file.engine} /\ \A h \in DOMAIN out' : out'[h] = out[h]
  BY <1>1 DEF Rules!Others, Rules!file
<1>3. Rules!IsTable(out')
  <2>1. \A h \in DOMAIN out' : out'[h] \in Nat \ {0}
    BY <1>2 DEF EngineOK, Rules!IsTable
  <2>2. out' = [h \in DOMAIN out' |-> out'[h]]
    BY <1>1 DEF Rules!Others
  <2> QED BY <2>1, <2>2 DEF Rules!IsTable
<1>4. Rules!Others(made.file.engine, out)' = Rules!Others(made.file.engine, out)
  BY <1>1, <1>2 DEF Rules!Others, Rules!file
<1>5. OwnHits'
  <2>1. \A i \in DOMAIN made.file.rules : \A row : ~IsPast(i, row)'
    BY <1>1, RuleFacts DEF IsPast, EngineOK
  <2> QED BY <1>1, <1>2, <2>1 DEF OwnHits
<1>6. Rules!Others(made.file.engine, made.file.before)' = Rules!Others(made.file.engine, made.file.before)
  BY <1>1 DEF Rules!Others, Rules!file
<1> QED BY <1>1, <1>3, <1>4, <1>5, <1>6 DEF EngineOK

\* A statement that is run for the first time adds hits of its own, or fails and is counted.
LEMMA Inserting ==
    ASSUME EngineOK, stage = "run", pos \in DOMAIN made.file.rules,
           NEW rows, rows \subseteq Selected(made, pos), \A row \in rows : ~IsPast(pos, row),
           Rules!Insert(rows), made' = made,
           \A i \in DOMAIN made.file.rules : \A row \in Selected(made, i) :
              IsPast(i, row)' <=> (IsPast(i, row) \/ (i = pos /\ row \in rows))
    PROVE  /\ OwnHits' /\ Rules!IsTable(out') /\ aux' \in 0..MaxRowFaults
           /\ Rules!Others(made.file.engine, out)' = Rules!Others(made.file.engine, made.file.before)'
<1> DEFINE hits == {HitOf(made, pos, row) : row \in rows}
<1>0. made \in RuleSets /\ OwnHits /\ aux \in Nat /\ aux \in 0..MaxRowFaults /\ MaxRowFaults \in Nat
  BY RuleFaults DEF EngineOK
<1>1. Rules!Others(made.file.engine, made.file.before)' = Rules!Others(made.file.engine, made.file.before) /\ Rules!Others(made.file.engine, out) = Rules!Others(made.file.engine, made.file.before)
  BY DEF EngineOK, Rules!Others, Rules!file
<1>2. \A i \in DOMAIN made.file.rules : Selected(made, i)' = Selected(made, i)
  BY DEF Selected
<1>3. \A i \in DOMAIN made.file.rules : Selected(made, i) \subseteq made.file.rows
  BY DEF Selected
<1>4. ASSUME NEW i \in DOMAIN made.file.rules, NEW r \in Selected(made, i), NEW row \in rows,
             HitOf(made, i, r) = HitOf(made, pos, row)
      PROVE  i = pos /\ r = row
  <2>1. i = pos /\ r.no = row.no
    BY <1>4 DEF HitOf
  <2>2. r \in made.file.rows /\ row \in made.file.rows
    BY <1>3
  <2> QED BY <1>0, <2>1, <2>2, RuleFacts
<1>5. \A h \in hits : h.by = made.file.engine /\ h \notin DOMAIN out
  <2> SUFFICES ASSUME NEW row \in rows, HitOf(made, pos, row) \in DOMAIN out
               PROVE  FALSE
    BY DEF HitOf
  <2>1. HitOf(made, pos, row).by = made.file.engine
    BY DEF HitOf
  <2>2. PICK i \in DOMAIN made.file.rules : \E r \in Selected(made, i) :
          IsPast(i, r) /\ HitOf(made, pos, row) = HitOf(made, i, r)
    BY <1>0, <2>1 DEF OwnHits
  <2> QED BY <1>4, <2>2
<1>6. CASE out' = Rules!Added(out, {Rules!Hit(row) : row \in rows}) /\ UNCHANGED aux
  <2>1. {Rules!Hit(row) : row \in rows} = hits
    BY DEF Rules!Hit, Rules!file, HitOf
  <2>2. /\ Rules!IsTable(out') /\ DOMAIN out' = DOMAIN out \cup hits
        /\ Rules!Others(made.file.engine, out') = Rules!Others(made.file.engine, out)
        /\ \A h \in DOMAIN out : out'[h] = out[h]
        /\ \A h \in hits : out'[h] = 1
    <3>1. Rules!IsTable(out)
      BY DEF EngineOK
    <3>2. out' = Rules!Added(out, hits)
      BY <1>6, <2>1
    <3>3. AllOf(made.file.engine, hits) /\ \A h \in hits : h \notin DOMAIN out
      BY <1>5 DEF AllOf
    <3> HIDE DEF hits
    <3>4. Grown(made.file.engine, out, hits, Rules!Added(out, hits))
      BY <3>1, <3>3, Adding
    <3>5. Grown(made.file.engine, out, hits, out')
      BY <3>2, <3>4
    <3> QED BY <3>3, <3>5 DEF Grown
  <2>3. Rules!Others(made.file.engine, out)' = Rules!Others(made.file.engine, out')
    BY DEF Rules!Others, Rules!file
  <2>4. ASSUME NEW h \in DOMAIN out', h.by = made.file.engine
        PROVE  out'[h] = 1 /\ \E i \in DOMAIN made.file.rules : \E row \in Selected(made, i) : IsPast(i, row)' /\ h = HitOf(made, i, row)
    <3>1. CASE h \in DOMAIN out
      BY <1>0, <2>2, <2>4, <3>1 DEF OwnHits
    <3>2. CASE h \in hits
      <4>1. PICK row \in rows : h = HitOf(made, pos, row)
        BY <3>2
      <4>2. row \in Selected(made, pos)
        OBVIOUS
      <4>3. \A i \in DOMAIN made.file.rules : i = pos => IsPast(i, row)'
        BY <4>2
      <4> QED BY <2>2, <3>2, <4>1, <4>2, <4>3
    <3> QED BY <2>2, <3>1, <3>2
  <2>5. ASSUME aux' = 0, NEW i \in DOMAIN made.file.rules, NEW row \in Selected(made, i), IsPast(i, row)'
        PROVE  HitOf(made, i, row) \in DOMAIN out'
    <3>1. CASE IsPast(i, row)
      BY <1>0, <1>6, <2>2, <2>5, <3>1 DEF OwnHits
    <3>2. CASE i = pos /\ row \in rows
      BY <2>2, <3>2
    <3> QED BY <2>5, <3>1, <3>2
  <2>6. OwnHits'
    <3>1. \A i, row : HitOf(made, i, row)' = HitOf(made, i, row)
      BY DEF HitOf
    <3> QED BY <1>2, <2>4, <2>5, <3>1 DEF OwnHits
  <2> QED BY <1>0, <1>1, <1>6, <2>2, <2>3, <2>6
<1>7. CASE Rules!Fault /\ UNCHANGED out
  <2>1. aux' = aux + 1 /\ aux' # 0 /\ aux' \in 0..MaxRowFaults
    BY <1>0, <1>7 DEF Rules!Fault
  <2>2. OwnHits'
    <3>1. \A i, row : HitOf(made, i, row)' = HitOf(made, i, row)
      BY DEF HitOf
    <3>2. \A h \in DOMAIN out : h.by = made.file.engine =>
            out[h] = 1 /\ \E i \in DOMAIN made.file.rules : \E row \in Selected(made, i) : IsPast(i, row)' /\ h = HitOf(made, i, row)
      BY <1>0 DEF OwnHits
    <3> QED BY <1>2, <1>7, <2>1, <3>1, <3>2 DEF OwnHits
  <2>3. Rules!Others(made.file.engine, out)' = Rules!Others(made.file.engine, out)
    BY <1>7 DEF Rules!Others, Rules!file
  <2> QED BY <1>0, <1>1, <1>7, <2>1, <2>2, <2>3 DEF EngineOK
<1> QED BY <1>6, <1>7 DEF Rules!Insert

\* A step that touches neither the table nor what has been run.
LEMMA HitsStay ==
    ASSUME OwnHits, UNCHANGED <<made, aux, out>>,
           \A i \in DOMAIN made.file.rules : \A row \in Selected(made, i) : IsPast(i, row)' <=> IsPast(i, row)
    PROVE  OwnHits'
<1>1. \A i, row : HitOf(made, i, row)' = HitOf(made, i, row) /\ Selected(made, i)' = Selected(made, i)
  BY DEF HitOf, Selected
<1> QED BY <1>1 DEF OwnHits

\* A rule of sigma is one statement, or none when it is refused.
LEMMA RunningRule == ASSUME EngineOK, Rules!RunRule PROVE EngineOK'
<1>1. /\ made \in RuleSets /\ stage = "run" /\ done = "no" /\ made.file.engine = "sigma" /\ pos \in DOMAIN made.file.rules
      /\ mem = {} /\ made' = made /\ stage' = "run" /\ done' = "no" /\ pos' = pos + 1 /\ mem' = {} /\ OwnHits
  BY RuleFacts DEF EngineOK, Rules!RunRule, Rules!Running, Rules!NextRule, Rules!file
<1>2. \A i \in DOMAIN made.file.rules : \A row : IsPast(i, row) <=> i < pos
  BY <1>1 DEF IsPast
<1>3. \A i \in DOMAIN made.file.rules : \A row : IsPast(i, row)' <=> i < pos + 1
  BY <1>1 DEF IsPast
<1>4. pos \in Nat \ {0} /\ pos + 1 \in Nat \ {0} /\ \A i \in DOMAIN made.file.rules : i < pos + 1 <=> i < pos \/ i = pos
  BY <1>1, RuleFacts DEF EngineOK
<1>5. OwnHits' /\ Rules!IsTable(out') /\ aux' \in 0..MaxRowFaults /\ Rules!Others(made.file.engine, out)' = Rules!Others(made.file.engine, made.file.before)'
  <2>1. CASE Rules!Refused(made.file.rules[pos])
    <3>1. UNCHANGED <<made, aux, out>>
      BY <1>1, <2>1 DEF Rules!RunRule, Rules!Rule, Rules!file
    <3>2. Selected(made, pos) = {}
      BY <1>1, <2>1 DEF Selected
    <3>3. OwnHits'
      BY <1>1, <1>2, <1>3, <1>4, <3>1, <3>2, HitsStay
    <3> QED BY <3>1, <3>3 DEF EngineOK, Rules!Others, Rules!file
  <2>2. CASE ~Rules!Refused(made.file.rules[pos])
    <3> DEFINE rows == {row \in made.file.rows : Rules!Meets(made.file.rules[pos], row)}
    <3>1. Rules!Insert(rows)
      BY <2>2 DEF Rules!RunRule, Rules!Rule, Rules!file
    <3>2. Selected(made, pos) = rows
      BY <1>1, <2>2 DEF Selected
    <3> HIDE DEF rows
    <3> QED BY <1>1, <1>2, <1>3, <1>4, <3>1, <3>2, Inserting
  <2> QED BY <2>1, <2>2
<1> QED BY <1>1, <1>4, <1>5 DEF EngineOK

LEMMA ResolvingTargets == ASSUME EngineOK, Rules!ResolveTargets PROVE EngineOK'
<1>1. /\ made \in RuleSets /\ stage = "run" /\ done = "no" /\ made.file.engine = "yaralite" /\ pos \in DOMAIN made.file.rules
      /\ mem = {} /\ stage' = "run" /\ done' = "no" /\ UNCHANGED <<made, aux, out>> /\ OwnHits /\ pos \in Nat \ {0}
  BY RuleFacts DEF EngineOK, Rules!ResolveTargets, Rules!Running, Rules!file
<1> DEFINE rule == made.file.rules[pos]
<1>2. \A i \in DOMAIN made.file.rules : \A row : IsPast(i, row) <=> i < pos
  BY <1>1 DEF IsPast
<1>3. CASE Rules!Strings(rule) = <<>> \/ Rules!TargetsOf(rule) = {}
  <2>1. pos' = pos + 1 /\ mem' = {}
    BY <1>3 DEF Rules!ResolveTargets, Rules!NextRule, Rules!Rule, Rules!file
  <2>2. Selected(made, pos) = {}
    BY <1>1, <1>3 DEF Selected
  <2>3. \A i \in DOMAIN made.file.rules : \A row : IsPast(i, row)' <=> i < pos \/ i = pos
    <3>1. DOMAIN made.file.rules \subseteq Nat
      BY <1>1, RuleFacts
    <3> QED BY <1>1, <2>1, <3>1 DEF IsPast
  <2>4. OwnHits'
    BY <1>1, <1>2, <2>2, <2>3, HitsStay
  <2> QED BY <1>1, <2>1, <2>4 DEF EngineOK, Rules!Others, Rules!file
<1>4. CASE Rules!Strings(rule) # <<>> /\ Rules!TargetsOf(rule) # {}
  <2>1. mem' = Rules!TargetsOf(rule) /\ pos' = pos
    BY <1>4 DEF Rules!ResolveTargets, Rules!Rule, Rules!file
  <2>2. \A i \in DOMAIN made.file.rules : \A row : IsPast(i, row)' <=> i < pos
    BY <1>1, <2>1 DEF IsPast, Rules!TargetsOf
  <2>3. OwnHits'
    BY <1>1, <1>2, <2>2, HitsStay
  <2> QED BY <1>1, <1>4, <2>1, <2>3 DEF EngineOK, Rules!Others, Rules!file
<1> QED BY <1>3, <1>4

\* A target of a rule is one statement; the last one ends the rule.
LEMMA ScanningTarget == ASSUME EngineOK, Rules!ScanTarget PROVE EngineOK'
<1>1. /\ made \in RuleSets /\ stage = "run" /\ done = "no" /\ made.file.engine = "yaralite" /\ pos \in DOMAIN made.file.rules
      /\ stage' = "run" /\ done' = "no" /\ made' = made /\ OwnHits /\ pos \in Nat \ {0}
  BY RuleFacts DEF EngineOK, Rules!ScanTarget, Rules!Running, Rules!file
<1> DEFINE rule == made.file.rules[pos]
           rows(t) == {row \in made.file.rows : row.table = t /\ Rules!HasStrings(rule, row)}
<1>2. PICK t \in mem : /\ Rules!Insert(rows(t))
                       /\ IF mem = {t} THEN pos' = pos + 1 /\ mem' = {} ELSE mem' = mem \ {t} /\ pos' = pos
  BY DEF Rules!ScanTarget, Rules!NextRule, Rules!Rule, Rules!file
<1>3. Rules!Strings(rule) # <<>> /\ mem \subseteq Rules!TargetsOf(rule) /\ t \in Rules!TargetsOf(rule)
  BY <1>2 DEF EngineOK
<1>4. Selected(made, pos) = {row \in made.file.rows : row.table \in Rules!TargetsOf(rule) /\ Rules!HasStrings(rule, row)}
  BY <1>1, <1>3 DEF Selected
<1>5. rows(t) = {row \in Selected(made, pos) : row.table = t}
  BY <1>3, <1>4
<1>6. \A row \in Selected(made, pos) : row.table \in Rules!TargetsOf(rule)
  BY <1>4
<1>7. \A row \in rows(t) : ~IsPast(pos, row)
  BY <1>1, <1>2 DEF IsPast
<1>8. \A i \in DOMAIN made.file.rules : i \in Nat
  BY <1>1, RuleFacts
<1>9. ASSUME NEW i \in DOMAIN made.file.rules, NEW row \in Selected(made, i)
      PROVE  IsPast(i, row)' <=> (IsPast(i, row) \/ (i = pos /\ row \in rows(t)))
  <2>1. CASE mem = {t}
    <3>1. pos' = pos + 1 /\ mem' = {}
      BY <1>2, <2>1
    <3>2. IsPast(i, row)' <=> i < pos \/ i = pos
      BY <1>1, <1>8, <3>1 DEF IsPast
    <3>3. CASE i = pos
      <4>1. IsPast(i, row) <=> row.table \in Rules!TargetsOf(rule) \ {t}
        BY <1>1, <2>1, <3>3 DEF IsPast
      <4>2. row.table \in Rules!TargetsOf(rule) /\ (row \in rows(t) <=> row.table = t)
        BY <1>5, <1>6, <3>3
      <4> QED BY <3>2, <3>3, <4>1, <4>2
    <3>4. CASE i # pos
      BY <3>2, <3>4 DEF IsPast
    <3> QED BY <3>3, <3>4
  <2>2. CASE mem # {t}
    <3>1. pos' = pos /\ mem' = mem \ {t} /\ mem' # {}
      BY <1>2, <2>2
    <3>2. CASE i = pos
      <4>1. IsPast(i, row) <=> row.table \in Rules!TargetsOf(rule) \ mem
        BY <1>1, <1>2, <3>2 DEF IsPast
      <4>2. IsPast(i, row)' <=> row.table \in Rules!TargetsOf(rule) \ (mem \ {t})
        BY <1>1, <3>1, <3>2 DEF IsPast
      <4>3. row \in rows(t) <=> row.table = t
        BY <1>5, <3>2
      <4> QED BY <1>3, <3>2, <4>1, <4>2, <4>3
    <3>3. CASE i # pos
      BY <1>1, <3>1, <3>3 DEF IsPast
    <3> QED BY <3>2, <3>3
  <2> QED BY <2>1, <2>2
<1>10. OwnHits' /\ Rules!IsTable(out') /\ aux' \in 0..MaxRowFaults
       /\ Rules!Others(made.file.engine, out)' = Rules!Others(made.file.engine, made.file.before)'
  <2> DEFINE scanned == rows(t)
  <2>1. scanned \subseteq Selected(made, pos) /\ Rules!Insert(scanned) /\ \A row \in scanned : ~IsPast(pos, row)
    BY <1>2, <1>5, <1>7
  <2>2. \A i \in DOMAIN made.file.rules : \A row \in Selected(made, i) :
          IsPast(i, row)' <=> (IsPast(i, row) \/ (i = pos /\ row \in scanned))
    BY <1>9
  <2> HIDE DEF scanned
  <2> QED BY <1>1, <2>1, <2>2, Inserting
<1>11. pos' \in Nat \ {0} /\ (mem' # {} => pos' = pos /\ mem' \subseteq mem)
  BY <1>1, <1>2
<1> QED BY <1>1, <1>3, <1>10, <1>11 DEF EngineOK

LEMMA EngineStep == ASSUME EngineOK, Rules!Next PROVE EngineOK'
<1>1. made \in RuleSets /\ aux \in 0..MaxRowFaults /\ MaxRowFaults \in Nat
  BY RuleFaults DEF EngineOK
<1>2. ASSUME Rules!ClearFails PROVE EngineOK'
  <2>1. /\ stage = "clear" /\ done' = "err" /\ UNCHANGED <<made, stage, pos, mem, out>>
        /\ aux' \in 0..MaxRowFaults
    BY <1>1, <1>2 DEF Rules!ClearFails, Rules!Fault
  <2> QED BY <2>1 DEF EngineOK
<1>3. ASSUME Rules!Finish PROVE EngineOK'
  <2>1. /\ stage = "run" /\ pos > Len(made.file.rules) /\ done' = "eof" /\ UNCHANGED <<made, stage, pos, mem, aux, out>>
    BY <1>3 DEF Rules!Finish, Rules!file
  <2>2. OwnHits'
    BY <2>1, HitsStay DEF EngineOK, IsPast
  <2> QED BY <2>1, <2>2 DEF EngineOK
<1> QED BY <1>2, <1>3, Clearing, RunningRule, ResolvingTargets, ScanningTarget DEF Rules!Next

LEMMA EngineStutter == ASSUME EngineOK, UNCHANGED Rules!vars PROVE EngineOK'
BY HitsStay DEF EngineOK, Rules!vars, IsPast

LEMMA EngineInvariant == Spec => [](job = "rules" => EngineOK)
<1> DEFINE Inv == job = "rules" => EngineOK
<1>1. Init => Inv
  BY RulesInit DEF Init
<1>2. Inv /\ [Next \/ Stopped]_vars => Inv'
  BY RuleSteps, EngineStep, EngineStutter
<1> QED BY <1>1, <1>2, PTL DEF Spec

\* The other engines' hits are left alone; of its own an engine has those of this run, each once
\* and of a row that the statement of its rule selects; and when no statement has failed, of
\* every such row.  What a rule's text selects is the compiler's part.
HitsAreSelected ==
  job = "rules" =>
    /\ Rules!Others(made.file.engine, out) = Rules!Others(made.file.engine, made.file.before)
    /\ stage = "run" => \A h \in DOMAIN out : h.by = made.file.engine =>
         out[h] = 1 /\ \E i \in DOMAIN made.file.rules : \E row \in Selected(made, i) : h = HitOf(made, i, row)
    /\ done = "eof" /\ aux = 0 => \A i \in DOMAIN made.file.rules : \A row \in Selected(made, i) :
         HitOf(made, i, row) \in DOMAIN out

LEMMA EngineSafe == ASSUME job = "rules" => EngineOK PROVE HitsAreSelected
<1> SUFFICES ASSUME job = "rules", EngineOK
             PROVE  /\ Rules!Others(made.file.engine, out) = Rules!Others(made.file.engine, made.file.before)
                    /\ stage = "run" => OwnHits
                    /\ done = "eof" => stage = "run" /\ \A i \in DOMAIN made.file.rules : \A row : IsPast(i, row)
  BY DEF HitsAreSelected, OwnHits
<1>1. done = "eof" => \A i \in DOMAIN made.file.rules : i < pos
  BY RuleFacts DEF EngineOK
<1> QED BY <1>1 DEF EngineOK, IsPast

\* RunAll and ScanAll, whatever the rules and whatever fails.
THEOREM EngineHits == Spec => []HitsAreSelected
BY EngineInvariant, EngineSafe, PTL

-----------------------------------------------------------------------------
(* Write-ahead logs. *)

\* The frames of the log's own salt, up to the n-th; and pages with those laid over them, the
\* last of each page on top.
FramesUpTo(f, n) == {k \in DOMAIN f.wal : k <= n /\ Browser!IsApplied(f.wal[k])}
IsLaidOver(pages, f, frames) ==
  /\ DOMAIN pages = DOMAIN f.pages \cup {f.wal[k].page : k \in frames}
  /\ \A n \in DOMAIN pages :
       \/ (\A k \in frames : f.wal[k].page # n) /\ pages[n] = f.pages[n]
       \/ \E k \in frames : /\ f.wal[k].page = n /\ pages[n] = f.wal[k].data
                            /\ \A l \in frames : f.wal[l].page = n => l <= k

BrowserOK ==
  /\ made \in Databases /\ stage \in {"wal", "history", "downloads"} /\ pos \in Nat \ {0}
  /\ IsLaidOver(mem, made.file, FramesUpTo(made.file, pos - 1))
  /\ stage # "wal" => pos > Len(made.file.wal)

LEMMA BrowserSteps ==
    ASSUME [Next \/ Stopped]_vars
    PROVE  job' = job /\ (job = "browser" => Browser!Next \/ UNCHANGED Browser!vars)
BY DEF Next, Stopped, Reads, vars, shared, Browser!vars

LEMMA BrowserFacts ==
    ASSUME NEW m \in Databases
    PROVE  Len(m.file.wal) \in Nat /\ DOMAIN m.file.wal = 1..Len(m.file.wal)
<1> DEFINE S == Browser!ToSet(m.file.wal)
<1>1. m.file.wal \in Seq(S)
  BY DecoderAssumptions DEF Browser!BrowserAssumption
<1> HIDE DEF S
<1> QED BY <1>1

LEMMA BrowserInit == ASSUME Browser!Init PROVE BrowserOK
<1>1. made \in Databases /\ mem = made.file.pages /\ pos = 1 /\ stage = "wal"
  BY DEF Browser!Init
<1>2. FramesUpTo(made.file, 0) = {}
  BY <1>1, BrowserFacts DEF FramesUpTo
<1> QED BY <1>1, <1>2 DEF BrowserOK, IsLaidOver

LEMMA ApplyingFrame == ASSUME BrowserOK, Browser!ApplyFrame PROVE BrowserOK'
<1> DEFINE f == made.file
           old == FramesUpTo(f, pos - 1)
           frame == f.wal[pos]
<1>1. /\ made \in Databases /\ stage = "wal" /\ stage' = "wal" /\ made' = made /\ pos' = pos + 1
      /\ pos \in DOMAIN f.wal /\ pos \in Nat \ {0}
      /\ mem' = IF Browser!IsApplied(frame) THEN Browser!Laid(mem, frame) ELSE mem
  BY BrowserFacts DEF BrowserOK, Browser!ApplyFrame, Browser!file
<1>2. \A k \in old : k < pos
  BY <1>1, BrowserFacts DEF FramesUpTo
<1>3. FramesUpTo(f, pos) = IF Browser!IsApplied(frame) THEN old \cup {pos} ELSE old
  BY <1>1, BrowserFacts DEF FramesUpTo
<1>4. IsLaidOver(mem, f, old)
  BY DEF BrowserOK
<1>5. IsLaidOver(mem', f, FramesUpTo(f, pos))
  <2>1. CASE ~Browser!IsApplied(frame)
    BY <1>1, <1>3, <1>4, <2>1
  <2>2. CASE Browser!IsApplied(frame)
    <3> DEFINE new == old \cup {pos}
    <3>1. /\ DOMAIN mem' = DOMAIN mem \cup {frame.page} /\ mem'[frame.page] = frame.data
          /\ \A n \in DOMAIN mem : n # frame.page => mem'[n] = mem[n]
      BY <1>1, <2>2 DEF Browser!Laid
    <3>2. DOMAIN mem' = DOMAIN f.pages \cup {f.wal[k].page : k \in new}
      BY <1>4, <3>1 DEF IsLaidOver
    <3>3. ASSUME NEW n \in DOMAIN mem'
          PROVE  \/ (\A k \in new : f.wal[k].page # n) /\ mem'[n] = f.pages[n]
                 \/ \E k \in new : /\ f.wal[k].page = n /\ mem'[n] = f.wal[k].data
                                   /\ \A l \in new : f.wal[l].page = n => l <= k
      <4>1. CASE n = frame.page
        <5>1. \A l \in new : l <= pos
          BY <1>1, BrowserFacts DEF FramesUpTo
        <5> QED BY <3>1, <4>1, <5>1
      <4>2. CASE n # frame.page
        <5>1. n \in DOMAIN mem /\ mem'[n] = mem[n]
          BY <3>1, <3>3, <4>2
        <5> QED BY <1>4, <4>2, <5>1 DEF IsLaidOver
      <4> QED BY <4>1, <4>2
    <3> HIDE DEF f
    <3> QED BY <1>3, <2>2, <3>2, <3>3 DEF IsLaidOver
  <2> QED BY <2>1, <2>2
<1>6. pos' - 1 = pos
  BY <1>1
<1> QED BY <1>1, <1>5, <1>6 DEF BrowserOK

LEMMA BrowserStep == ASSUME BrowserOK, Browser!Next PROVE BrowserOK'
<1>1. CASE Browser!ApplyFrame
  BY <1>1, ApplyingFrame
<1>2. CASE Browser!EndOfWal
  BY <1>2 DEF BrowserOK, Browser!EndOfWal, Browser!file
<1>3. CASE Browser!OpenFails \/ Browser!Overflow \/ Browser!ReadHistory \/ Browser!ReadDownloads
  BY <1>3 DEF BrowserOK, Browser!OpenFails, Browser!Overflow, Browser!ReadHistory, Browser!ReadDownloads
<1> QED BY <1>1, <1>2, <1>3 DEF Browser!Next

\* Tables are read from pages over which the log is laid: of each page the last frame of the
\* log's own salt, and none that was left from before the log was reset.
LogIsLaidOver ==
  job = "browser" /\ stage # "wal" => IsLaidOver(mem, made.file, {k \in DOMAIN made.file.wal : Browser!IsApplied(made.file.wal[k])})

\* applyWAL, whatever frames the log has.
THEOREM LogLaidOver == Spec => []LogIsLaidOver
<1> DEFINE Inv == job = "browser" => BrowserOK
<1>1. Init => Inv
  BY BrowserInit DEF Init
<1>2. Inv /\ [Next \/ Stopped]_vars => Inv'
  <2>1. ASSUME BrowserOK, UNCHANGED Browser!vars PROVE BrowserOK'
    BY <2>1 DEF BrowserOK, Browser!vars
  <2> QED BY <2>1, BrowserSteps, BrowserStep
<1>3. Inv => LogIsLaidOver
  <2> SUFFICES ASSUME BrowserOK, stage # "wal"
               PROVE  IsLaidOver(mem, made.file, {k \in DOMAIN made.file.wal : Browser!IsApplied(made.file.wal[k])})
    BY DEF LogIsLaidOver
  <2>1. FramesUpTo(made.file, pos - 1) = {k \in DOMAIN made.file.wal : Browser!IsApplied(made.file.wal[k])}
    BY BrowserFacts DEF BrowserOK, FramesUpTo
  <2> QED BY <2>1 DEF BrowserOK
<1> QED BY <1>1, <1>2, <1>3, PTL DEF Spec

-----------------------------------------------------------------------------
(* Transaction logs. *)

\* A page of the logs is known by its log, its entry and its place there.
Page(f, t) == f.logs[t[1]][t[2]].pages[t[3]]
Precedes(t, u) == \/ t[1] < u[1]
                  \/ t[1] = u[1] /\ t[2] < u[2]
                  \/ t[1] = u[1] /\ t[2] = u[2] /\ t[3] < u[3]

Behind(T, l, e, n) == \A t \in T, i \in 1..n : Precedes(t, <<l, e, i>>)

\* An entry is reached if every size up to it leads on.
Reached(f, l, e) == e \in DOMAIN f.logs[l] /\ \A d \in 1..e : f.logs[l][d].size = "ok"
EntryPages(f, l, e) == {<<l, e, i>> : i \in Registry!GoodPages(f.logs[l][e])}
PagesOf(f, l, e) == IF f.logs[l][e].count = "bad" THEN {} ELSE EntryPages(f, l, e)
\* The pages of a log's entries, up to the n-th.
PagesUpTo(f, l, n) == UNION {PagesOf(f, l, e) : e \in {d \in 1..n : Reached(f, l, d)}}
AllPages(f, l) == PagesUpTo(f, l, Len(f.logs[l]))

\* cells are the hive's own with the pages over them, the last of each place on top.
IsOverlay(cells, f, T) ==
  /\ DOMAIN cells = DOMAIN f.cells \cup {Page(f, t).at : t \in T}
  /\ \A c \in DOMAIN cells :
       \/ (\A t \in T : Page(f, t).at # c) /\ cells[c] = f.cells[c]
       \/ \E t \in T : /\ Page(f, t).at = c /\ cells[c] = Page(f, t).cell
                       /\ \A u \in T : Page(f, u).at = c => u = t \/ Precedes(u, t)

\* The logs' pages that lie before the parser's position.
Applied == IF stage = "log1" THEN PagesUpTo(made.file, 1, pos - 1)
           ELSE AllPages(made.file, 1)
                  \cup IF stage = "log2" THEN PagesUpTo(made.file, 2, pos - 1) ELSE AllPages(made.file, 2)
Logs == {"log1", "log2"}
Nth(s) == IF s = "log1" THEN 1 ELSE 2

HiveOK ==
  /\ made \in Hives /\ made.file.parser = "amcache"
  /\ pos \in Nat \ {0}
  /\ stage \in Logs => \A d \in 1..(pos - 1) : d \in DOMAIN made.file.logs[Nth(stage)] /\ made.file.logs[Nth(stage)][d].size = "ok"
  /\ IsOverlay(mem, made.file, Applied)

\* A bounded set of numbers has a greatest.
LEMMA MaxOf ==
    ASSUME NEW n \in Nat, NEW S \in SUBSET (1..n), S # {}
    PROVE  Registry!Max(S) \in S /\ \A y \in S : y <= Registry!Max(S)
<1> DEFINE T == {b \in Nat : \A y \in S : y <= b}
<1>1. n \in T
  OBVIOUS
<1>2. PICK b \in T : \A c \in T : <<c, b>> \notin OpToRel(<, Nat)
  <2> HIDE DEF T
  <2>1. T \subseteq Nat
    BY DEF T
  <2> QED BY <1>1, <2>1, WFMin, NatLessThanWellFounded, Zenon
<1>3. \A c \in T : ~ (c < b)
  BY <1>2, Zenon DEF OpToRel
<1>4. b \in S
  <2> SUFFICES ASSUME b \notin S PROVE FALSE
    OBVIOUS
  <2>1. PICK x \in S : TRUE
    OBVIOUS
  <2>2. \A y \in S : y \in Nat \ {0} /\ y # b
    OBVIOUS
  <2>0. b \in Nat /\ \A y \in S : y <= b
    BY <1>2, Zenon
  <2>3. b - 1 \in Nat /\ \A y \in S : y <= b - 1
    BY <2>0, <2>1, <2>2
  <2> QED BY <1>3, <2>3
<1>5. \E x \in S : \A y \in S : x >= y
  BY <1>4
<1>6. Registry!Max(S) = CHOOSE x \in S : \A y \in S : x >= y
  BY DEF Registry!Max
<1>7. Registry!Max(S) \in S /\ \A y \in S : Registry!Max(S) >= y
  BY <1>5, <1>6, Zenon
<1> QED BY <1>7

LEMMA HiveFacts ==
    ASSUME NEW m \in Hives, m.file.parser = "amcache", NEW l \in 1..2
    PROVE  /\ Len(m.file.logs[l]) \in Nat /\ DOMAIN m.file.logs[l] = 1..Len(m.file.logs[l])
           /\ \A e \in DOMAIN m.file.logs[l] :
                /\ Len(m.file.logs[l][e].pages) \in Nat
                /\ DOMAIN m.file.logs[l][e].pages = 1..Len(m.file.logs[l][e].pages)
<1>1. \A s, S : s \in Seq(S) => Len(s) \in Nat /\ DOMAIN s = 1..Len(s)
  OBVIOUS
<1>2. m.file.logs[l] \in Seq(Registry!ToSet(m.file.logs[l]))
  BY DecoderAssumptions DEF Registry!HiveAssumption
<1>3. \A e \in DOMAIN m.file.logs[l] : m.file.logs[l][e].pages \in Seq(Registry!ToSet(m.file.logs[l][e].pages))
  BY DecoderAssumptions DEF Registry!HiveAssumption
<1> QED BY <1>1, <1>2, <1>3

\* An entry's pages come over those of the entries before it.
LEMMA Patching ==
    ASSUME NEW f, NEW cells, NEW T, IsOverlay(cells, f, T), NEW l \in 1..2, NEW e \in Nat,
           NEW n \in Nat, DOMAIN f.logs[l][e].pages = 1..n,
           Behind(T, l, e, n)
    PROVE  IsOverlay(Registry!Patched(cells, f.logs[l][e]), f, T \cup EntryPages(f, l, e))
<1> DEFINE entry == f.logs[l][e]
           good == Registry!GoodPages(entry)
           new == T \cup {<<l, e, i>> : i \in good}
           for(c) == {i \in good : entry.pages[i].at = c}
           patched == Registry!Patched(cells, entry)
<1>1. good \subseteq 1..n
  BY DEF Registry!GoodPages
<1>2. \A i \in good : Page(f, <<l, e, i>>) = entry.pages[i]
  BY DEF Page
<1>3. /\ DOMAIN patched = DOMAIN cells \cup {entry.pages[i].at : i \in good}
      /\ \A c \in DOMAIN patched : patched[c] = IF for(c) = {} THEN cells[c] ELSE entry.pages[Registry!Max(for(c))].cell
  <2> HIDE DEF good
  <2>1. patched = [c \in DOMAIN cells \cup {entry.pages[i].at : i \in good} |->
                     IF for(c) = {} THEN cells[c] ELSE entry.pages[Registry!Max(for(c))].cell]
    BY DEF Registry!Patched, good
  <2> HIDE DEF patched, for
  <2> QED BY <2>1
<1>4. DOMAIN patched = DOMAIN f.cells \cup {Page(f, t).at : t \in new}
  <2>1. {Page(f, t).at : t \in new} = {Page(f, t).at : t \in T} \cup {entry.pages[i].at : i \in good}
    <3> HIDE DEF good, entry
    <3> QED BY <1>2
  <2>2. DOMAIN cells = DOMAIN f.cells \cup {Page(f, t).at : t \in T}
    BY DEF IsOverlay
  <2> HIDE DEF patched, good, entry, new
  <2> QED BY <1>3, <2>1, <2>2
<1>5. ASSUME NEW c \in DOMAIN patched
      PROVE  \/ (\A t \in new : Page(f, t).at # c) /\ patched[c] = f.cells[c]
             \/ \E t \in new : /\ Page(f, t).at = c /\ patched[c] = Page(f, t).cell
                               /\ \A u \in new : Page(f, u).at = c => u = t \/ Precedes(u, t)
  <2>1. CASE for(c) = {}
    <3>1. c \in DOMAIN cells /\ patched[c] = cells[c]
      <4> HIDE DEF patched, good, entry
      <4> QED BY <1>3, <1>5, <2>1
    <3>2. \A u \in new : Page(f, u).at = c => u \in T
      <4> HIDE DEF good, entry
      <4> QED BY <1>2, <2>1
    <3> HIDE DEF patched, good, entry
    <3> QED BY <3>1, <3>2 DEF IsOverlay
  <2>2. CASE for(c) # {}
    <3> DEFINE top == Registry!Max(for(c))
               t == <<l, e, top>>
    <3>1. top \in for(c) /\ \A y \in for(c) : y <= top
      <4>1. for(c) \in SUBSET (1..n)
        BY <1>1
      <4> HIDE DEF for
      <4> QED BY <2>2, <4>1, MaxOf
    <3>2. t \in new /\ Page(f, t).at = c
      <4> HIDE DEF top, good, entry
      <4> QED BY <1>2, <3>1
    <3>3. patched[c] = Page(f, t).cell
      <4> HIDE DEF patched, good, entry
      <4> QED BY <1>2, <1>3, <2>2, <3>1
    <3>4. ASSUME NEW u \in new, Page(f, u).at = c PROVE u = t \/ Precedes(u, t)
      <4>1. CASE u \in T
        <5> HIDE DEF top, good
        <5> QED BY <1>1, <3>1, <4>1 DEF Behind
      <4>2. CASE u \in {<<l, e, i>> : i \in good}
        <5>1. PICK i \in good : u = <<l, e, i>>
          BY <4>2
        <5>2. i \in for(c)
          <6> HIDE DEF top, good, entry
          <6> QED BY <1>2, <3>4, <5>1
        <5>3. i <= top /\ i \in Nat /\ top \in Nat
          <6> HIDE DEF top, good
          <6> QED BY <1>1, <3>1, <5>2
        <5>4. i = top \/ i < top
          BY <5>3
        <5> HIDE DEF top, good
        <5> QED BY <5>1, <5>4 DEF Precedes
      <4> QED BY <4>1, <4>2
    <3> HIDE DEF patched, new, top
    <3> QED BY <3>2, <3>3, <3>4
  <2> QED BY <2>1, <2>2
<1> HIDE DEF patched, new
<1>6. IsOverlay(patched, f, new)
  BY <1>4, <1>5 DEF IsOverlay
<1> QED BY <1>6 DEF patched, new, EntryPages

LEMMA HiveSteps ==
    ASSUME [Next \/ Stopped]_vars
    PROVE  job' = job /\ (job = "registry" => Registry!Next \/ UNCHANGED Registry!vars)
BY DEF Next, Stopped, Reads, vars, shared, Registry!vars

\* A log up to an entry, and one entry further.
LEMMA OneEntry ==
    ASSUME NEW f, NEW l, NEW n \in Nat \ {0}, Reached(f, l, n)
    PROVE  PagesUpTo(f, l, n) = PagesUpTo(f, l, n - 1) \cup PagesOf(f, l, n)
<1>1. {d \in 1..n : Reached(f, l, d)} = {d \in 1..(n - 1) : Reached(f, l, d)} \cup {n}
  OBVIOUS
<1> QED BY <1>1 DEF PagesUpTo

\* What lies behind an entry whose size leads nowhere is not reached.
LEMMA WholeLog ==
    ASSUME NEW f, NEW l, NEW n \in Nat, n <= Len(f.logs[l]), Len(f.logs[l]) \in Nat,
           n = Len(f.logs[l]) \/ f.logs[l][n + 1].size # "ok"
    PROVE  AllPages(f, l) = PagesUpTo(f, l, n)
<1>1. \A d \in 1..Len(f.logs[l]) : d > n => ~ Reached(f, l, d)
  BY DEF Reached
<1>2. {d \in 1..Len(f.logs[l]) : Reached(f, l, d)} = {d \in 1..n : Reached(f, l, d)}
  BY <1>1
<1> QED BY <1>2 DEF AllPages, PagesUpTo

LEMMA HiveInit == ASSUME Registry!Init, made.file.parser = "amcache" PROVE HiveOK
<1>1. made \in Hives /\ mem = made.file.cells /\ pos = 1 /\ stage = "log1"
  BY DEF Registry!Init
<1>2. PagesUpTo(made.file, 1, 0) = {}
  BY DEF PagesUpTo
<1> QED BY <1>1, <1>2 DEF HiveOK, IsOverlay, Applied, Logs, Nth

LEMMA ApplyingEntry == ASSUME HiveOK, Registry!ApplyEntry PROVE HiveOK'
<1> DEFINE f == made.file
           l == Nth(stage)
           entry == f.logs[l][pos]
<1>1. /\ made \in Hives /\ f.parser = "amcache" /\ stage \in Logs /\ l \in 1..2
      /\ made' = made /\ stage' = stage /\ pos' = pos + 1 /\ pos \in Nat \ {0}
      /\ Registry!Log = f.logs[l] /\ pos <= Len(f.logs[l]) /\ entry.size = "ok"
      /\ mem' = IF entry.count = "bad" THEN mem ELSE Registry!Patched(mem, entry)
  BY DEF HiveOK, Registry!ApplyEntry, Registry!GoesOn, Registry!Log, Registry!file, Logs, Nth
<1>2. \A d \in 1..(pos - 1) : d \in DOMAIN f.logs[l] /\ f.logs[l][d].size = "ok"
  BY <1>1 DEF HiveOK
<1>3. pos \in DOMAIN f.logs[l]
  BY <1>1, HiveFacts
<1>4. \A d \in 1..pos : d \in DOMAIN f.logs[l] /\ f.logs[l][d].size = "ok"
  <2> HIDE DEF f, l
  <2> QED BY <1>1, <1>2, <1>3
<1>5. Reached(f, l, pos)
  BY <1>3, <1>4 DEF Reached
<1>6. Applied' = Applied \cup PagesOf(f, l, pos)
  <2>1. PagesUpTo(f, l, pos) = PagesUpTo(f, l, pos - 1) \cup PagesOf(f, l, pos)
    BY <1>1, <1>5, OneEntry
  <2>2. pos' - 1 = pos
    BY <1>1
  <2> QED BY <1>1, <2>1, <2>2 DEF Applied, Logs, Nth
<1>7. IsOverlay(mem', f, Applied')
  <2>1. CASE entry.count = "bad"
    <3>1. PagesOf(f, l, pos) = {}
      BY <2>1 DEF PagesOf
    <3> QED BY <1>1, <1>6, <2>1, <3>1 DEF HiveOK
  <2>2. CASE entry.count # "bad"
    <3>1. PagesOf(f, l, pos) = EntryPages(f, l, pos)
      BY <2>2 DEF PagesOf
    <3>2. Len(entry.pages) \in Nat /\ DOMAIN entry.pages = 1..Len(entry.pages)
      BY <1>1, <1>3, HiveFacts
    <3>3. ASSUME NEW t \in Applied, NEW i \in 1..Len(entry.pages) PROVE Precedes(t, <<l, pos, i>>)
      <4>1. \A k, n, u : u \in PagesUpTo(f, k, n) => \E e \in 1..n : u[1] = k /\ u[2] = e
        BY DEF PagesUpTo, PagesOf, EntryPages
      <4>2. (t[1] = l /\ t[2] \in 1..(pos - 1)) \/ (t[1] = 1 /\ l = 2)
        <5>1. CASE stage = "log1"
          <6>1. t \in PagesUpTo(made.file, 1, pos - 1)
            BY <3>3, <5>1 DEF Applied
          <6> QED BY <4>1, <5>1, <6>1 DEF Nth
        <5>2. CASE stage = "log2"
          <6>1. t \in AllPages(made.file, 1) \/ t \in PagesUpTo(made.file, 2, pos - 1)
            BY <3>3, <5>2 DEF Applied
          <6> QED BY <4>1, <5>2, <6>1 DEF AllPages, Nth
        <5> QED BY <1>1, <5>1, <5>2 DEF Logs
      <4> HIDE DEF l
      <4> QED BY <1>1, <4>2 DEF Precedes
    <3>4. IsOverlay(mem, f, Applied)
      BY DEF HiveOK
    <3>5. IsOverlay(Registry!Patched(mem, entry), f, Applied \cup EntryPages(f, l, pos))
      <4>1. pos \in Nat
        BY <1>1
      <4>2. Behind(Applied, l, pos, Len(entry.pages))
        BY <3>3 DEF Behind
      <4>3. /\ DOMAIN f.logs[l][pos].pages = 1..Len(f.logs[l][pos].pages) /\ Len(f.logs[l][pos].pages) \in Nat
            /\ l \in 1..2 /\ Behind(Applied, l, pos, Len(f.logs[l][pos].pages))
        BY <1>1, <3>2, <4>2
      <4> HIDE DEF l, f, entry
      <4>4. IsOverlay(Registry!Patched(mem, f.logs[l][pos]), f, Applied \cup EntryPages(f, l, pos))
        BY <3>4, <4>1, <4>3, Patching
      <4> QED BY <4>4 DEF entry
    <3> HIDE DEF entry
    <3> QED BY <1>1, <1>6, <2>2, <3>1, <3>5
  <2> QED BY <2>1, <2>2
<1>8. \A d \in 1..(pos' - 1) : d \in DOMAIN f.logs[l] /\ f.logs[l][d].size = "ok"
  <2>1. pos' - 1 = pos
    BY <1>1
  <2> QED BY <1>4, <2>1
<1> QED BY <1>1, <1>7, <1>8 DEF HiveOK

LEMMA EndingLog == ASSUME HiveOK, Registry!EndLog PROVE HiveOK'
<1> DEFINE f == made.file
           l == Nth(stage)
<1>1. /\ made \in Hives /\ f.parser = "amcache" /\ stage \in Logs /\ l \in 1..2
      /\ made' = made /\ mem' = mem /\ pos' = 1 /\ pos \in Nat \ {0}
      /\ stage' = IF stage = "log1" THEN "log2" ELSE "open"
      /\ ~ (pos <= Len(f.logs[l]) /\ f.logs[l][pos].size = "ok")
  BY DEF HiveOK, Registry!EndLog, Registry!GoesOn, Registry!Goto, Registry!Log, Registry!file, Logs, Nth
<1>2. \A d \in 1..(pos - 1) : d \in DOMAIN f.logs[l] /\ f.logs[l][d].size = "ok"
  BY <1>1 DEF HiveOK
<1>3. Len(f.logs[l]) \in Nat /\ DOMAIN f.logs[l] = 1..Len(f.logs[l])
  BY <1>1, HiveFacts
<1>4. pos - 1 \in Nat /\ pos - 1 <= Len(f.logs[l])
  <2>1. pos = 1 \/ pos - 1 \in 1..(pos - 1)
    BY <1>1
  <2> HIDE DEF f, l
  <2> QED BY <1>1, <1>2, <1>3, <2>1
<1>5. AllPages(f, l) = PagesUpTo(f, l, pos - 1)
  <2>1. (pos - 1) + 1 = pos
    BY <1>1
  <2>2. pos - 1 = Len(f.logs[l]) \/ f.logs[l][pos].size # "ok"
    <3> HIDE DEF f, l
    <3> QED BY <1>1, <1>3, <1>4
  <2> HIDE DEF f, l
  <2> QED BY <1>3, <1>4, <2>1, <2>2, WholeLog
<1>6. PagesUpTo(f, 2, 0) = {}
  BY DEF PagesUpTo
<1>7. Applied' = Applied
  <2>1. CASE stage = "log1"
    <3>1. stage' = "log2" /\ pos' - 1 = 0 /\ AllPages(f, 1) = PagesUpTo(f, 1, pos - 1)
      BY <1>1, <1>5, <2>1 DEF Nth
    <3> QED BY <1>1, <1>6, <2>1, <3>1 DEF Applied
  <2>2. CASE stage = "log2"
    <3>1. stage' = "open" /\ AllPages(f, 2) = PagesUpTo(f, 2, pos - 1)
      BY <1>1, <1>5, <2>2 DEF Nth
    <3> QED BY <1>1, <2>2, <3>1 DEF Applied
  <2> QED BY <1>1, <2>1, <2>2 DEF Logs
<1>8. IsOverlay(mem', made'.file, Applied')
  BY <1>1, <1>7 DEF HiveOK
<1> QED BY <1>1, <1>8 DEF HiveOK

LEMMA HiveStep == ASSUME HiveOK, Registry!Next PROVE HiveOK'
<1>1. CASE Registry!ApplyEntry
  BY <1>1, ApplyingEntry
<1>2. CASE Registry!EndLog
  BY <1>2, EndingLog
<1>3. CASE Registry!OpenHive
  BY <1>3 DEF HiveOK, Registry!OpenHive, Registry!Goto, Applied, Logs
<1>4. CASE Registry!OpenFails \/ Registry!Overflow \/ Registry!ReadTree \/ Registry!ReadCells \/ Registry!NothingFound
  BY <1>4 DEF HiveOK, Registry!OpenFails, Registry!Overflow, Registry!Dies, Registry!ReadTree, Registry!ReadCells, Registry!NothingFound,
              Registry!Fail, Registry!Finish, Applied, Logs
<1>5. ~ (Registry!FindBlob \/ Registry!NoBlob \/ Registry!ReadRunKeys \/ Registry!ReadServices
           \/ Registry!ReadExecution \/ Registry!ReadShellbags \/ Registry!WalkForEver)
  BY DEF HiveOK, Registry!WalkForEver, Registry!In, Registry!file, Registry!FindBlob, Registry!NoBlob, Registry!ReadRunKeys,
         Registry!ReadServices, Registry!ReadExecution, Registry!ReadShellbags
<1> QED BY <1>1, <1>2, <1>3, <1>4, <1>5 DEF Registry!Next

\* Hives are read with the pages of both logs over their own, of each log those of the entries
\* that its sizes lead to, and of two pages for a place the later.
LogsAreLaidOver ==
  (job = "registry" /\ made.file.parser = "amcache" /\ stage \notin Logs)
     => IsOverlay(mem, made.file, AllPages(made.file, 1) \cup AllPages(made.file, 2))

\* MergeWithLogs, whatever pages the logs have and wherever an entry cannot be right.
THEOREM LogsLaidOver == Spec => []LogsAreLaidOver
<1> DEFINE Inv == job = "registry" => (made.file.parser = "amcache" => HiveOK)
<1>1. Init => Inv
  BY HiveInit DEF Init
<1>2. Inv /\ [Next \/ Stopped]_vars => Inv'
  <2>1. ASSUME HiveOK, UNCHANGED Registry!vars PROVE HiveOK'
    BY <2>1 DEF HiveOK, Registry!vars, Applied
  <2>2. ASSUME Registry!Next PROVE made' = made
    BY <2>2 DEF Registry!Next, Registry!ApplyEntry, Registry!EndLog, Registry!OpenFails, Registry!OpenHive,
                Registry!ReadTree, Registry!ReadCells, Registry!NothingFound, Registry!FindBlob, Registry!NoBlob,
                Registry!ReadRunKeys, Registry!ReadServices, Registry!ReadExecution, Registry!ReadShellbags,
                Registry!Overflow, Registry!WalkForEver, Registry!Dies, Registry!Fail, Registry!Finish
  <2>3. (Registry!Next \/ UNCHANGED Registry!vars) => made' = made
    BY <2>2 DEF Registry!vars
  <2> QED BY <2>1, <2>3, HiveSteps, HiveStep
<1>3. Inv => LogsAreLaidOver
  BY DEF LogsAreLaidOver, HiveOK, Applied, Logs
<1> QED BY <1>1, <1>2, <1>3, PTL DEF Spec

-----------------------------------------------------------------------------
(* Accounts of a directory. *)

AccountRows(names) == [table : {"accounts"}, key : names, app : {""}, user : {""}]

\* Rows whose keys are among some names, no two of them the same.
OfNames(rows, names) ==
  /\ rows \in Seq(AccountRows(names))
  /\ \A x, y \in DOMAIN rows : x # y => rows[x].key # rows[y].key

EseOK ==
  /\ made.file.parser = "ntds" /\ stage \in {"catalog", "datatable", "accounts", "broad"}
  /\ DOMAIN mem = {"seen", "records", "tables", "ids", "names", "rows"}
  /\ OfNames(mem.rows, mem.names)
  /\ done = "eof" => OfNames(out, mem.names)

LEMMA EseSteps ==
    ASSUME [Next \/ Stopped]_vars
    PROVE  job' = job /\ (job = "ese" => Ese!Next \/ UNCHANGED Ese!vars)
BY DEF Next, Stopped, Reads, vars, shared, Ese!vars

LEMMA EseInit == ASSUME Ese!Init, made.file.parser = "ntds" PROVE EseOK
<1>1. stage = "catalog" /\ done = "no" /\ mem = [seen |-> {}, records |-> <<>>, tables |-> <<>>, ids |-> {}, names |-> {}, rows |-> <<>>]
  BY DEF Ese!Init
<1>2. OfNames(<<>>, {})
  BY DEF OfNames
<1> QED BY <1>1, <1>2 DEF EseOK

LEMMA Widened ==
    ASSUME NEW A, NEW B, A \subseteq B, NEW s \in Seq(A)
    PROVE  s \in Seq(B)
<1>1. s = [i \in 1..Len(s) |-> s[i]] /\ Len(s) \in Nat /\ \A i \in 1..Len(s) : s[i] \in B
  OBVIOUS
<1>2. s \in [1..Len(s) -> B]
  BY <1>1, Zenon
<1> QED BY <1>1, <1>2

LEMMA MoreNames ==
    ASSUME NEW rows, NEW names, NEW more, OfNames(rows, names)
    PROVE  OfNames(rows, names \cup more)
<1>1. AccountRows(names) \subseteq AccountRows(names \cup more)
  BY DEF AccountRows
<1>2. rows \in Seq(AccountRows(names \cup more))
  <2>1. rows \in Seq(AccountRows(names))
    BY DEF OfNames
  <2> QED BY <1>1, <2>1, Widened
<1> QED BY <1>2 DEF OfNames

\* A row is made for a name that has none.
LEMMA NewAccount ==
    ASSUME NEW rows, NEW names, OfNames(rows, names), NEW key, key \notin names
    PROVE  OfNames(Append(rows, [table |-> "accounts", key |-> key, app |-> "", user |-> ""]), names \cup {key})
<1> DEFINE row == [table |-> "accounts", key |-> key, app |-> "", user |-> ""]
           S == AccountRows(names \cup {key})
<1>1. rows \in Seq(S)
  BY MoreNames DEF OfNames
<1>2. row \in S
  BY DEF AccountRows
<1>3. /\ Append(rows, row) \in Seq(S) /\ DOMAIN Append(rows, row) = DOMAIN rows \cup {Len(rows) + 1}
      /\ Append(rows, row)[Len(rows) + 1] = row /\ Len(rows) + 1 \notin DOMAIN rows
      /\ \A x \in DOMAIN rows : Append(rows, row)[x] = rows[x]
  <2> HIDE DEF S, row
  <2> QED BY <1>1, <1>2
<1>4. \A x \in DOMAIN rows : rows[x].key # row.key
  <2>1. \A x \in DOMAIN rows : rows[x] \in AccountRows(names)
    BY DEF OfNames
  <2>2. \A r \in AccountRows(names) : r.key # row.key
    BY DEF AccountRows
  <2> QED BY <2>1, <2>2
<1>5. ASSUME NEW x \in DOMAIN Append(rows, row), NEW y \in DOMAIN Append(rows, row), x # y
      PROVE  Append(rows, row)[x].key # Append(rows, row)[y].key
  <2> HIDE DEF row
  <2> QED BY <1>3, <1>4, <1>5 DEF OfNames
<1> QED BY <1>3, <1>5 DEF OfNames

LEMMA InsertingAccount == ASSUME EseOK, Ese!InsertRecord PROVE EseOK'
<1> DEFINE r == Head(mem.records)
           m == [mem EXCEPT !.records = Tail(@), !.names = @ \cup Ese!Named(r)]
<1>1. /\ stage \in {"accounts", "broad"} /\ stage' = stage /\ made' = made /\ done = "no" /\ done' = "no"
      /\ \/ mem' = m
         \/ Ese!Decodes(r) /\ mem' = [m EXCEPT !.rows = Append(@, Ese!RowOf(r))]
  BY DEF EseOK, Ese!InsertRecord, Ese!Collected
<1>2. /\ DOMAIN m = DOMAIN mem /\ m.rows = mem.rows /\ m.names = mem.names \cup Ese!Named(r)
      /\ DOMAIN [m EXCEPT !.rows = Append(@, Ese!RowOf(r))] = DOMAIN mem
      /\ [m EXCEPT !.rows = Append(@, Ese!RowOf(r))].rows = Append(mem.rows, Ese!RowOf(r))
      /\ [m EXCEPT !.rows = Append(@, Ese!RowOf(r))].names = m.names
  BY DEF EseOK
<1>3. OfNames(mem.rows, m.names)
  BY <1>2, MoreNames DEF EseOK
<1>4. ASSUME Ese!Decodes(r) PROVE OfNames(Append(mem.rows, Ese!RowOf(r)), m.names)
  <2>1. r.name # "" /\ r.name \notin mem.names
    BY <1>1, <1>4 DEF Ese!Decodes, Ese!IsAccount
  <2>2. Ese!Named(r) = {r.name}
    BY <2>1 DEF Ese!Named, Ese!file, EseOK
  <2>3. Ese!RowOf(r) = [table |-> "accounts", key |-> r.name, app |-> "", user |-> ""]
    BY <1>1 DEF Ese!RowOf
  <2> QED BY <1>2, <2>1, <2>2, <2>3, NewAccount DEF EseOK
<1> HIDE DEF m
<1> QED BY <1>1, <1>2, <1>3, <1>4 DEF EseOK

LEMMA EseStep == ASSUME EseOK, Ese!Next PROVE EseOK'
<1> USE DEF Ese!Collected, Ese!Ready, Ese!file
<1>1. CASE Ese!TooShort \/ Ese!PassPage \/ Ese!NoTable \/ Ese!ReadAccounts
  BY <1>1 DEF EseOK, Ese!TooShort, Ese!PassPage, Ese!NoTable, Ese!ReadAccounts, Ese!Walking
<1>2. CASE Ese!VisitPage
  <2>1. /\ made' = made /\ stage' = stage /\ done' = done /\ done = "no"
        /\ DOMAIN mem' = DOMAIN mem /\ mem'.rows = mem.rows /\ mem'.names = mem.names
    BY <1>2 DEF EseOK, Ese!VisitPage, Ese!Walking
  <2> QED BY <2>1 DEF EseOK
<1>3. CASE Ese!ReadCatalog
  <2>1. /\ made' = made /\ done' = done /\ done = "no" /\ stage' = "datatable"
        /\ DOMAIN mem' = DOMAIN mem /\ mem'.rows = <<>> /\ mem'.names = mem.names
    BY <1>3 DEF EseOK, Ese!ReadCatalog, Ese!Enter, Ese!FirstTable
  <2>2. OfNames(<<>>, mem.names)
    BY DEF OfNames
  <2> QED BY <2>1, <2>2 DEF EseOK
<1>4. CASE Ese!InsertRecord
  BY <1>4, InsertingAccount
<1>5. CASE Ese!SearchAccounts
  <2>1. /\ made' = made /\ done' = done /\ done = "no" /\ stage' = "broad"
        /\ DOMAIN mem' = DOMAIN mem /\ mem'.rows = mem.rows /\ mem'.names = mem.names
    BY <1>5 DEF EseOK, Ese!SearchAccounts
  <2> QED BY <2>1 DEF EseOK
<1>6. CASE Ese!CommitAccounts
  BY <1>6 DEF EseOK, Ese!CommitAccounts, Ese!Finish
<1>7. ~ (Ese!ReadIds \/ Ese!CommitTable \/ Ese!CommitFiles)
  BY DEF EseOK, Ese!ReadIds, Ese!CommitTable, Ese!CommitFiles
<1> QED BY <1>1, <1>2, <1>3, <1>4, <1>5, <1>6, <1>7 DEF Ese!Next

\* No two of the accounts that are stored have one name, however the records of the table
\* repeat it, when inserts fail, and when the search of the whole file has made the rows.
AccountsAreDistinct ==
  (job = "ese" /\ made.file.parser = "ntds" /\ done = "eof")
     => \A x, y \in DOMAIN out : x # y => out[x].key # out[y].key

\* The seen map of the ntds parser.
THEOREM AccountsOnce == Spec => []AccountsAreDistinct
<1> DEFINE Inv == job = "ese" => (made.file.parser = "ntds" => EseOK)
<1>1. Init => Inv
  BY EseInit DEF Init
<1>2. Inv /\ [Next \/ Stopped]_vars => Inv'
  <2>1. ASSUME EseOK, UNCHANGED Ese!vars PROVE EseOK'
    BY <2>1 DEF EseOK, Ese!vars
  <2>2. ASSUME Ese!Next PROVE made' = made
    BY <2>2 DEF Ese!Next, Ese!TooShort, Ese!VisitPage, Ese!PassPage, Ese!ReadCatalog, Ese!NoTable, Ese!ReadIds,
                Ese!ReadAccounts, Ese!InsertRecord, Ese!CommitTable, Ese!CommitFiles, Ese!SearchAccounts,
                Ese!CommitAccounts, Ese!Finish
  <2>3. (Ese!Next \/ UNCHANGED Ese!vars) => made' = made
    BY <2>2 DEF Ese!vars
  <2> QED BY <2>1, <2>3, EseSteps, EseStep
<1>3. Inv => AccountsAreDistinct
  BY DEF AccountsAreDistinct, EseOK, OfNames
<1> QED BY <1>1, <1>2, <1>3, PTL DEF Spec

-----------------------------------------------------------------------------
(* Messages of a mailbox. *)

IsSequence(s) == Len(s) \in Nat /\ s = [i \in 1..Len(s) |-> s[i]]

\* A row that comes with a message has it before it, and no two messages have one number.
InOrder(rows) ==
  /\ \A i \in DOMAIN rows : \E j \in 1..i : rows[j].table = "emails" /\ rows[j].id = rows[i].id
  /\ \A i, j \in DOMAIN rows :
       (rows[i].table = "emails" /\ rows[j].table = "emails" /\ rows[i].id = rows[j].id) => i = j

\* What is queued is the rest of one message, the last: it begins with the message itself, or
\* the message is stored.
QueueOK(queue, rows, id) ==
  /\ \A i \in DOMAIN queue : queue[i].id = id /\ (i > 1 => queue[i].table # "emails")
  /\ queue # <<>> =>
       \/ queue[1].table = "emails" /\ \A j \in DOMAIN rows : rows[j].id # id
       \/ queue[1].table # "emails" /\ \E j \in DOMAIN rows : rows[j].table = "emails" /\ rows[j].id = id

MailFields == {"subject", "text", "html", "atts", "lines", "good"}
MemFields == {"fats", "difats", "fat", "miniFat", "dir", "miniStream", "streams", "got", "seen", "mail", "id", "queue"}
MboxOK ==
  /\ made.file.kind = "mbox" /\ stage \in {"open", "before", "in", "rows", "fails"}
  /\ DOMAIN mem = MemFields /\ DOMAIN mem.mail = MailFields
  /\ IsSequence(out) /\ IsSequence(mem.queue) /\ IsSequence(mem.mail.atts)
  /\ mem.id \in Nat /\ \A j \in DOMAIN out : out[j].id \in 0..mem.id
  /\ QueueOK(mem.queue, out, mem.id) /\ InOrder(out)

LEMMA DocumentSteps ==
    ASSUME [Next \/ Stopped]_vars
    PROVE  job' = job /\ (job = "documents" => Documents!Next \/ UNCHANGED Documents!vars)
BY DEF Next, Stopped, Reads, vars, shared, Documents!vars

LEMMA SequenceIs ==
    ASSUME NEW s, IsSequence(s)
    PROVE  s \in Seq({s[i] : i \in 1..Len(s)}) /\ Len(s) \in Nat /\ DOMAIN s = 1..Len(s)
<1> DEFINE S == {s[i] : i \in 1..Len(s)}
<1>1. s \in [1..Len(s) -> S] /\ Len(s) \in Nat
  BY DEF IsSequence
<1> HIDE DEF S
<1>2. s \in Seq(S)
  BY <1>1
<1> QED BY <1>1, <1>2 DEF S

LEMMA IsSequenceOf ==
    ASSUME NEW S, NEW s \in Seq(S)
    PROVE  IsSequence(s)
BY DEF IsSequence

LEMMA Appended ==
    ASSUME NEW s, IsSequence(s), NEW e
    PROVE  /\ IsSequence(Append(s, e)) /\ DOMAIN Append(s, e) = 1..(Len(s) + 1)
           /\ Append(s, e)[Len(s) + 1] = e /\ \A i \in 1..Len(s) : Append(s, e)[i] = s[i]
<1> DEFINE S == {s[i] : i \in 1..Len(s)}
           T == S \cup {e}
<1>1. s \in Seq(S) /\ S \subseteq T /\ e \in T
  BY SequenceIs
<1> HIDE DEF S, T
<1>2. s \in Seq(T)
  BY <1>1, Widened
<1>3. Append(s, e) \in Seq(T)
  BY <1>1, <1>2
<1>4. IsSequence(Append(s, e))
  BY <1>3, IsSequenceOf
<1> QED BY <1>1, <1>2, <1>4

LEMMA TailOf ==
    ASSUME NEW s, IsSequence(s), s # <<>>
    PROVE  /\ IsSequence(Tail(s)) /\ DOMAIN Tail(s) = 1..(Len(s) - 1) /\ Len(s) \in Nat \ {0}
           /\ Head(s) = s[1] /\ DOMAIN s = 1..Len(s) /\ \A i \in 1..(Len(s) - 1) : Tail(s)[i] = s[i + 1]
<1> DEFINE S == {s[i] : i \in 1..Len(s)}
<1>1. s \in Seq(S)
  BY SequenceIs
<1> HIDE DEF S
<1>2. Tail(s) \in Seq(S)
  BY <1>1
<1>3. IsSequence(Tail(s))
  BY <1>2, IsSequenceOf
<1> QED BY <1>1, <1>3

LEMMA Joined ==
    ASSUME NEW s, NEW t, IsSequence(s), IsSequence(t)
    PROVE  /\ IsSequence(s \o t) /\ Len(s \o t) = Len(s) + Len(t)
           /\ \A i \in 1..Len(s) : (s \o t)[i] = s[i]
           /\ \A i \in 1..(Len(s) + Len(t)) : i > Len(s) => (s \o t)[i] = t[i - Len(s)] /\ i - Len(s) \in 1..Len(t)
<1> DEFINE S == {s[i] : i \in 1..Len(s)} \cup {t[i] : i \in 1..Len(t)}
<1>1. s \in Seq({s[i] : i \in 1..Len(s)}) /\ t \in Seq({t[i] : i \in 1..Len(t)})
  BY SequenceIs
<1>2. s \in Seq(S) /\ t \in Seq(S)
  <2>1. {s[i] : i \in 1..Len(s)} \subseteq S /\ {t[i] : i \in 1..Len(t)} \subseteq S
    OBVIOUS
  <2> HIDE DEF S
  <2> QED BY <1>1, <2>1, Widened
<1> HIDE DEF S
<1>3. s \o t \in Seq(S)
  BY <1>2
<1>4. IsSequence(s \o t)
  BY <1>3, IsSequenceOf
<1> QED BY <1>2, <1>4

\* A message comes first of its rows.
LEMMA RowsOfMail ==
    ASSUME NEW id, NEW m, IsSequence(m.atts)
    PROVE  LET rows == Documents!MailRows(id, m)
           IN  /\ IsSequence(rows) /\ rows # <<>> /\ rows[1].table = "emails"
               /\ \A i \in DOMAIN rows : rows[i].id = id /\ (i > 1 => rows[i].table # "emails")
<1> DEFINE head == <<[table |-> "emails", id |-> id, subject |-> m.subject, text |-> m.text, html |-> m.html, has |-> m.atts # <<>>]>>
           atts == [i \in DOMAIN m.atts |-> [table |-> "attachments", id |-> id, att |-> m.atts[i]]]
           urls == IF m.text \o m.html = <<>> THEN <<>> ELSE <<[table |-> "urls", id |-> id]>>
<1>1. Documents!MailRows(id, m) = (head \o atts) \o urls
  BY DEF Documents!MailRows
<1>2. /\ IsSequence(head) /\ Len(head) = 1 /\ head[1].table = "emails" /\ head[1].id = id
  BY DEF IsSequence
<1>3. /\ IsSequence(atts) /\ Len(atts) \in Nat
      /\ \A i \in 1..Len(atts) : atts[i].table # "emails" /\ atts[i].id = id
  <2>1. DOMAIN m.atts = 1..Len(m.atts) /\ Len(m.atts) \in Nat
    BY SequenceIs
  <2>2. atts = [i \in 1..Len(m.atts) |-> [table |-> "attachments", id |-> id, att |-> m.atts[i]]]
    BY <2>1
  <2>3. \A n \in Nat : \A f : f = [i \in 1..n |-> f[i]] => Len(f) = n
    OBVIOUS
  <2>4. Len(atts) = Len(m.atts)
    BY <2>1, <2>2
  <2> QED BY <2>1, <2>2, <2>4 DEF IsSequence
<1>4. /\ IsSequence(urls) /\ Len(urls) \in Nat
      /\ \A i \in 1..Len(urls) : urls[i].table # "emails" /\ urls[i].id = id
  BY DEF IsSequence
<1> HIDE DEF head, atts, urls
<1> DEFINE both == head \o atts
           rows == both \o urls
<1>5. /\ IsSequence(both) /\ Len(both) = 1 + Len(atts) /\ both[1] = head[1]
      /\ \A i \in 1..(1 + Len(atts)) : i > 1 => both[i].table # "emails" /\ both[i].id = id
  <2>1. /\ IsSequence(both) /\ Len(both) = 1 + Len(atts) /\ both[1] = head[1]
        /\ \A i \in 1..(1 + Len(atts)) : i > 1 => both[i] = atts[i - 1] /\ i - 1 \in 1..Len(atts)
    <3>1. /\ IsSequence(head \o atts) /\ Len(head \o atts) = Len(head) + Len(atts)
          /\ \A i \in 1..Len(head) : (head \o atts)[i] = head[i]
          /\ \A i \in 1..(Len(head) + Len(atts)) : i > Len(head) => (head \o atts)[i] = atts[i - Len(head)] /\ i - Len(head) \in 1..Len(atts)
      BY <1>2, <1>3, Joined
    <3>2. Len(head) = 1
      BY <1>2
    <3> QED BY <3>1, <3>2
  <2> HIDE DEF both
  <2> QED BY <1>3, <2>1
<1> HIDE DEF both
<1>6. /\ IsSequence(rows) /\ Len(rows) = Len(both) + Len(urls) /\ rows[1] = both[1]
      /\ \A i \in 1..Len(both) : rows[i] = both[i]
      /\ \A i \in 1..(Len(both) + Len(urls)) : i > Len(both) => rows[i] = urls[i - Len(both)] /\ i - Len(both) \in 1..Len(urls)
  <2>1. Len(both) \in Nat /\ 1 \in 1..Len(both)
    BY <1>3, <1>5
  <2> QED BY <1>4, <1>5, <2>1, Joined
<1>7. Documents!MailRows(id, m) = rows
  BY <1>1 DEF both
<1> HIDE DEF rows
<1>8. DOMAIN rows = 1..Len(rows) /\ Len(rows) \in Nat \ {0}
  BY <1>3, <1>4, <1>5, <1>6, SequenceIs
<1>9. rows # <<>>
  BY <1>8
<1>10. ASSUME NEW i \in DOMAIN rows PROVE rows[i].id = id /\ (i > 1 => rows[i].table # "emails")
  <2>1. CASE i = 1
    BY <1>2, <1>5, <1>6, <2>1
  <2>2. CASE i > 1 /\ i <= Len(both)
    BY <1>3, <1>5, <1>6, <1>8, <2>2
  <2>3. CASE i > Len(both)
    BY <1>3, <1>4, <1>5, <1>6, <1>8, <2>3
  <2> QED BY <1>3, <1>5, <1>8, <2>1, <2>2, <2>3
<1> QED BY <1>2, <1>5, <1>6, <1>7, <1>9, <1>10

LEMMA MboxInit == ASSUME Documents!Init, made.file.kind = "mbox" PROVE MboxOK
<1>1. /\ stage = "open" /\ out = <<>>
      /\ mem = [fats |-> <<>>, difats |-> 0, fat |-> <<>>, miniFat |-> <<>>, dir |-> <<>>, miniStream |-> <<>>,
                streams |-> <<>>, got |-> <<>>, seen |-> {}, mail |-> Documents!NoMail, id |-> 0, queue |-> <<>>]
  BY DEF Documents!Init
<1>2. DOMAIN mem = MemFields /\ mem.mail = Documents!NoMail /\ mem.id = 0 /\ mem.queue = <<>>
  BY <1>1 DEF MemFields
<1>3. DOMAIN Documents!NoMail = MailFields /\ Documents!NoMail.atts = <<>>
  BY DEF Documents!NoMail, MailFields
<1>4. IsSequence(<<>>) /\ QueueOK(<<>>, <<>>, 0) /\ InOrder(<<>>)
  BY DEF IsSequence, QueueOK, InOrder
<1> QED BY <1>1, <1>2, <1>3, <1>4 DEF MboxOK

\* What was read of a message becomes its rows, when the next one begins or the box ends.
LEMMA Flushing ==
    ASSUME MboxOK, mem.queue = <<>>, mem' = Documents!Flushed, UNCHANGED <<made, out>>,
           stage' \in {"open", "before", "in", "rows", "fails"}
    PROVE  MboxOK'
<1> DEFINE id == mem.id + 1
           rows == Documents!MailRows(id, mem.mail)
<1>1. DOMAIN Documents!NoMail = MailFields /\ IsSequence(Documents!NoMail.atts)
  BY DEF Documents!NoMail, MailFields, IsSequence
<1>2. CASE stage = "in" /\ mem.mail.lines > 0 /\ mem.mail.good
  <2>1. mem' = [mem EXCEPT !.id = @ + 1, !.queue = rows, !.mail = Documents!NoMail]
    BY <1>2 DEF Documents!Flushed
  <2>2. mem'.id = id /\ mem'.queue = rows /\ mem'.mail = Documents!NoMail /\ DOMAIN mem' = MemFields
    <3> HIDE DEF rows
    <3> QED BY <2>1 DEF MboxOK, MemFields
  <2>3. /\ IsSequence(rows) /\ rows # <<>> /\ rows[1].table = "emails"
        /\ \A i \in DOMAIN rows : rows[i].id = id /\ (i > 1 => rows[i].table # "emails")
    BY RowsOfMail DEF MboxOK
  <2> HIDE DEF rows
  <2>4. mem.id \in Nat /\ \A j \in DOMAIN out : out[j].id \in 0..mem.id
    BY DEF MboxOK
  <2>5. id \in Nat /\ \A j \in DOMAIN out : out[j].id \in 0..id /\ out[j].id # id
    BY <2>4
  <2>6. QueueOK(rows, out, id)
    BY <2>3, <2>5 DEF QueueOK
  <2> HIDE DEF id
  <2> QED BY <1>1, <2>2, <2>3, <2>5, <2>6 DEF MboxOK
<1>3. CASE ~ (stage = "in" /\ mem.mail.lines > 0 /\ mem.mail.good)
  <2>1. mem' = [mem EXCEPT !.mail = Documents!NoMail]
    BY <1>3 DEF Documents!Flushed
  <2>2. mem'.id = mem.id /\ mem'.queue = mem.queue /\ mem'.mail = Documents!NoMail /\ DOMAIN mem' = MemFields
    BY <2>1 DEF MboxOK, MemFields
  <2> QED BY <1>1, <2>2 DEF MboxOK
<1> QED BY <1>2, <1>3

LEMMA TakingLine == ASSUME MboxOK, Documents!TakeLine PROVE MboxOK'
<1> DEFINE part == Documents!Line.part
           mail == Documents!Walk(mem.mail, part)
           att == [name |-> part.name, data |-> part.data]
<1>1. /\ made' = made /\ out' = out /\ stage' = stage
      /\ mem' = IF stage = "in" THEN [mem EXCEPT !.mail = mail] ELSE mem
  BY DEF Documents!TakeLine
<1>2. DOMAIN mail = MailFields /\ IsSequence(mail.atts)
  <2>1. DOMAIN mail = DOMAIN mem.mail
    BY DEF Documents!Walk
  <2>2. mail.atts = mem.mail.atts \/ mail.atts = Append(mem.mail.atts, att)
    BY DEF Documents!Walk, MboxOK, MailFields
  <2> HIDE DEF mail
  <2>3. DOMAIN mem.mail = MailFields /\ IsSequence(mem.mail.atts)
    BY DEF MboxOK
  <2> HIDE DEF att
  <2>4. IsSequence(Append(mem.mail.atts, att))
    BY <2>3, Appended
  <2> QED BY <2>1, <2>2, <2>3, <2>4
<1> HIDE DEF mail
<1>3. CASE stage = "in"
  <2>1. mem'.id = mem.id /\ mem'.queue = mem.queue /\ mem'.mail = mail /\ DOMAIN mem' = MemFields
    BY <1>1, <1>3 DEF MboxOK, MemFields
  <2> QED BY <1>1, <1>2, <2>1 DEF MboxOK
<1>4. CASE stage # "in"
  BY <1>1, <1>4 DEF MboxOK
<1> QED BY <1>3, <1>4

\* A row is stored behind those that are, or it is not and, if it is the message, neither are
\* the ones that came with it.
LEMMA StoringRow == ASSUME MboxOK, Documents!StoreRow PROVE MboxOK'
<1> DEFINE queue == mem.queue
           row == queue[1]
           rest == Tail(queue)
<1>1. /\ IsSequence(queue) /\ queue # <<>> /\ IsSequence(rest) /\ Head(queue) = row
      /\ DOMAIN rest = 1..(Len(queue) - 1) /\ Len(queue) \in Nat \ {0} /\ DOMAIN queue = 1..Len(queue)
      /\ \A i \in 1..(Len(queue) - 1) : rest[i] = queue[i + 1]
  <2>1. IsSequence(queue) /\ queue # <<>>
    BY DEF MboxOK, Documents!StoreRow
  <2> HIDE DEF queue
  <2> QED BY <2>1, TailOf
<1>2. /\ made' = made /\ stage' = stage
      /\ \/ out' = Append(out, row) /\ mem' = [mem EXCEPT !.queue = rest]
         \/ out' = out /\ mem' = [mem EXCEPT !.queue = IF row.table = "emails" THEN <<>> ELSE rest]
  BY <1>1 DEF Documents!StoreRow, Documents!WithoutMessage
<1> HIDE DEF rest
<1>3. /\ DOMAIN mem' = MemFields /\ mem'.mail = mem.mail /\ mem'.id = mem.id
      /\ \/ out' = Append(out, row) /\ mem'.queue = rest
         \/ out' = out /\ mem'.queue = IF row.table = "emails" THEN <<>> ELSE rest
  BY <1>2 DEF MboxOK, MemFields
<1>4. \A i \in DOMAIN rest : rest[i].id = mem.id /\ rest[i].table # "emails"
  <2>1. \A i \in DOMAIN queue : queue[i].id = mem.id /\ (i > 1 => queue[i].table # "emails")
    BY DEF MboxOK, QueueOK
  <2>2. \A i \in DOMAIN rest : i + 1 \in DOMAIN queue /\ i + 1 > 1 /\ rest[i] = queue[i + 1]
    <3> HIDE DEF queue
    <3> QED BY <1>1
  <2> QED BY <2>1, <2>2
<1>5. rest # <<>> => 1 \in DOMAIN rest
  <2>1. IsSequence(rest)
    BY <1>1
  <2>2. rest # <<>> => Len(rest) # 0
    BY <2>1, SequenceIs
  <2> QED BY <2>1, <2>2, SequenceIs
<1>6. row.id = mem.id /\ mem.id \in Nat /\ \A j \in DOMAIN out : out[j].id \in 0..mem.id
  BY <1>1 DEF MboxOK, QueueOK
<1>7. \/ row.table = "emails" /\ \A j \in DOMAIN out : out[j].id # mem.id
      \/ row.table # "emails" /\ \E j \in DOMAIN out : out[j].table = "emails" /\ out[j].id = mem.id
  BY <1>1 DEF MboxOK, QueueOK
<1>8. IsSequence(out) /\ DOMAIN out = 1..Len(out) /\ Len(out) \in Nat
  BY SequenceIs DEF MboxOK
<1>9. CASE out' = Append(out, row) /\ mem'.queue = rest
  <2> DEFINE new == Append(out, row)
  <2>1. /\ IsSequence(new) /\ DOMAIN new = 1..(Len(out) + 1) /\ new[Len(out) + 1] = row
        /\ \A i \in 1..Len(out) : new[i] = out[i]
    BY <1>8, Appended
  <2> HIDE DEF new, row, queue
  <2>2. \A j \in DOMAIN new : new[j].id \in 0..mem.id
    BY <1>6, <1>8, <2>1
  <2>3. \E j \in DOMAIN new : new[j].table = "emails" /\ new[j].id = mem.id
    BY <1>6, <1>7, <1>8, <2>1
  <2>4. QueueOK(rest, new, mem.id)
    BY <1>4, <1>5, <2>3 DEF QueueOK
  <2>5. InOrder(out)
    BY DEF MboxOK
  <2>6. ASSUME NEW i \in DOMAIN new PROVE \E j \in 1..i : new[j].table = "emails" /\ new[j].id = new[i].id
    <3>1. CASE i \in 1..Len(out)
      <4>1. PICK j \in 1..i : out[j].table = "emails" /\ out[j].id = out[i].id
        BY <1>8, <2>5, <3>1 DEF InOrder
      <4>2. j \in 1..Len(out)
        BY <1>8, <3>1
      <4> QED BY <2>1, <3>1, <4>1, <4>2
    <3>2. CASE i = Len(out) + 1
      BY <1>6, <2>1, <2>3, <3>2
    <3> QED BY <1>8, <2>1, <3>1, <3>2
  <2>7. ASSUME NEW i \in DOMAIN new, NEW j \in DOMAIN new,
               new[i].table = "emails" /\ new[j].table = "emails" /\ new[i].id = new[j].id
        PROVE  i = j
    <3>1. CASE i \in 1..Len(out) /\ j \in 1..Len(out)
      BY <1>8, <2>1, <2>5, <2>7, <3>1 DEF InOrder
    <3>2. \A k \in 1..Len(out) : ~ (row.table = "emails" /\ new[k].id = row.id)
      BY <1>6, <1>7, <1>8, <2>1
    <3> QED BY <1>8, <2>1, <2>7, <3>1, <3>2
  <2>8. InOrder(new)
    BY <2>6, <2>7 DEF InOrder
  <2> QED BY <1>1, <1>2, <1>3, <1>9, <2>1, <2>2, <2>4, <2>8 DEF MboxOK, new
<1>10. CASE out' = out /\ mem'.queue = IF row.table = "emails" THEN <<>> ELSE rest
  <2>1. IsSequence(<<>>) /\ QueueOK(<<>>, out, mem.id)
    BY DEF IsSequence, QueueOK
  <2>2. row.table # "emails" => QueueOK(rest, out, mem.id)
    BY <1>4, <1>5, <1>7 DEF QueueOK
  <2> HIDE DEF row, queue
  <2> QED BY <1>1, <1>2, <1>3, <1>10, <2>1, <2>2 DEF MboxOK
<1> QED BY <1>3, <1>9, <1>10

LEMMA MboxStep == ASSUME MboxOK, Documents!Next PROVE MboxOK'
<1> USE DEF Documents!At, Documents!AtEnd, Documents!Goto, Documents!InBox, Documents!file
<1>1. CASE Documents!OpenFails \/ Documents!Finish
  BY <1>1 DEF MboxOK, Documents!OpenFails, Documents!Finish
<1>2. CASE Documents!OpenMbox
  BY <1>2 DEF MboxOK, Documents!OpenMbox
<1>3. CASE Documents!Envelope \/ Documents!EndOfBox
  <2>1. /\ mem.queue = <<>> /\ mem' = Documents!Flushed /\ UNCHANGED <<made, out>>
        /\ stage' \in {"open", "before", "in", "rows", "fails"}
    BY <1>3 DEF Documents!Envelope, Documents!EndOfBox
  <2> QED BY <2>1, Flushing
<1>4. CASE Documents!TakeLine
  BY <1>4, TakingLine
<1>5. CASE Documents!StoreRow
  BY <1>5, StoringRow
<1>6. ~ (Documents!OpenCompound \/ Documents!ReadDifat \/ Documents!BuildFat \/ Documents!ReadSector
           \/ Documents!EndMiniFat \/ Documents!EndDirectory \/ Documents!EndRoot \/ Documents!OpenStream
           \/ Documents!EndStream \/ Documents!HeaderIsCut \/ Documents!GoesRound)
  BY DEF MboxOK, Documents!HeaderIsCut, Documents!GoesRound, Documents!Circles, Documents!OpenCompound, Documents!ReadDifat, Documents!BuildFat, Documents!ReadSector, Documents!Chains,
         Documents!EndMiniFat, Documents!EndDirectory, Documents!EndRoot, Documents!OpenStream, Documents!EndStream
<1>7. ~ (Documents!ReadAuto \/ Documents!ReadCustom \/ Documents!ReadMsg \/ Documents!TreeFails \/ Documents!ReadEml)
  BY DEF MboxOK, Documents!ReadAuto, Documents!ReadCustom, Documents!ReadMsg, Documents!TreeFails, Documents!IsMsg,
         Documents!ReadEml, Documents!HasStreams
<1> QED BY <1>1, <1>2, <1>3, <1>4, <1>5, <1>6, <1>7 DEF Documents!Next

\* Of a mailbox no attachment and no address is stored without the message it came with, which
\* is there before it, and no two messages have one number.
MailIsInOrder == (job = "documents" /\ made.file.kind = "mbox") => InOrder(out)

\* insertEmailFull over a mailbox, whatever its lines are and whichever inserts fail.
THEOREM MailboxInOrder == Spec => []MailIsInOrder
<1> DEFINE Inv == job = "documents" => (made.file.kind = "mbox" => MboxOK)
<1>1. Init => Inv
  BY MboxInit DEF Init
<1>2. Inv /\ [Next \/ Stopped]_vars => Inv'
  <2>1. ASSUME MboxOK, UNCHANGED Documents!vars PROVE MboxOK'
    BY <2>1 DEF MboxOK, Documents!vars
  <2>2. ASSUME Documents!Next PROVE made' = made
    BY <2>2 DEF Documents!Next, Documents!OpenFails, Documents!OpenCompound, Documents!ReadDifat, Documents!BuildFat,
                Documents!ReadSector, Documents!EndMiniFat, Documents!EndDirectory, Documents!EndRoot,
                Documents!OpenStream, Documents!EndStream, Documents!ReadAuto, Documents!ReadCustom, Documents!ReadMsg,
                Documents!HeaderIsCut, Documents!GoesRound, Documents!TreeFails, Documents!Crash, Documents!vars, Documents!ReadEml, Documents!OpenMbox, Documents!Envelope, Documents!TakeLine, Documents!EndOfBox,
                Documents!StoreRow, Documents!Finish
  <2>3. (Documents!Next \/ UNCHANGED Documents!vars) => made' = made
    BY <2>2 DEF Documents!vars
  <2> QED BY <2>1, <2>3, DocumentSteps, MboxStep
<1>3. Inv => MailIsInOrder
  BY DEF MailIsInOrder, MboxOK
<1> QED BY <1>1, <1>2, <1>3, PTL DEF Spec
=============================================================================
