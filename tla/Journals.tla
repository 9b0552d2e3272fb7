-------------------------------- MODULE Journals --------------------------------
(***************************************************************************)
(* The parsers of records that follow one another: usnjrnl, logfile, evtx   *)
(* and mft.  A file has kind and                                            *)
(*   "usn"   data, eight bytes to a cell, each as a record's head would be   *)
(*           read there: [len (in cells), major, usn]                        *)
(*   "log"   pages [sig, next, cells], a cell [lsn, op, redo, near]: op is   *)
(*           "bad", "unknown", "other" or "active", and redo and near the    *)
(*           names in the redo data and behind the record                    *)
(*   "evtx"  good, channel and chunks [ok, records], a record [event, id,   *)
(*           no]                                                             *)
(*   "mft"   rows, from the external go-ntfs                                 *)
(***************************************************************************)
EXTENDS Integers, Sequences, SequencesExt

CONSTANTS JournalFiles,    \* [file, holds, at, hurt], see JournalAssumption
          BlockCells,      \* a block of the journal (512 bytes)
          MinCells,        \* the shortest record of it (60 bytes)
          LogHeader, LogFirst, LogCells,    \* 28, 40 and 72 bytes
          MaxRowFaults     \* bound: inserts that fail

VARIABLES made, stage,     \* the page or chunk the parser is at
          pos,             \* the cell or record in it
          mem,             \* rows of the open transaction
          aux,             \* inserts that have failed
          out, done
vars == <<made, stage, pos, mem, aux, out, done>>
file == made.file

FirstPage == 3     \* the two restart pages are left out
LogStart(pages, n) ==
  IF n > Len(pages) THEN 0
  ELSE LET p == pages[n]
       IN IF p.next < LogHeader \/ p.next >= Len(p.cells) THEN LogFirst ELSE p.next

Init == /\ made \in JournalFiles /\ mem = <<>> /\ aux = 0 /\ out = <<>> /\ done = "no"
        /\ IF file.kind = "log" THEN stage = FirstPage /\ pos = LogStart(file.pages, FirstPage)
           ELSE stage = 1 /\ pos = IF file.kind = "usn" THEN 0 ELSE 1

In(kind) == file.kind = kind /\ done = "no"
Fault == aux < MaxRowFaults /\ aux' = aux + 1
NoFault == UNCHANGED aux
-----------------------------------------------------------------------------
(* usnjrnl: every row is stored as it is read. *)

Size == Len(file.data)
At(p) == file.data[p + 1]
BlockAfter(p) == p + BlockCells      \* FAULTY: as far as a block, not to its end
NextBlock(p) == ((p \div BlockCells) + 1) * BlockCells
IsRecord(d, p) == d[p + 1].len >= MinCells /\ p + d[p + 1].len <= Len(d) /\ d[p + 1].major = 2

EndOfJournal ==
  /\ In("usn") /\ (IF pos >= Size THEN TRUE
                   ELSE IF At(pos).len = 0 THEN NextBlock(pos) > Size ELSE pos + MinCells > Size)
  /\ done' = "eof" /\ UNCHANGED <<made, stage, pos, mem, aux, out>>

\* Four zero bytes are a sparse block, or the end of one.
SkipBlock ==
  /\ In("usn") /\ pos < Size /\ At(pos).len = 0 /\ NextBlock(pos) <= Size
  /\ pos' = NextBlock(pos) /\ UNCHANGED <<made, stage, mem, aux, out, done>>

Resync ==
  /\ In("usn") /\ pos + MinCells <= Size /\ At(pos).len # 0 /\ ~IsRecord(file.data, pos)
  /\ pos' = pos + 1 /\ UNCHANGED <<made, stage, mem, aux, out, done>>

TakeRecord ==
  /\ In("usn") /\ pos + MinCells <= Size /\ At(pos).len # 0 /\ IsRecord(file.data, pos)
  /\ \/ NoFault /\ out' = Append(out, At(pos).usn)
     \/ Fault /\ UNCHANGED out
  /\ pos' = pos + At(pos).len /\ UNCHANGED <<made, stage, mem, done>>
-----------------------------------------------------------------------------
(* logfile: the operations on files, a record's length apart whatever length *)
(* they have.                                                                *)

Cell == file.pages[stage].cells[pos + 1]
HasRoom == pos + LogCells <= Len(file.pages[stage].cells)
OnPage == In("log") /\ stage <= Len(file.pages) /\ file.pages[stage].sig
Operation(c) == [lsn |-> c.lsn, name |-> IF c.redo # "" THEN c.redo ELSE c.near]

TooShort == /\ In("log") /\ Len(file.pages) < 3
            /\ done' = "err" /\ UNCHANGED <<made, stage, pos, mem, aux, out>>

NextPage ==
  /\ In("log") /\ stage <= Len(file.pages) /\ (file.pages[stage].sig => ~HasRoom)
  /\ stage' = stage + 1 /\ pos' = LogStart(file.pages, stage + 1) /\ UNCHANGED <<made, mem, aux, out, done>>

Retry == /\ OnPage /\ HasRoom /\ Cell.op \in {"bad", "unknown"}
         /\ pos' = pos + 1 /\ UNCHANGED <<made, stage, mem, aux, out, done>>

PassOver == /\ OnPage /\ HasRoom /\ Cell.op = "other"
            /\ pos' = pos + LogCells /\ UNCHANGED <<made, stage, mem, aux, out, done>>

TakeOperation ==
  /\ OnPage /\ HasRoom /\ Cell.op = "active"
  /\ \/ NoFault /\ mem' = Append(mem, Operation(Cell))
     \/ Fault /\ UNCHANGED mem
  /\ pos' = pos + LogCells /\ UNCHANGED <<made, stage, out, done>>
-----------------------------------------------------------------------------
(* evtx: an event, and the row that its number asks for. *)

Has(part) == part \in file.channel
Route(id) ==
  CASE id \in {4624, 4625, 4648} -> "auth_events"
    [] id \in {4768, 4769} -> "kerberos_events"
    [] id = 4104 /\ Has("PowerShell") -> "ps_scriptblock"
    [] id \in {1116, 1117} -> "defender_events"
    [] id = 4688 -> "proc_creation"
    [] id = 1 /\ Has("Sysmon") -> "sysmon_process"
    [] id = 3 /\ Has("Sysmon") -> "sysmon_network"
    [] id = 7 /\ Has("Sysmon") -> "sysmon_imageload"
    [] id = 11 /\ Has("Sysmon") -> "sysmon_file"
    [] id = 22 /\ Has("Sysmon") -> "sysmon_dns"
    [] OTHER -> ""
NotALog == /\ In("evtx") /\ ~file.good
           /\ done' = "err" /\ UNCHANGED <<made, stage, pos, mem, aux, out>>

EventRow(r) == [table |-> "evtx_events", no |-> r.no]
Routed(r) == IF Route(r.id) = "" THEN <<>> ELSE <<[table |-> Route(r.id), no |-> r.no]>>

InChunks == In("evtx") /\ file.good /\ stage <= Len(file.chunks)
Record == file.chunks[stage].records[pos]
HasRecord == InChunks /\ file.chunks[stage].ok /\ pos <= Len(file.chunks[stage].records)

\* A chunk that cannot be parsed, by its error or a panic, is left out.
NextChunk ==
  /\ InChunks /\ ~HasRecord
  /\ stage' = stage + 1 /\ pos' = 1 /\ UNCHANGED <<made, mem, aux, out, done>>

NotAnEvent ==
  /\ HasRecord /\ ~Record.event
  /\ pos' = pos + 1 /\ UNCHANGED <<made, stage, mem, aux, out, done>>

Store(r) ==
  \/ Fault /\ UNCHANGED mem
  \/ NoFault /\ mem' = Append(mem, EventRow(r)) \o Routed(r)
  \/ Fault /\ mem' = Append(mem, EventRow(r)) /\ Routed(r) # <<>>

InsertEvent ==
  /\ HasRecord /\ Record.event /\ Store(Record)
  /\ pos' = pos + 1 /\ UNCHANGED <<made, stage, out, done>>
-----------------------------------------------------------------------------
(* mft: a row per entry. *)

InsertEntry ==
  /\ In("mft") /\ pos <= Len(file.rows)
  /\ \/ NoFault /\ mem' = Append(mem, file.rows[pos])
     \/ Fault /\ UNCHANGED mem
  /\ pos' = pos + 1 /\ UNCHANGED <<made, stage, out, done>>

\* logfile, evtx and mft store everything or nothing.
IsRead == CASE file.kind = "log" -> Len(file.pages) >= 3 /\ stage > Len(file.pages)
            [] file.kind = "evtx" -> file.good /\ stage > Len(file.chunks)
            [] file.kind = "mft" -> pos > Len(file.rows)
            [] OTHER -> FALSE
Commit ==
  /\ done = "no" /\ IsRead
  /\ \/ NoFault /\ out' = mem /\ done' = "eof"
     \/ Fault /\ done' = "err" /\ UNCHANGED out
  /\ UNCHANGED <<made, stage, pos, mem>>

Next == \/ EndOfJournal \/ SkipBlock \/ Resync \/ TakeRecord
        \/ TooShort \/ NextPage \/ Retry \/ PassOver \/ TakeOperation
        \/ NotALog \/ NextChunk \/ NotAnEvent \/ InsertEvent \/ InsertEntry \/ Commit
-----------------------------------------------------------------------------
\* Every variable has its type.
TypeOK == /\ made \in JournalFiles /\ stage \in Nat \ {0} /\ pos \in Nat
          /\ aux \in 0..MaxRowFaults /\ done \in {"no", "eof", "err"}

\* What is known of an artifact: file, and holds, the rows of what the system had written, in
\* order; at, the page and cell where each lies in a journal or log; hurt, the pages of a
\* journal that damage has reached.
Intact(m) == {i \in DOMAIN m.at : m.at[i].page \notin m.hurt}
End(m, i) == m.at[i].cell + m.file.data[m.at[i].cell + 1].len

\* A damaged length that fits the file is believed, however far it reaches: what it reaches over
\* is skipped, and reading goes on in the middle of what it reaches into.
Covers(m, j, i) ==
  /\ j < i /\ m.at[j].page \in m.hurt
  /\ IsRecord(m.file.data, m.at[j].cell) /\ m.at[i].cell < End(m, j)
Reached(m) == {m.at[i].page : i \in {k \in Intact(m) : \E j \in DOMAIN m.at : Covers(m, j, k)}}
Whole(m) == {i \in Intact(m) : m.at[i].page \notin Reached(m)}
Within(m, p) == \E i \in Whole(m) : m.at[i].cell < p /\ p < End(m, i)

\* Records lie one after another, and no whole one begins in the block of four zero bytes
\* behind them. Damage is to the heads of records: what a row of a record says is not damaged,
\* and outside of whole records nothing else looks like the head of one.
IsJournal(m) ==
  LET d == m.file.data
      cell(i) == m.at[i].cell
  IN /\ d \in Seq([len : Nat, major : Nat, usn : STRING])
     /\ m.holds \in Seq(STRING)
     /\ m.at \in Seq([page : Nat, cell : 0..(Len(d) - 1)]) /\ Len(m.at) = Len(m.holds)
     /\ \A i, j \in DOMAIN m.at : i < j => cell(i) < cell(j)
     /\ \A i \in Intact(m) : /\ IsRecord(d, cell(i))
                             /\ \A j \in DOMAIN m.at : i < j => End(m, i) <= cell(j)
     /\ \A i \in DOMAIN m.at : IsRecord(d, cell(i)) => d[cell(i) + 1].usn = m.holds[i]
     /\ \A p \in 0..(Len(d) - 1) : ~Within(m, p) =>
          /\ IsRecord(d, p) => \E i \in DOMAIN m.at : cell(i) = p
          /\ d[p + 1].len = 0 => \A i \in Whole(m) : p < cell(i) => p \div BlockCells < cell(i) \div BlockCells

\* The operations are those of the pages with a signature, a record's length apart, and nothing
\* else looks like one.
IsLog(m) ==
  LET pages == m.file.pages
      scanned(n) == LogStart(pages, n)..(Len(pages[n].cells) - LogCells)
      page(i) == m.at[i].page
      cell(i) == m.at[i].cell
  IN /\ pages \in Seq([sig : BOOLEAN, next : Nat,
                       cells : Seq([op : STRING, lsn : Nat, redo : STRING, near : STRING])])
     /\ m.holds \in Seq([lsn : Nat, name : STRING])
     /\ m.at \in Seq([page : FirstPage..Len(pages), cell : Nat]) /\ Len(m.at) = Len(m.holds)
     /\ \A i, j \in DOMAIN m.at : i < j =>
          page(i) < page(j) \/ (page(i) = page(j) /\ cell(i) + LogCells <= cell(j))
     /\ \A i \in DOMAIN m.at :
          /\ pages[page(i)].sig /\ cell(i) \in scanned(page(i))
          /\ pages[page(i)].cells[cell(i) + 1].op = "active"
          /\ m.holds[i] = Operation(pages[page(i)].cells[cell(i) + 1])
     /\ \A n \in FirstPage..Len(pages) : pages[n].sig => \A p \in scanned(n) :
          LET op == pages[n].cells[p + 1].op
          IN /\ op \in {"bad", "unknown", "other", "active"}
             /\ op = "active" => \E i \in DOMAIN m.at : page(i) = n /\ cell(i) = p
             /\ op = "other" => \A i \in DOMAIN m.at : page(i) = n => cell(i) < p \/ p + LogCells <= cell(i)

\* The events are those of the chunks that can be parsed.
IsEventLog(m) ==
  LET chunks == m.file.chunks
  IN /\ m.file.good \in BOOLEAN
     /\ chunks \in Seq([ok : BOOLEAN, records : Seq([event : BOOLEAN, id : Nat, no : Nat])])
     /\ m.holds \in Seq(Nat)
     /\ ToSet(m.holds) = UNION {{r.no : r \in {x \in ToSet(c.records) : x.event}} : c \in {x \in ToSet(chunks) : x.ok}}

JournalAssumption ==
  /\ {BlockCells, MinCells, LogCells} \subseteq Nat \ {0} /\ {LogHeader, LogFirst, MaxRowFaults} \subseteq Nat
  /\ \A m \in JournalFiles :
       \/ m.file.kind = "usn" /\ IsJournal(m)
       \/ m.file.kind = "log" /\ IsLog(m)
       \/ m.file.kind = "evtx" /\ IsEventLog(m)
       \/ m.file.kind = "mft" /\ m.holds \in Seq(STRING) /\ m.file.rows = m.holds

\* s has elements of all and no others, in their order.
Order(s, all) ==
  /\ ToSet(s) \subseteq ToSet(all)
  /\ \A i, j \in DOMAIN s : i < j => \E k, l \in DOMAIN all : k < l /\ all[k] = s[i] /\ all[l] = s[j]

\* Damage to the heads of a journal's records costs the page it is in and the pages that a
\* damaged length reaches into, no others: their records become rows, once and in their order,
\* and no row is made of anything but a record.
JournalSurvives ==
  /\ Order(out, made.holds)
  /\ done = "eof" /\ aux = 0 => \A i \in Whole(made) : made.holds[i] \in ToSet(out)

\* An event is stored before the row its number asks for, which is not there without it, and
\* an unreadable chunk costs no event of another.
EventsSurvive ==
  /\ \A i \in DOMAIN mem : mem[i].table # "evtx_events" =>
       i > 1 /\ mem[i - 1] = [table |-> "evtx_events", no |-> mem[i].no]
  /\ done = "eof" => \A no \in ToSet(made.holds) : aux > 0 \/ [table |-> "evtx_events", no |-> no] \in ToSet(mem)

\* Whatever insert fails and however the records' heads are damaged, a row is not made twice,
\* one that is there was written, and the records that damage has not reached, in the sense of
\* the parts above, are all there once nothing else fails.
RecordsSurviveDamage ==
  CASE file.kind = "usn" -> JournalSurvives
    [] file.kind = "evtx" -> EventsSurvive
    [] OTHER -> done = "eof" => IF aux = 0 THEN out = made.holds ELSE Order(out, made.holds)
=============================================================================
