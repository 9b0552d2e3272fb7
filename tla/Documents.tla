-------------------------------- MODULE Documents --------------------------------
(***************************************************************************)
(* jumplists and email: the lists of what a program opened, and messages,    *)
(* of which automatic lists and Outlook's messages are compound files.        *)
(*                                                                           *)
(* A sector holds units, a mini sector one, and lengths are in units.         *)
(* Sectors are                                                               *)
(*   [kind |-> "table", next]    of the FAT, the mini FAT or the DIFAT        *)
(*   [kind |-> "dir", entries]   [type, name, enc, start, size, child, left,  *)
(*                                right]; the pointers are places, 0 is none  *)
(*   [kind |-> "data", units]                                                *)
(* A custom list is a sequence of units, a message a sequence of parts, and   *)
(* an mbox one of lines [kind, part].  Parts are [type, name, data], in the   *)
(* order in which they are walked.                                           *)
(***************************************************************************)
EXTENDS Integers, Sequences, SequencesExt, FiniteSets

CONSTANTS DocumentFiles,  \* [file: [kind, good, ...], truth]
          SectorEntries,  \* entries of a table's sector
          MaxRowFaults    \* bound: inserts that fail

VARIABLES made, stage,
          pos,     \* the sector, line or part that is read next
          mem,     \* [fats, difats, fat, miniFat, dir, miniStream, streams, got, seen, mail, id, queue]
          aux,     \* inserts that have failed
          out, done
vars == <<made, stage, pos, mem, aux, out, done>>
file == made.file
IsMsg == file.kind = "msg"

Free == 0 - 1
End == 0 - 2
Mark == 0 - 3     \* a sector of the FAT or the DIFAT itself
IsSector(n) == n >= 0
Absent == [kind |-> "absent"]
NoMail == [subject |-> <<>>, text |-> <<>>, html |-> <<>>, atts |-> <<>>, lines |-> 0, good |-> TRUE]
UpTo(n, s) == IF Len(s) <= n THEN s ELSE SubSeq(s, 1, n)

Init == /\ made \in DocumentFiles /\ aux = 0 /\ out = <<>> /\ done = "no"
        /\ stage = "open" /\ pos = 0
        /\ mem = [fats |-> <<>>, difats |-> 0, fat |-> <<>>, miniFat |-> <<>>, dir |-> <<>>, miniStream |-> <<>>,
                  streams |-> <<>>, got |-> <<>>, seen |-> {}, mail |-> NoMail, id |-> 0, queue |-> <<>>]

At(s) == stage = s /\ done = "no"
Goto(s, p) == stage' = s /\ pos' = p
-----------------------------------------------------------------------------
(* A compound file: where the FAT lies is in the header and in the sectors of  *)
(* the DIFAT, whose last entry leads to the next.                              *)

Named(entries) ==
  LET stop == SelectInSeq(entries, LAMBDA n : n \in {Free, End})
  IN IF ~IsMsg THEN SelectSeq(entries, IsSector) ELSE IF stop = 0 THEN entries ELSE SubSeq(entries, 1, stop - 1)
NamedInHeader(entries) == SelectSeq(Named(entries), LAMBDA n : n # Mark)
Fats(named) == UpTo(file.numFat, mem.fats \o named)
Sector(n) == IF n + 1 \in DOMAIN file.sectors THEN file.sectors[n + 1] ELSE Absent
TableOf(sector) == IF sector.kind = "table" THEN sector.next ELSE <<>>

OpenFails == /\ At("open") /\ (~file.good \/ (IsMsg /\ file.short))
             /\ done' = "err" /\ UNCHANGED <<made, stage, pos, mem, aux, out>>
\* A header that is cut is sliced all the same: the process is gone.
Crash == done' = "crashed" /\ UNCHANGED <<made, stage, pos, mem, aux, out>>
HeaderIsCut == At("open") /\ file.good /\ file.kind = "auto" /\ file.short /\ Crash
OpenCompound ==
  /\ At("open") /\ file.good /\ file.kind \in {"auto", "msg"} /\ ~file.short
  /\ mem' = [mem EXCEPT !.fats = Fats(NamedInHeader(file.fats))]
  /\ Goto("difat", file.difat) /\ UNCHANGED <<made, aux, out, done>>

MoreDifat == /\ IsSector(pos) /\ Sector(pos).kind = "table"
             /\ IF IsMsg THEN Len(mem.fats) < file.numFat ELSE mem.difats < file.numDifat
ReadDifat ==
  /\ At("difat") /\ MoreDifat
  /\ mem' = [mem EXCEPT !.fats = Fats(Named(Front(TableOf(Sector(pos))))), !.difats = IF IsMsg THEN 0 ELSE @ + 1]
  /\ Goto("difat", Last(TableOf(Sector(pos)))) /\ UNCHANGED <<made, aux, out, done>>

\* A message's DIFAT has no length but the number of sectors it is to name: one that leads back
\* and names none is followed for ever.
DifatTurns ==
  LET at[i \in 0..Len(file.sectors)] ==
        IF i = 0 THEN file.difat
        ELSE LET s == Sector(at[i - 1]) IN IF s.kind = "table" THEN Last(s.next) ELSE End
  IN At("difat") /\ IsMsg /\ Sector(at[Len(file.sectors)]).kind = "table"

\* A sector of the FAT that is not there is left out by one reader and read as zeros by the other.
Lost == IF IsMsg THEN [i \in 1..SectorEntries |-> 0] ELSE <<>>
FatOf == FlattenSeq([i \in DOMAIN mem.fats |->
           IF Sector(mem.fats[i]).kind = "absent" THEN Lost ELSE TableOf(Sector(mem.fats[i]))])
BuildFat ==
  /\ At("difat") /\ ~MoreDifat
  /\ mem' = [mem EXCEPT !.fat = FatOf]
  /\ Goto("minifat", IF IsMsg /\ file.numMini = 0 THEN End ELSE file.mini)
  /\ UNCHANGED <<made, aux, out, done>>

\* Chains: of sectors, and of mini sectors.  The reader of messages keeps what it has seen; the
\* one of jump lists appends for ever what a chain that leads back has, which GoesRound stands for.
Chains == {"minifat", "dir", "root", "chain", "minichain"}
Table == IF stage = "minichain" THEN mem.miniFat ELSE mem.fat
Piece(n) == IF stage # "minichain" THEN Sector(n)
            ELSE IF n + 1 \in DOMAIN mem.miniStream THEN [kind |-> "data", units |-> <<mem.miniStream[n + 1]>>] ELSE Absent
IsNew == IsMsg => pos \notin mem.seen /\ pos < Len(Table)
Leads == IsSector(pos) /\ Piece(pos).kind # "absent" /\ IsNew
ReadSector ==
  /\ stage \in Chains /\ done = "no" /\ Leads /\ pos \notin mem.seen
  /\ mem' = [mem EXCEPT !.got = Append(@, Piece(pos)), !.seen = @ \cup {pos}]
  /\ pos' = IF pos < Len(Table) THEN Table[pos + 1] ELSE End
  /\ UNCHANGED <<made, stage, aux, out, done>>

Circles == stage \in Chains /\ done = "no" /\ Leads /\ pos \in mem.seen
GoesRound == Circles /\ UNCHANGED vars

AtEnd(s) == At(s) /\ ~Leads
Got(kind) == SelectSeq(mem.got, LAMBDA s : s.kind = kind)
Units == LET got == Got("data") IN FlattenSeq([i \in DOMAIN got |-> got[i].units])
Links == LET got == Got("table") IN FlattenSeq([i \in DOMAIN got |-> got[i].next])
Entries == LET got == Got("dir") IN FlattenSeq([i \in DOMAIN got |-> got[i].entries])
Fresh(m) == [m EXCEPT !.got = <<>>, !.seen = {}]
EndMiniFat == /\ AtEnd("minifat")
              /\ mem' = Fresh([mem EXCEPT !.miniFat = Links])
              /\ Goto("dir", file.dir) /\ UNCHANGED <<made, aux, out, done>>
EndDirectory ==
  /\ AtEnd("dir")
  /\ mem' = Fresh([mem EXCEPT !.dir = Entries])
  /\ Goto("root", IF Entries = <<>> THEN End ELSE Entries[1].start)
  /\ UNCHANGED <<made, aux, out, done>>
EndRoot == /\ AtEnd("root") /\ mem' = Fresh([mem EXCEPT !.miniStream = Units])
           /\ Goto("streams", 0) /\ UNCHANGED <<made, aux, out, done>>

\* The streams, one after another: short ones in mini sectors, if there are any.
Entry == mem.dir[Len(mem.streams) + 1]
IsMini == Entry.size < file.cutoff /\ (IF IsMsg THEN mem.miniFat ELSE mem.miniStream) # <<>>
OpenStream ==
  /\ At("streams") /\ Len(mem.streams) < Len(mem.dir)
  /\ Goto(IF IsMini THEN "minichain" ELSE "chain", IF Entry.type = "stream" THEN Entry.start ELSE End)
  /\ UNCHANGED <<made, mem, aux, out, done>>
EndStream ==
  /\ AtEnd("chain") \/ AtEnd("minichain")
  /\ mem' = Fresh([mem EXCEPT !.streams = Append(@, UpTo(Entry.size, Units))])
  /\ Goto("streams", 0) /\ UNCHANGED <<made, aux, out, done>>
HasStreams == At("streams") /\ Len(mem.streams) = Len(mem.dir)
-----------------------------------------------------------------------------
(* Jump lists: the entries of DestList, and the links in streams it does not    *)
(* name.  Two streams of one name are one, the last.                            *)

Row(id, path) == [table |-> "jumplists", id |-> id, path |-> path]
LastOf(name) == LET same == {i \in DOMAIN mem.dir : mem.dir[i].type = "stream" /\ mem.dir[i].name = name}
                IN CHOOSE i \in same : \A j \in same : j <= i
Streams == {LastOf(mem.dir[i].name) : i \in {j \in DOMAIN mem.dir : mem.dir[j].type = "stream"}}
DestRows ==
  LET lists == {i \in Streams : mem.dir[i].name = "DestList"}
      list == mem.streams[CHOOSE i \in lists : TRUE]
      entries == UpTo(list[1].count, Tail(list))
  IN IF lists = {} \/ list = <<>> THEN <<>> ELSE [i \in DOMAIN entries |-> Row(entries[i].id, entries[i].path)]
\* lnkEntry: the path follows the link's head, and is empty when it is cut off.
IsLink(units) == units # <<>> /\ units[1].kind = "lnk"
LinkRow(id, units) == Row(id, IF Len(units) > 1 /\ units[2].kind = "path" THEN units[2].path ELSE "")
AnyLink(i, rows) == TRUE      \* FAULTY: an entry of DestList is there again as its link
IsUnlisted(i, rows) == mem.dir[i].name \notin {rows[j].id : j \in DOMAIN rows}
AutoRows ==
  LET links == SetToSortSeq({i \in Streams : mem.dir[i].name # "DestList" /\ IsUnlisted(i, DestRows) /\ IsLink(mem.streams[i])}, <)
  IN DestRows \o [i \in DOMAIN links |-> LinkRow(mem.dir[links[i]].name, mem.streams[links[i]])]

\* parseCustomDestinations: what is between the first marker and the footer is one link.
CustomRows ==
  LET footer == SelectInSeq(file.units, LAMBDA u : u.kind = "footer")
      units == IF footer = 0 THEN file.units ELSE SubSeq(file.units, 1, footer - 1)
  IN IF units # <<>> /\ IsLink(Tail(units)) THEN <<LinkRow("entry_0", Tail(units))>> ELSE <<>>

HasPath(row) == row.path # ""
ReadAuto == /\ HasStreams /\ file.kind = "auto"
            /\ mem' = [mem EXCEPT !.queue = SelectSeq(AutoRows, HasPath)]
            /\ Goto("rows", 0) /\ UNCHANGED <<made, aux, out, done>>
ReadCustom == /\ At("open") /\ file.kind = "custom" /\ file.good
              /\ mem' = [mem EXCEPT !.queue = SelectSeq(CustomRows, HasPath)]
              /\ Goto("rows", 0) /\ UNCHANGED <<made, aux, out, done>>
-----------------------------------------------------------------------------
(* Messages.  insertEmailFull stores the message, its attachments and its        *)
(* addresses, in that order.                                                     *)

MailRows(id, m) ==
  <<[table |-> "emails", id |-> id, subject |-> m.subject, text |-> m.text, html |-> m.html, has |-> m.atts # <<>>]>>
  \o [i \in DOMAIN m.atts |-> [table |-> "attachments", id |-> id, att |-> m.atts[i]]]
  \o IF m.text \o m.html = <<>> THEN <<>> ELSE <<[table |-> "urls", id |-> id]>>

\* The entries of a storage, in the order in which its tree is searched.
Under[i \in Nat] == IF i \notin DOMAIN mem.dir THEN <<>>
                    ELSE <<i>> \o Under[mem.dir[i].left] \o Under[mem.dir[i].right]
Children(storage) == Under[mem.dir[storage].child]
Property(storage, name, enc) ==
  LET found == SelectSeq(Children(storage), LAMBDA i : mem.dir[i].name = name /\ mem.dir[i].enc = enc)
  IN IF found = <<>> \/ mem.dir[found[1]].type # "stream" THEN <<>> ELSE mem.streams[found[1]]
Or(first, otherwise) == IF first # <<>> THEN first ELSE otherwise
Str(storage, name) == Or(Property(storage, name, "unicode"), Property(storage, name, "ansi"))
AttachmentOf(storage) == [name |-> Or(Str(storage, "longname"), Str(storage, "filename")),
                          data |-> Property(storage, "data", "binary")]
MessageOf ==
  LET storages == SelectSeq(Children(1), LAMBDA i : mem.dir[i].name = "attach")
      atts == [i \in DOMAIN storages |-> AttachmentOf(storages[i])]
  IN [subject |-> Str(1, "subject"), text |-> Str(1, "body"),
      html |-> Or(Property(1, "html", "binary"), Str(1, "html")),
      atts |-> SelectSeq(atts, LAMBDA a : a.data # <<>>)]
\* searchTree and collectTree keep no set of what they have read, and the directory's first
\* entry is taken whether or not there is one.
Endless(storage) ==
  LET below(S) == UNION {{mem.dir[i].left, mem.dir[i].right} \cap DOMAIN mem.dir : i \in S}
      at[depth \in 0..Len(mem.dir)] == IF depth = 0 THEN {mem.dir[storage].child} \cap DOMAIN mem.dir ELSE below(at[depth - 1])
  IN at[Len(mem.dir)] # {}
Readable == mem.dir # <<>> /\ ~Endless(1) /\ \A i \in ToSet(Children(1)) : mem.dir[i].name = "attach" => ~Endless(i)
ReadMsg == /\ HasStreams /\ IsMsg /\ Readable
           /\ mem' = [mem EXCEPT !.id = 1, !.queue = MailRows(1, MessageOf)]
           /\ Goto("rows", 0) /\ UNCHANGED <<made, aux, out, done>>
TreeFails == HasStreams /\ IsMsg /\ ~Readable /\ Crash

\* walkPart: the first text and the first page that are not empty are the message, and what
\* is neither, or has a name, is attached.
IsBody(part, type, have) == part.type = type /\ part.name = "" /\ have = <<>>
IsText(part) == part.type \in {"text", "html"} /\ part.name = ""
Walk(m, part) ==
  [m EXCEPT !.lines = @ + 1, !.subject = IF part.type = "head" THEN part.data ELSE @,
            !.text = IF IsBody(part, "text", @) THEN part.data ELSE @,
            !.html = IF IsBody(part, "html", @) THEN part.data ELSE @,
            !.good = @ /\ part.type # "broken",
            !.atts = IF IsText(part) \/ part.type \in {"head", "broken"} \/ part.data = <<>> THEN @
                     ELSE Append(@, [name |-> part.name, data |-> part.data])]
ReadEml ==
  /\ At("open") /\ file.kind = "eml" /\ file.good
  /\ LET m == FoldLeft(Walk, NoMail, file.parts)
     IN IF m.good THEN mem' = [mem EXCEPT !.id = 1, !.queue = MailRows(1, m)] /\ Goto("rows", 0) /\ UNCHANGED done
        ELSE done' = "err" /\ UNCHANGED <<mem, stage, pos>>
  /\ UNCHANGED <<made, aux, out>>

\* An mbox, line by line; a message ends where the next begins, and one that is no message
\* is left out.
OpenMbox == /\ At("open") /\ file.kind = "mbox"
            /\ Goto("before", 1) /\ UNCHANGED <<made, mem, aux, out, done>>
InBox == stage \in {"before", "in"} /\ done = "no" /\ mem.queue = <<>>
Line == IF pos \in DOMAIN file.lines THEN file.lines[pos] ELSE [kind |-> "end"]
Flushed ==
  IF stage = "in" /\ mem.mail.lines > 0 /\ mem.mail.good
  THEN [mem EXCEPT !.id = @ + 1, !.queue = MailRows(mem.id + 1, mem.mail), !.mail = NoMail]
  ELSE [mem EXCEPT !.mail = NoMail]
Envelope == /\ InBox /\ Line.kind = "from"
            /\ mem' = Flushed /\ Goto("in", pos + 1) /\ UNCHANGED <<made, aux, out, done>>
TakeLine ==
  /\ InBox /\ Line.kind = "line"
  /\ mem' = IF stage = "in" THEN [mem EXCEPT !.mail = Walk(@, Line.part)] ELSE mem
  /\ pos' = pos + 1 /\ UNCHANGED <<made, stage, aux, out, done>>
EndOfBox == /\ InBox /\ Line.kind \in {"end", "long"}
            /\ mem' = Flushed /\ Goto(IF Line.kind = "long" THEN "fails" ELSE "rows", pos)
            /\ UNCHANGED <<made, aux, out, done>>
-----------------------------------------------------------------------------
\* What follows a message that could not be stored: none of its rows, which are all that is
\* queued, and of a file that is one message nothing.
KeepsRows(rows) == rows      \* FAULTY: its attachments are stored without it
WithoutMessage(rows) == <<>>
StoreRow ==
  /\ done = "no" /\ mem.queue # <<>>
  /\ LET row == Head(mem.queue)
         rest == Tail(mem.queue)
     IN \/ /\ out' = Append(out, row) /\ mem' = [mem EXCEPT !.queue = rest] /\ UNCHANGED <<aux, done>>
        \/ /\ aux < MaxRowFaults /\ aux' = aux + 1 /\ UNCHANGED out
           /\ mem' = [mem EXCEPT !.queue = IF row.table = "emails" THEN WithoutMessage(rest) ELSE rest]
           /\ done' = IF row.table = "emails" /\ file.kind # "mbox" THEN "err" ELSE "no"
  /\ UNCHANGED <<made, stage, pos>>
Finish == /\ done = "no" /\ stage \in {"rows", "fails"} /\ mem.queue = <<>>
          /\ done' = IF stage = "fails" THEN "err" ELSE "eof"
          /\ UNCHANGED <<made, stage, pos, mem, aux, out>>

Next == \/ OpenFails \/ HeaderIsCut \/ OpenCompound \/ ReadDifat \/ BuildFat \/ ReadSector \/ GoesRound \/ EndMiniFat \/ EndDirectory \/ EndRoot
        \/ OpenStream \/ EndStream \/ ReadAuto \/ ReadCustom \/ ReadMsg \/ TreeFails \/ ReadEml
        \/ OpenMbox \/ Envelope \/ TakeLine \/ EndOfBox \/ StoreRow \/ Finish
-----------------------------------------------------------------------------
\* Every variable has its type.
TypeOK == /\ made \in DocumentFiles
          /\ stage \in {"open", "difat", "streams", "before", "in", "rows", "fails"} \cup Chains
          /\ pos \in Int /\ (\A n \in mem.seen : IsSector(n)) /\ mem.difats \in Nat
          /\ aux \in 0..MaxRowFaults /\ done \in {"no", "eof", "err", "crashed"}

\* truth: what the document was made from; loss is "none", "some" of it at its end, or "any".
\* Of the rows of a jump list, later are those of the links behind the first of a custom list,
\* and pathless those of links that DestList names without their paths.
Truth == made.truth
Of(table) == SelectSeq(out, LAMBDA r : r.table = table)
Whole == done = "eof" /\ aux = 0 /\ Truth.loss = "none"

\* A jump list has a row for every file that was opened, whether DestList names it or only a
\* link does, and no row but for those; of a list that is cut, no row but those.  There are two
\* exceptions, in which the code differs from its comments: of a custom list, "a sequence of LNK
\* files" (jumplists.go:8), the first link alone is read, and a link that DestList names without
\* a path is not looked at, which is for "any paths DestList missed" (jumplists.go:112).
DestinationsAreTrue ==
  LET rows == Of("jumplists")
      stored == Truth.rows \ (Truth.later \cup Truth.pathless)
  IN file.kind \in {"auto", "custom"} /\ Truth.loss # "any" =>
       /\ ToSet(rows) \subseteq stored
       /\ \A i, j \in DOMAIN rows : rows[i].id = rows[j].id => i = j
       /\ Whole => ToSet(rows) = stored

\* No attachment and no address without the message it came with, and no two messages of one
\* number; messages have the attachments, texts and subjects they were sent with, and every
\* message of a file that is whole is there, in order.  An mbox has no line of a text that
\* isFromLine takes for the next message (mbox.go:82), and numbers are those of one process
\* (common.go:16).
MessagesAreTrue ==
  LET mails == Of("emails")
      attached(id) == {r.att : r \in {x \in ToSet(Of("attachments")) : x.id = id}}
      sent(m) == [subject |-> m.subject, text |-> m.text, html |-> m.html, atts |-> attached(m.id), has |-> m.has]
      got == [i \in DOMAIN mails |-> sent(mails[i])]
      isCut(m, t) == /\ IsPrefix(m.subject, t.subject) /\ IsPrefix(m.text, t.text) /\ IsPrefix(m.html, t.html)
                     /\ \A a \in m.atts : \E b \in t.atts : a.name = b.name /\ IsPrefix(a.data, b.data)
  IN file.kind \in {"msg", "eml", "mbox"} =>
       /\ \A i \in DOMAIN out : \E j \in 1..i : out[j].table = "emails" /\ out[j].id = out[i].id
       /\ \A i, j \in DOMAIN mails : mails[i].id = mails[j].id => i = j
       /\ Truth.loss # "any" => \A i \in DOMAIN got : \E t \in ToSet(Truth.mails) : isCut(got[i], t)
       /\ Whole => got = Truth.mails
=============================================================================
