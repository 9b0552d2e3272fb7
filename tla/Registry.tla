-------------------------------- MODULE Registry --------------------------------
(***************************************************************************)
(* The readers of registry hives: amcache (with the transaction logs beside *)
(* the hive), shimcache, registry and shellbags.  A hive is a function from *)
(* cell numbers to cells:                                                   *)
(*   [kind |-> "nk", alloc, name, work, list, values, count]   a key         *)
(*   [kind |-> "vk", name, data]     a value                                 *)
(*   [kind |-> "lf" or "ri", to]     cells of keys, or of lists              *)
(*   [kind |-> "words", to]          a key's value list                      *)
(*   [kind |-> "data"]               anything else                           *)
(* list and values are 0 where the key has none.  A cell begins with its     *)
(* size; work is the field that lies four bytes before a key's name.         *)
(***************************************************************************)
EXTENDS Integers, Sequences, SequencesExt, FiniteSets

\* hurt: where the hive is damaged, seen from the key of amcache's layout.  holds: what the
\* system had stored, as rows whose read are all values of the row's key and whose last says
\* that the row itself is made of the last value of a key.
CONSTANTS Hives       \* [file: [parser, hive, cells, root, logs], holds, hurt]

VARIABLES made,       \* a member of Hives
          stage,      \* how far the parser is
          pos,        \* the next entry of the log being applied
          mem,        \* the hive's cells, logs applied so far
          out,        \* rows
          done        \* "no", "eof" (committed), "err", "crashed"

vars == <<made, stage, pos, mem, out, done>>
file == made.file

\* Two logs, of entries that have pages, one after another.
HiveAssumption ==
  \A m \in Hives : m.file.parser = "amcache" =>
     \A l \in 1..2 : /\ m.file.logs[l] \in Seq(ToSet(m.file.logs[l]))
                     /\ \A e \in DOMAIN m.file.logs[l] :
                          m.file.logs[l][e].pages \in Seq(ToSet(m.file.logs[l][e].pages))

Init == /\ made \in Hives /\ pos = 1 /\ mem = made.file.cells /\ out = <<>> /\ done = "no"
        /\ stage = IF made.file.parser = "amcache" THEN "log1" ELSE "open"

Goto(s) == stage' = s /\ pos' = 1
Fail == done' = "err" /\ UNCHANGED <<made, stage, pos, mem, out>>
Finish(rows) == out' = rows /\ done' = "eof" /\ UNCHANGED <<made, stage, pos, mem>>
-----------------------------------------------------------------------------
(* MergeWithLogs, an entry of a log at a time.  An entry is [no, its number   *)
(* in the order of writing; size: "ok", "bad"; count: "ok", "bad"; pages: a   *)
(* sequence of [at, cell, ok]].  The number is not read.                      *)

Log == file.logs[IF stage = "log1" THEN 1 ELSE 2]

\* Pages up to the first whose size cannot be right.
GoodPages(e) == {i \in DOMAIN e.pages : \A j \in 1..i : e.pages[j].ok}

\* The log has an entry here whose size leads to the next.
GoesOn == pos <= Len(Log) /\ Log[pos].size = "ok"

\* Of two pages for one place the later; one behind the hive's end makes the hive longer.
Patched(cells, e) ==
  LET for(c) == {i \in GoodPages(e) : e.pages[i].at = c}
  IN [c \in DOMAIN cells \cup {e.pages[i].at : i \in GoodPages(e)} |->
        IF for(c) = {} THEN cells[c] ELSE e.pages[Max(for(c))].cell]

ApplyEntry ==
  /\ stage \in {"log1", "log2"} /\ done = "no"
  /\ GoesOn
  /\ mem' = IF Log[pos].count = "bad" THEN mem ELSE Patched(mem, Log[pos])
  /\ pos' = pos + 1 /\ UNCHANGED <<made, stage, out, done>>

\* What follows an entry whose size leads nowhere is not looked at.
EndLog ==
  /\ stage \in {"log1", "log2"} /\ done = "no" /\ ~GoesOn
  /\ Goto(IF stage = "log1" THEN "log2" ELSE "open") /\ UNCHANGED <<made, mem, out, done>>
-----------------------------------------------------------------------------
(* Keys, lists and values. *)

Is(c, kind) == c \in DOMAIN mem /\ mem[c].kind = kind
Bad == [ok |-> FALSE, endless |-> FALSE, keys |-> <<>>]
Good(keys) == [Bad EXCEPT !.ok = TRUE, !.keys = keys]
Endless == [Bad EXCEPT !.endless = TRUE]

\* parseSubkeyList; a list of lists leaves out those it cannot read.  Lists below one another
\* that are more than there are cells lead back to themselves.
IsCell(c) == c \in DOMAIN mem
ListOf[depth \in Nat, l \in Nat] ==
  IF Is(l, "lf") THEN Good(SelectSeq(mem[l].to, LAMBDA c : Is(c, "nk")))
  ELSE IF ~Is(l, "ri") THEN Bad
  ELSE IF depth = 0 THEN Endless
  ELSE LET lists == SelectSeq(mem[l].to, IsCell)
           below == [i \in DOMAIN lists |-> ListOf[depth - 1, lists[i]]]
       IN IF \E i \in DOMAIN lists : below[i].endless THEN Endless
          ELSE Good(FlattenSeq([i \in DOMAIN lists |-> below[i].keys]))
Subkeys[k \in DOMAIN mem] ==
  IF mem[k].list = 0 THEN Good(<<>>) ELSE ListOf[Cardinality(DOMAIN mem), mem[k].list]

\* openSubkey: the first of that name at each level, 0 when there is none.
First(keys) == IF keys = <<>> THEN 0 ELSE keys[1]
Child[k \in Nat, name \in STRING] ==
  IF k = 0 THEN 0 ELSE First(SelectSeq(Subkeys[k].keys, LAMBDA c : mem[c].name = name))
Open(path) == LET at[i \in 0..Len(path)] == IF i = 0 THEN file.root ELSE Child[at[i - 1], path[i]]
              IN at[Len(path)]

\* values: count words are read from where the list's cell begins, so that its size is
\* taken for the first and the last is not reached.
Size == 0
Words(k) == <<Size>> \o mem[mem[k].values].to
Values(k) ==
  IF mem[k].values = 0 THEN <<>>
  ELSE SelectSeq(SubSeq(Words(k), 1, mem[k].count), LAMBDA c : Is(c, "vk"))
Named(k, name) == SelectSeq(Values(k), LAMBDA c : mem[c].name = name)

Row(from, name, k) ==
  [from |-> from, name |-> name, read |-> [i \in DOMAIN Values(k) |-> mem[Values(k)[i]].name]]
RowsOf(from, keys) == [i \in DOMAIN keys |-> Row(from, mem[keys[i]].name, keys[i])]

OpenFails == /\ stage = "open" /\ done = "no" /\ ~Is(file.root, "nk") /\ Fail
OpenHive == /\ stage = "open" /\ done = "no" /\ Is(file.root, "nk")
            /\ Goto("tree") /\ UNCHANGED <<made, mem, out, done>>
In(parser) == file.parser = parser /\ done = "no"
Dies == done' = "crashed" /\ UNCHANGED <<made, stage, pos, mem, out>>

\* parseSubkeyList calls itself until the stack overflows.  Every path leads through the
\* root's list, the one that may lead back to itself here.
Overflow == /\ \E parser \in {"amcache", "shimcache", "registry"} : In(parser)
            /\ stage = (IF file.parser = "registry" /\ file.hive = "SYSTEM" THEN "services" ELSE "tree")
            /\ Subkeys[file.root].endless
            /\ Dies
NoOverflow == ~Subkeys[file.root].endless
-----------------------------------------------------------------------------
(* amcache: the layouts of Windows 10 and of 7, then every allocated cell. *)

Inventory == LET k == Open(<<"Root", "Inventory">>)
             IN IF k = 0 THEN Open(<<"Inventory">>) ELSE k
Legacy == LET k == Open(<<"Root", "File">>)
          IN IF k = 0 THEN Open(<<"File">>) ELSE k

IsListed(k) == k # 0 /\ Subkeys[k].ok
VolumeRows(k) == FlattenSeq([i \in DOMAIN Subkeys[k].keys |-> RowsOf("legacy", Subkeys[Subkeys[k].keys[i]].keys)])
TreeRows ==
  IF IsListed(Inventory) THEN RowsOf("inventory", Subkeys[Inventory].keys)
  ELSE IF Legacy # 0 THEN VolumeRows(Legacy) ELSE <<>>
\* Neither layout was found where it should be.
NoLayout == ~IsListed(Inventory) /\ ~IsListed(Legacy)

LastCell == CHOOSE c \in DOMAIN mem : \A d \in DOMAIN mem : d <= c
Scan(name) == SelectSeq([c \in 1..LastCell |-> c], LAMBDA c : Is(c, "nk") /\ mem[c].alloc /\ mem[c].name = name)
ScanRows ==
  LET found == Scan("Inventory")
      rows == FlattenSeq([i \in DOMAIN found |-> RowsOf("inventory", Subkeys[found[i]].keys)])
      old == Scan("File")
  IN IF rows # <<>> THEN rows ELSE FlattenSeq([i \in DOMAIN old |-> VolumeRows(old[i])])

\* FAULTY: the cells are scanned only when neither layout was found.
ScansOnError == TreeRows = <<>> /\ NoLayout
Scans == TreeRows = <<>>

ReadTree == /\ In("amcache") /\ stage = "tree" /\ NoOverflow /\ ~Scans
            /\ Finish(TreeRows)
ReadCells == /\ In("amcache") /\ stage = "tree" /\ NoOverflow /\ Scans
             /\ ~(ScanRows = <<>> /\ NoLayout)
             /\ Finish(ScanRows)
NothingFound == /\ In("amcache") /\ stage = "tree" /\ NoOverflow /\ Scans /\ ScanRows = <<>> /\ NoLayout
                /\ Fail
-----------------------------------------------------------------------------
(* shimcache: the value of the first control set that has one; a value of    *)
(* more than 16344 bytes is a list of segments.  Its data is [ok, entries],  *)
(* an entry [tag, whole, path].                                              *)

ControlSets == <<"ControlSet001", "ControlSet002", "CurrentControlSet">>
CacheOf(set) == LET k == Open(<<set, "Control", "AppCompatCache">>)
                IN IF k = 0 THEN <<>> ELSE Named(k, "AppCompatCache")
Sets == SelectSeq(ControlSets, LAMBDA s : CacheOf(s) # <<>>)
Blob == mem[CacheOf(Sets[1])[1]].data

\* Entries follow one another until one has no tag or does not fit.
ShimEntries(blob) ==
  LET stop == {i \in DOMAIN blob.entries : ~blob.entries[i].tag \/ ~blob.entries[i].whole}
      n == IF stop = {} THEN Len(blob.entries) ELSE (CHOOSE i \in stop : \A j \in stop : i <= j) - 1
  IN [i \in 1..n |-> [from |-> "shimcache", name |-> <<i - 1, blob.entries[i].path>>, read |-> <<>>]]

HasBlob == Sets # <<>> /\ Blob.ok
FindBlob == /\ In("shimcache") /\ stage = "tree" /\ NoOverflow /\ HasBlob
            /\ Finish(ShimEntries(Blob))
NoBlob == /\ In("shimcache") /\ stage = "tree" /\ NoOverflow /\ ~HasBlob
          /\ Fail
-----------------------------------------------------------------------------
(* registry: Run keys of either kind of hive, then the rest of an NTUSER or   *)
(* a SYSTEM hive, each with what the stage before has stored.                 *)

RunPaths(hive) == IF hive = "NTUSER" THEN <<<<"Software", "Run">>, <<"Software", "RunOnce">>>>
                  ELSE IF hive = "SOFTWARE" THEN <<<<"Run">>, <<"RunOnce">>>> ELSE <<>>
ValueRows(from, k) ==
  IF k = 0 THEN <<>>
  ELSE [i \in DOMAIN Values(k) |-> [from |-> from, name |-> mem[Values(k)[i]].name, read |-> <<>>]]

ReadRunKeys ==
  /\ In("registry") /\ stage = "tree" /\ (file.hive = "SYSTEM" \/ NoOverflow)
  /\ LET paths == RunPaths(file.hive)
     IN out' = FlattenSeq([i \in DOMAIN paths |-> ValueRows("run", Open(paths[i]))])
  /\ Goto("services") /\ UNCHANGED <<made, mem, done>>

\* The first control set whose services can be listed, and no other.
FirstSet(set) == LET listed == SelectSeq(ControlSets, LAMBDA s : IsListed(Open(<<s, "Services">>)))
                 IN listed # <<>> /\ set = listed[1]
ServiceRows(set) == LET k == Open(<<set, "Services">>)
                    IN IF k = 0 \/ ~FirstSet(set) THEN <<>> ELSE RowsOf("service", Subkeys[k].keys)

ReadServices ==
  /\ In("registry") /\ stage = "services" /\ NoOverflow
  /\ out' = out \o (IF file.hive = "SYSTEM"
                    THEN FlattenSeq([i \in DOMAIN ControlSets |-> ServiceRows(ControlSets[i])]) ELSE <<>>)
  /\ Goto("execution") /\ UNCHANGED <<made, mem, done>>

\* UserAssist: the Count key below each GUID, without the session's own entry.
UserAssistRows ==
  LET root == Open(<<"Software", "UserAssist">>)
      guids == IF root = 0 THEN <<>> ELSE Subkeys[root].keys
  IN SelectSeq(FlattenSeq([i \in DOMAIN guids |-> ValueRows("userassist", Child[guids[i], "Count"])]),
               LAMBDA r : r.name # "UEME_CTLSESSION")
\* BAM and DAM: a value per program below each SID.
BamDamRows ==
  LET under(s) == Open(<<"ControlSet001", "Services", s, "UserSettings">>)
      sids(s) == IF under(s) = 0 THEN <<>> ELSE Subkeys[under(s)].keys
  IN SelectSeq(FlattenSeq([i \in 1..2 |->
                 LET s == <<"bam", "dam">>[i]
                 IN FlattenSeq([j \in DOMAIN sids(s) |-> ValueRows(s, sids(s)[j])])]),
               LAMBDA r : r.name \notin {"SequenceNumber", "Version"})

ReadExecution ==
  /\ In("registry") /\ stage = "execution"
  /\ Finish(out \o (IF file.hive = "NTUSER" THEN UserAssistRows
                    ELSE IF file.hive = "SYSTEM" THEN BamDamRows ELSE <<>>))
-----------------------------------------------------------------------------
(* shellbags, with a hive reader of its own: it takes a key's name from the   *)
(* place of the field before it, and reads lists of lists one level deep.     *)

LeafOf(l) == IF Is(l, "lf") THEN mem[l].to ELSE <<>>
ShellKeys(k) ==
  LET l == mem[k].list
      cells == IF Is(l, "ri") THEN FlattenSeq([i \in DOMAIN mem[l].to |-> LeafOf(mem[l].to[i])]) ELSE LeafOf(l)
  IN SelectSeq(cells, LAMBDA c : Is(c, "nk"))
NameRead(k) == mem[k].work
ShellChild[k \in Nat, name \in STRING] ==
  IF k = 0 THEN 0 ELSE First(SelectSeq(ShellKeys(k), LAMBDA c : NameRead(c) = name))
BagMRU == ShellChild[ShellChild[file.root, "Software"], "BagMRU"]

\* walkBagMRU: an item's folder first, then the item, named by the path to it.
Items(k) == SelectSeq(Values(k), LAMBDA c : mem[c].data.item # "")
Below(item, rows) == [i \in DOMAIN rows |-> [rows[i] EXCEPT !.name = <<item>> \o @]]
WalkBag[k \in Nat] ==
  FlattenSeq([i \in DOMAIN Items(k) |->
    LET v == mem[Items(k)[i]]
        sub == ShellChild[k, v.name]
    IN (IF sub = 0 THEN <<>> ELSE Below(v.data.item, WalkBag[sub]))
       \o <<[from |-> "shellbag", name |-> <<v.data.item>>, read |-> <<>>]>>])
\* The folders end, or lead back to one of themselves.
BagEnds[depth \in Nat, k \in Nat] ==
  \/ k = 0
  \/ depth > 0 /\ \A i \in DOMAIN Items(k) : BagEnds[depth - 1, ShellChild[k, mem[Items(k)[i]].name]]
EndlessBags == ~BagEnds[Cardinality(DOMAIN mem), BagMRU]
WalkForEver == In("shellbags") /\ stage = "tree" /\ EndlessBags /\ Dies

\* A hive without the key is no error.
ReadShellbags == /\ In("shellbags") /\ stage = "tree" /\ ~EndlessBags
                 /\ Finish(IF BagMRU = 0 THEN <<>> ELSE WalkBag[BagMRU])

Next == \/ ApplyEntry \/ EndLog \/ OpenFails \/ OpenHive \/ Overflow \/ ReadTree \/ ReadCells \/ NothingFound
        \/ FindBlob \/ NoBlob \/ ReadRunKeys \/ ReadServices \/ ReadExecution \/ ReadShellbags
        \/ WalkForEver
-----------------------------------------------------------------------------
\* Every variable has its type.
TypeOK == /\ made \in Hives /\ stage \in {"log1", "log2", "open", "tree", "services", "execution"}
          /\ pos \in Nat \ {0} /\ DOMAIN file.cells \subseteq DOMAIN mem
          /\ done \in {"no", "eof", "err", "crashed"}

Names(rows) == [i \in DOMAIN rows |-> [from |-> rows[i].from, name |-> rows[i].name]]
IsStored(row) == \E h \in ToSet(made.holds) :
                   h.from = row.from /\ h.name = row.name /\ ToSet(row.read) \subseteq ToSet(h.read)

\* Entries lie in the logs in the order they were written, those of the first log first.
Entries == file.logs[1] \o file.logs[2]
LogsInOrder == \A d, e \in DOMAIN Entries : d < e => Entries[d].no < Entries[e].no

\* The hives of which everything is promised: undamaged, or of amcache damaged above the
\* layout's key alone; their logs in order; and of shellbags with names where its reader looks.
Promised ==
  /\ made.hurt \in (IF file.parser = "amcache" THEN {"no", "above"} ELSE {"no"})
  /\ file.parser = "amcache" => LogsInOrder
  /\ file.parser = "shellbags" => \A k \in DOMAIN mem : Is(k, "nk") => NameRead(k) = mem[k].name

\* Each row is of a key or an entry the system had stored, once, with no value that the key
\* has not.  Of a promised hive there is, in its order, a row for each of them and in it every
\* value but the last of its key, and no value that is its key's last makes a row: "values
\* returns all VK cells for this key" holds of the others only.  A hive whose tree is
\* not yet written is still read.  What is not promised - logs out of order, which are laid
\* over the hive as they lie, and damage on the way - gives no more than the first part says.
RowsAreTheHive ==
  /\ done = "eof" => /\ IsInjective(Names(out))
                     /\ \A i \in DOMAIN out : IsStored(out[i])
  /\ done = "eof" /\ Promised =>
       LET kept == SelectSeq(made.holds, LAMBDA h : ~h.last)
       IN /\ Names(out) = Names(kept)
          /\ \A i \in DOMAIN out : out[i].read = SubSeq(kept[i].read, 1, Len(kept[i].read) - 1)
  /\ done = "err" => ~Promised \/ \A h \in ToSet(made.holds) : h.last
=============================================================================
