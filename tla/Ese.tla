----------------------------------- MODULE Ese -----------------------------------
(***************************************************************************)
(* srum, ntds and bits, which read the same kind of database: a tree of     *)
(* pages is walked to its leaves, first the catalog's and then the tables'   *)
(* that it names, and what lies in the leaves becomes rows, one transaction  *)
(* for a table.  A page is [flags, tags, next, account]: flags is a subset of *)
(* {"leaf", "parent", "root"}, account the name that a search of the whole    *)
(* page comes upon, and a tag is [deleted, child, rec].  child is 0 where no   *)
(* page number is, rec is None where the tag leads out of the page, and else   *)
(* has type, name, root (in the catalog), id, idType (in the map of names),    *)
(* cols, key, app, user and url.                                              *)
(***************************************************************************)
EXTENDS Integers, Sequences, SequencesExt

CONSTANTS EseFiles,        \* [file: [parser, short, pages], holds, kept]
          None,
          MaxRowFaults     \* bound: inserts and commits that fail

VARIABLES made,
          stage,     \* the table being read
          pos,       \* pages still to be visited, the next one first
          mem,       \* [seen, records, tables, ids, names, rows]; rows: of the transaction
          aux,       \* inserts that have failed
          out, done
vars == <<made, stage, pos, mem, aux, out, done>>
file == made.file

Catalog == 4
Init == /\ made \in EseFiles /\ stage = "catalog" /\ pos = <<Catalog>> /\ aux = 0
        /\ mem = [seen |-> {}, records |-> <<>>, tables |-> <<>>, ids |-> {}, names |-> {}, rows |-> <<>>]
        /\ out = <<>> /\ done = "no"

Fault == aux < MaxRowFaults /\ aux' = aux + 1
NoFault == UNCHANGED aux

TooShort == /\ file.short /\ done = "no"
            /\ done' = "err" /\ UNCHANGED <<made, stage, pos, mem, aux, out>>
-----------------------------------------------------------------------------
(* collectLeafRecords: a leaf's records, then the leaf that follows it; of a  *)
(* parent its children, that of the first tag last.  A page is visited once   *)
(* and one that is not there has nothing.                                     *)

AnyPage(p) == p \in DOMAIN file.pages     \* FAULTY: pages that were visited before
Unseen(p) == p \in DOMAIN file.pages /\ p \notin mem.seen

Tags(p) == file.pages[p].tags
IsLive(t) == ~t.deleted
Rest(p) == IF Tags(p) = <<>> THEN <<>> ELSE SelectSeq(Tail(Tags(p)), IsLive)
RecordsOf(p) == SelectSeq([i \in DOMAIN Rest(p) |-> Rest(p)[i].rec], LAMBDA r : r # None)
FirstTag(p) == IF Tags(p) = <<>> THEN <<>> ELSE <<Tags(p)[1]>>
Children(p) == LET tags == Rest(p) \o FirstTag(p)
               IN SelectSeq([i \in DOMAIN tags |-> tags[i].child], LAMBDA c : c # 0)
Follow(p) == CASE "leaf" \in file.pages[p].flags -> <<file.pages[p].next>>
               [] "parent" \in file.pages[p].flags -> Children(p)
               [] OTHER -> <<>>
HasRecords(p) == IF "parent" \in file.pages[p].flags THEN "leaf" \in file.pages[p].flags
                 ELSE file.pages[p].flags # {}

Walking == done = "no" /\ ~file.short /\ pos # <<>>
VisitPage ==
  /\ Walking /\ Unseen(Head(pos))
  /\ pos' = Follow(Head(pos)) \o Tail(pos)
  /\ mem' = [mem EXCEPT !.seen = @ \cup {Head(pos)},
                        !.records = @ \o (IF HasRecords(Head(pos)) THEN RecordsOf(Head(pos)) ELSE <<>>)]
  /\ UNCHANGED <<made, stage, aux, out, done>>

PassPage == /\ Walking /\ ~Unseen(Head(pos))
            /\ pos' = Tail(pos) /\ UNCHANGED <<made, stage, mem, aux, out, done>>

Collected(s) == done = "no" /\ ~file.short /\ pos = <<>> /\ stage = s
-----------------------------------------------------------------------------
(* The catalog: of two tables of a name the later; tables of some names, the  *)
(* first that is there.                                                       *)

TablesOf(records) == SelectSeq(records, LAMBDA r : r.type = 1 /\ r.name # "")
RootOf(name, tables) ==
  LET found == SelectSeq(tables, LAMBDA t : t.name = name)
  IN IF found = <<>> THEN 0 ELSE Last(found).root
NamesOf(s) == CASE s = "idmap" -> <<"SruDbIdMapTable">>
                [] s = "network" -> <<"NetworkUsage">>
                [] s = "app" -> <<"AppUsage">>
                [] s = "datatable" -> <<"datatable">>
                [] s = "jobs" -> <<"BITS_JOB", "Jobs", "BITSJob", "Job">>
                [] s = "files" -> <<"BITS_FILE", "Files", "BITSFile", "File">>
                [] OTHER -> <<>>
RootIn(s, tables) ==
  LET roots == SelectSeq([i \in DOMAIN NamesOf(s) |-> RootOf(NamesOf(s)[i], tables)], LAMBDA p : p # 0)
  IN IF roots = <<>> THEN 0 ELSE roots[1]

Enter(s, tables, ids) ==
  /\ stage' = s /\ pos' = <<RootIn(s, tables)>>
  /\ mem' = [mem EXCEPT !.seen = {}, !.records = <<>>, !.tables = tables, !.ids = ids, !.rows = <<>>]
FirstTable == CASE file.parser = "srum" -> "idmap" [] file.parser = "bits" -> "jobs" [] OTHER -> "datatable"

ReadCatalog ==
  /\ Collected("catalog")
  /\ (file.parser = "ntds" => RootIn("datatable", TablesOf(mem.records)) # 0)
  /\ Enter(FirstTable, TablesOf(mem.records), {})
  /\ UNCHANGED <<made, aux, out, done>>

NoTable ==
  /\ \/ Collected("catalog") /\ file.parser = "ntds" /\ RootIn("datatable", TablesOf(mem.records)) = 0
     \/ Collected("datatable") /\ mem.records = <<>>
  /\ done' = "err" /\ UNCHANGED <<made, stage, pos, mem, aux, out>>
-----------------------------------------------------------------------------
(* Rows.  srum gives a row the names that the map has for its numbers.        *)

\* buildIDMap: numbers of kind 1 name users and all others programs.
ReadIds ==
  /\ Collected("idmap")
  /\ LET named == SelectSeq(mem.records, LAMBDA r : r.cols >= 2 /\ r.name # "")
         kind(r) == IF r.idType = 1 THEN "user" ELSE "app"
     IN Enter("network", mem.tables,
              {[kind |-> kind(named[i]), id |-> named[i].id, name |-> named[i].name] :
                 i \in {j \in DOMAIN named : \A k \in (j + 1)..Len(named) :
                          <<kind(named[k]), named[k].id>> # <<kind(named[j]), named[j].id>>}})
  /\ UNCHANGED <<made, aux, out, done>>

NameOf(kind, id) == LET found == {n \in mem.ids : n.kind = kind /\ n.id = id}
                    IN IF found = {} THEN "" ELSE (CHOOSE n \in found : TRUE).name

\* A record that has not the columns that are asked for gives no row; an account gives one.
IsUsage(r) == r.cols >= IF stage = "network" THEN 9 ELSE 4
IsJob(r) == r.cols >= 1
IsFile(r) == r.cols >= 1 \/ r.url # ""
IsAccount(r) == r.name # "" /\ r.name \notin mem.names
Decodes(r) == CASE stage \in {"network", "app"} -> IsUsage(r)
                [] stage = "jobs" -> IsJob(r)
                [] stage \in {"files", "urls"} -> IsFile(r)
                [] OTHER -> IsAccount(r)
RowOf(r) ==
  [table |-> CASE stage = "urls" -> "files" [] stage = "broad" -> "accounts" [] OTHER -> stage,
   key |-> IF stage \in {"accounts", "broad"} THEN r.name ELSE r.key,
   app |-> IF stage \in {"network", "app"} THEN NameOf("app", r.app) ELSE "",
   user |-> IF stage \in {"network", "app"} THEN NameOf("user", r.user) ELSE ""]

ReadAccounts == /\ Collected("datatable") /\ mem.records # <<>>
                /\ stage' = "accounts" /\ UNCHANGED <<made, pos, mem, aux, out, done>>

Named(r) == IF file.parser = "ntds" /\ r.name # "" THEN {r.name} ELSE {}
InsertRecord ==
  /\ stage \in {"network", "app", "accounts", "broad", "jobs", "files", "urls"}
  /\ Collected(stage) /\ mem.records # <<>>
  /\ LET r == Head(mem.records)
         m == [mem EXCEPT !.records = Tail(@), !.names = @ \cup Named(r)]
     IN \/ NoFault /\ mem' = IF Decodes(r) THEN [m EXCEPT !.rows = Append(@, RowOf(r))] ELSE m
        \/ Decodes(r) /\ Fault /\ mem' = m
  /\ UNCHANGED <<made, stage, pos, out, done>>

\* What the leaves of a whole file have that looks like an address, each once.
LeafRecords ==
  LET last == CHOOSE n \in DOMAIN file.pages : \A p \in DOMAIN file.pages : p <= n
      has(n) == IF n \in DOMAIN file.pages THEN "leaf" \in file.pages[n].flags ELSE FALSE
  IN FlattenSeq([n \in 1..last |-> IF has(n) THEN RecordsOf(n) ELSE <<>>])
Urls ==
  LET found == SelectSeq(LeafRecords, LAMBDA r : r.url # "")
      new[i \in 0..Len(found)] ==
        IF i = 0 THEN <<>>
        ELSE IF \E j \in DOMAIN new[i - 1] : new[i - 1][j].url = found[i].url THEN new[i - 1]
        ELSE Append(new[i - 1], found[i])
  IN new[Len(found)]
\* The accounts that a search of page after page comes upon, one to a page.
Accounts ==
  LET last == CHOOSE n \in DOMAIN file.pages : \A p \in DOMAIN file.pages : p <= n
      on(n) == IF n \in DOMAIN file.pages \ 1..2 THEN file.pages[n].account ELSE ""
  IN SelectSeq([n \in 1..last |-> [name |-> on(n)]], LAMBDA r : r.name # "")

\* The transaction of a table ends; what was left of it is lost when that fails.
Stored == \/ NoFault /\ out' = out \o mem.rows
          \/ mem.rows # <<>> /\ Fault /\ UNCHANGED out
Ready(s) == Collected(s) /\ mem.records = <<>>
Finish == done' = "eof" /\ UNCHANGED <<made, stage, pos, mem>>

CommitTable ==
  \/ Ready("network") /\ Stored /\ Enter("app", mem.tables, mem.ids) /\ UNCHANGED <<made, done>>
  \/ Ready("jobs") /\ Stored /\ Enter("files", mem.tables, {}) /\ UNCHANGED <<made, done>>
  \/ (Ready("app") \/ Ready("urls")) /\ Stored /\ Finish

\* bits searches the whole file when it has no table of files, or nothing was stored.
Searches == RootIn("files", mem.tables) = 0 \/ out' = <<>>
CommitFiles ==
  /\ Ready("files") /\ Stored
  /\ IF Searches THEN /\ stage' = "urls" /\ mem' = [mem EXCEPT !.records = Urls, !.rows = <<>>]
                      /\ UNCHANGED <<made, pos, done>>
     ELSE Finish

\* ntds searches it within the transaction when no row was made.
SearchAccounts ==
  /\ Ready("accounts") /\ mem.rows = <<>>
  /\ stage' = "broad" /\ mem' = [mem EXCEPT !.records = Accounts] /\ UNCHANGED <<made, pos, aux, out, done>>
CommitAccounts ==
  /\ (Ready("accounts") /\ mem.rows # <<>>) \/ Ready("broad")
  /\ \/ NoFault /\ out' = mem.rows /\ Finish
     \/ Fault /\ done' = "err" /\ UNCHANGED <<made, stage, pos, mem, out>>

Next == \/ TooShort \/ VisitPage \/ PassPage \/ ReadCatalog \/ NoTable \/ ReadIds \/ ReadAccounts \/ InsertRecord
        \/ CommitTable \/ CommitFiles \/ SearchAccounts \/ CommitAccounts
-----------------------------------------------------------------------------
\* Every variable has its type.
TypeOK == /\ made \in EseFiles
          /\ stage \in {"catalog", "idmap", "network", "app", "datatable", "accounts", "broad", "jobs", "files", "urls"}
          /\ mem.seen \subseteq DOMAIN file.pages /\ \A i \in DOMAIN mem.tables : mem.tables[i].root \in Nat
          /\ aux \in 0..MaxRowFaults /\ done \in {"no", "eof", "err"}

\* No row is made twice, none of what was deleted or is of another table, and none with
\* another's name; the rows of a page that is whole, and that the tree or the page before
\* it leads to, are all made, as far as the database takes them.
PagesAreTheTable ==
  done = "eof" => /\ IsInjective(out)
                  /\ ToSet(out) \subseteq made.holds
                  /\ aux = 0 => made.kept \subseteq ToSet(out)
=============================================================================
