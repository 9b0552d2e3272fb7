------------------------------- MODULE BrowserDb -------------------------------
(***************************************************************************)
(* The browser parser and its SQLite reader: the write-ahead log is laid    *)
(* over the database's pages, then tables are read from their root pages.   *)
(* A page is                                                                *)
(*   [kind |-> "leaf", cells]    cells [cols, name, root, row, len, over]   *)
(*   [kind |-> "interior", children]    the rightmost child last             *)
(*   [kind |-> "overflow", next]                                             *)
(* len is the length of a cell's payload and over its first overflow page (0: *)
(* none); name and root matter in the schema.  A frame of the log is [page,  *)
(* salt, commit, data].                                                      *)
(***************************************************************************)
EXTENDS Integers, Sequences, SequencesExt, FiniteSets

CONSTANTS Databases,    \* [file: [browser, pages, wal, good], holds, state]
          PageSize

VARIABLES made, stage, pos, mem, out, done     \* as in Registry; mem: pages, log laid over
vars == <<made, stage, pos, mem, out, done>>
file == made.file

\* A log is a sequence of frames.
BrowserAssumption == \A m \in Databases : m.file.wal \in Seq(ToSet(m.file.wal))

Init == /\ made \in Databases /\ stage = "wal" /\ pos = 1 /\ mem = made.file.pages
        /\ out = <<>> /\ done = "no"

\* The file's header is not a database's.
OpenFails == /\ stage = "wal" /\ done = "no" /\ ~file.good
             /\ done' = "err" /\ UNCHANGED <<made, stage, pos, mem, out>>
-----------------------------------------------------------------------------
(* applyWAL: a frame of the log's own salt replaces its page, whether or not  *)
(* a commit follows it.                                                       *)

AnyFrame(f) == f.page > 0      \* FAULTY: frames left from before the log was reset
IsApplied(f) == f.salt /\ f.page > 0
Laid(pages, f) == [n \in DOMAIN pages \cup {f.page} |-> IF n = f.page THEN f.data ELSE pages[n]]

ApplyFrame ==
  /\ stage = "wal" /\ done = "no" /\ file.good /\ pos <= Len(file.wal)
  /\ mem' = IF IsApplied(file.wal[pos]) THEN Laid(mem, file.wal[pos]) ELSE mem
  /\ pos' = pos + 1 /\ UNCHANGED <<made, stage, out, done>>

EndOfWal ==
  /\ stage = "wal" /\ done = "no" /\ file.good /\ pos > Len(file.wal)
  /\ stage' = "history" /\ UNCHANGED <<made, pos, mem, out, done>>
-----------------------------------------------------------------------------
(* scanTablePage: the cells of a table in order, up to a page that is not     *)
(* there; a page of another kind has none.                                    *)

Has(n) == n \in DOMAIN mem
Scanned(ok, endless, cells) == [ok |-> ok, endless |-> endless, cells |-> cells]

\* The cells of pages below one another, at most depth of them: where there are more than the file has, a page
\* leads back to itself and is scanned until the stack overflows.
Scan[depth \in Nat, n \in Nat] ==
  IF n = 0 THEN Scanned(TRUE, FALSE, <<>>)
  ELSE IF ~Has(n) \/ depth = 0 THEN Scanned(FALSE, Has(n), <<>>)
  ELSE CASE mem[n].kind = "leaf" -> Scanned(TRUE, FALSE, mem[n].cells)
         [] mem[n].kind = "interior" ->
              FoldLeft(LAMBDA got, child :
                         IF ~got.ok THEN got
                         ELSE LET below == Scan[depth - 1, child] IN [below EXCEPT !.cells = got.cells \o @],
                       Scanned(TRUE, FALSE, <<>>), mem[n].children)
         [] OTHER -> Scanned(TRUE, FALSE, <<>>)
Cells[n \in Nat] == Scan[Cardinality(DOMAIN mem), n]

\* How much of a payload the reader takes from the cell itself: it uses the limits of an
\* index page, and the upper one where the rest would go beyond it.
MaxLocal == (((PageSize - 12) * 64) \div 255) - 23
MinLocal == (((PageSize - 12) * 32) \div 255) - 23
Local(len) ==
  IF len <= MaxLocal THEN len
  ELSE LET some == MinLocal + ((len - MinLocal) % (PageSize - 4))
       IN IF some > MaxLocal THEN MaxLocal ELSE some

\* readOverflow: a payload whose chain of overflow pages is not all there gives a row that
\* is cut.  What lies where no chain begins leads to no page.
IsOverflow(n) == Has(n) /\ mem[n].kind = "overflow"
IsWhole(c) ==
  LET need == (c.len - Local(c.len) + PageSize - 5) \div (PageSize - 4)
      page[i \in 1..need] == IF i = 1 THEN c.over
                             ELSE IF IsOverflow(page[i - 1]) THEN mem[page[i - 1]].next ELSE 0
  IN \A i \in 1..need : IsOverflow(page[i])

\* findTableRoot: the last entry of the name; 0 when the schema cannot be read to its end.
Root(name) ==
  LET schema == Cells[1]
      found == SelectSeq(schema.cells, LAMBDA c : c.cols >= 5 /\ c.name = name)
  IN IF ~schema.ok \/ found = <<>> THEN 0 ELSE Last(found).root

RowsOf(table, cols) ==
  LET cells == IF Root(table) = 0 THEN <<>> ELSE Cells[Root(table)].cells
      kept == SelectSeq(cells, LAMBDA c : c.cols >= cols)
  IN [i \in DOMAIN kept |-> [table |-> table, row |-> kept[i].row, whole |-> IsWhole(kept[i])]]

History == IF file.browser = "Firefox" THEN "moz_places" ELSE "urls"
Overflows(table) == Cells[1].endless \/ Cells[Root(table)].endless
Overflow == /\ done = "no" /\ \/ stage = "history" /\ Overflows(History)
                              \/ stage = "downloads" /\ file.browser # "Firefox" /\ Overflows("downloads")
            /\ done' = "crashed" /\ UNCHANGED <<made, stage, pos, mem, out>>

\* scanTable's error is not looked at: the rows before it stay.
ReadHistory ==
  /\ stage = "history" /\ done = "no" /\ ~Overflows(History)
  /\ out' = RowsOf(History, 5)
  /\ stage' = "downloads" /\ UNCHANGED <<made, pos, mem, done>>

ReadDownloads ==
  /\ stage = "downloads" /\ done = "no" /\ (file.browser = "Firefox" \/ ~Overflows("downloads"))
  /\ out' = IF file.browser = "Firefox" THEN out ELSE out \o RowsOf("downloads", 8)
  /\ done' = "eof" /\ UNCHANGED <<made, stage, pos, mem>>

Next == OpenFails \/ ApplyFrame \/ EndOfWal \/ Overflow \/ ReadHistory \/ ReadDownloads
Spec == Init /\ [][Next]_vars
-----------------------------------------------------------------------------
\* Every variable has its type.
TypeOK == /\ made \in Databases /\ stage \in {"wal", "history", "downloads"}
          /\ pos \in 1..(Len(file.wal) + 1) /\ DOMAIN file.pages \subseteq DOMAIN mem
          /\ done \in {"no", "eof", "err", "crashed"}

\* What SQLite stores of a payload in the cell of a table.
StoredLocal(len) ==
  LET some == MinLocal + ((len - MinLocal) % (PageSize - 4))
  IN IF len <= PageSize - 35 THEN len ELSE IF some <= PageSize - 35 THEN some ELSE MinLocal
Plain(rows) == [i \in DOMAIN rows |-> [table |-> rows[i].table, row |-> rows[i].row]]

\* The rows are the ones of the last commit, in the tables' order, whatever frames of an
\* earlier log are left behind it, and whole if the reader takes from the cell what is in
\* it.  A log that ends in an open transaction is left out.  Of a damaged file there is
\* nothing but rows that were there: a page number that leads into another table's pages
\* gives that table's rows, for a page does not say whose it is.
RowsAreCommitted ==
  done = "eof" =>
    CASE made.state = "clean" ->
           /\ Plain(out) = Plain(made.holds)
           /\ \A i \in DOMAIN out : Local(made.holds[i].len) = StoredLocal(made.holds[i].len) => out[i].whole
      [] made.state = "damaged" -> \A i \in DOMAIN out : \E j \in DOMAIN made.holds : out[i].row = made.holds[j].row
      [] OTHER -> TRUE

\* "applyWAL overlays committed WAL frames": what an open transaction has written is not.
OnlyCommittedFrames == done = "eof" => ToSet(Plain(out)) \subseteq ToSet(Plain(made.holds))
=============================================================================
